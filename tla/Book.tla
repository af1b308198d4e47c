-------------------------------- MODULE Book --------------------------------
(***************************************************************************)
(* The accounting of src/engine/core/portfolio.py as operators on a book:  *)
(* cash, positions, tax lots and the sell history.  Money is in integer    *)
(* units and a division rounds down, where the code uses floats.  A        *)
(* portfolio operation is synchronous, so each is one operator from the    *)
(* old book to the new one; an exception of the code is the negation of    *)
(* CanOpen or CanClose and leaves the book as it is.                       *)
(***************************************************************************)
EXTENDS Integers, Sequences, FiniteSets, FiniteSetsExt

CONSTANTS Symbols,      \* what can be held
          InitialCash,  \* Portfolio.initial_cash
          WashWindow    \* DefaultCostModel.wash_sale_window_days

ASSUME BookAssumption == IsFiniteSet(Symbols) /\ InitialCash \in Nat /\ WashWindow \in Nat

Least(a, b) == IF a <= b THEN a ELSE b

TaxMethod == {"FIFO", "LIFO", "SPECIFIC_LOT"}

\* A symbol without an entry in Portfolio.positions.
NoPosition == [qty |-> 0, avg |-> 0, price |-> 0]

EmptyBook ==
    [cash  |-> InitialCash,
     pos   |-> [s \in Symbols |-> NoPosition],
     lots  |-> [s \in Symbols |-> << >>],
     sells |-> << >>,
     pnl   |-> 0]

Held(b) == {s \in Symbols : b.pos[s].qty > 0}

MarketValue(p) == p.qty * (IF p.price > 0 THEN p.price ELSE p.avg)

SumOver(f) == MapThenSumSet(LAMBDA x : f[x], DOMAIN f)

TotalValue(b) == b.cash + SumOver([s \in Symbols |-> MarketValue(b.pos[s])])

LotShares(lots) == SumOver([i \in DOMAIN lots |-> lots[i].qty])

LotBasis(lots) == SumOver([i \in DOMAIN lots |-> lots[i].qty * lots[i].price])

----------------------------------------
(* Selling: which lots pay. *)

MutBefore(lots, method, i, j) == i > j   \* the sort lost its key

\* Lot i stands before lot j in the sorted copy.  Python's sort is stable, with
\* reverse=True too: lots of one date keep the order they were bought in.
Before(lots, method, i, j) ==
    CASE method = "FIFO" -> \/ lots[i].date < lots[j].date
                            \/ lots[i].date = lots[j].date /\ i < j
      [] method = "LIFO" -> \/ lots[i].date > lots[j].date
                            \/ lots[i].date = lots[j].date /\ i < j
      [] OTHER           -> i < j

MutTakenFrom(lots, method, n, i) ==      \* the whole lot goes
    LET ahead == {j \in DOMAIN lots : Before(lots, method, j, i)}
        left  == n - SumOver([j \in ahead |-> lots[j].qty])
    IN  IF left <= 0 THEN 0 ELSE lots[i].qty

\* What lot i gives to a sale of n shares: what the lots before it leave over.
TakenFrom(lots, method, n, i) ==
    LET ahead == {j \in DOMAIN lots : Before(lots, method, j, i)}
        left  == n - SumOver([j \in ahead |-> lots[j].qty])
    IN  IF left <= 0 THEN 0 ELSE Least(left, lots[i].qty)

\* Emptied lots are removed, the rest keep their place.  (SelectSeq, as a function the
\* proofs can unfold.)
WithoutEmpty(lots) ==
    LET kept[i \in 0..Len(lots)] ==
            IF i = 0 THEN <<>>
            ELSE IF lots[i].qty > 0 THEN Append(kept[i - 1], lots[i]) ELSE kept[i - 1]
    IN  kept[Len(lots)]

Less(lot, n) == [lot EXCEPT !.qty = @ - n]

\* What every lot has left of its shares after the sale.
ReducedLots(lots, method, n) ==
    [i \in DOMAIN lots |-> Less(lots[i], TakenFrom(lots, method, n, i))]

\* The lots after the sale.
ConsumeLots(lots, method, n) == WithoutEmpty(ReducedLots(lots, method, n))

MutConsumedBasis(lots, method, n) == n * lots[1].price    \* one lot's price for all

ConsumedBasis(lots, method, n) ==
    SumOver([i \in DOMAIN lots |-> TakenFrom(lots, method, n, i) * lots[i].price])

CanClose(b, s, n) == b.pos[s].qty > 0 /\ n <= b.pos[s].qty

\* The position that a sale of n shares leaves; it is deleted when nothing is left.
Reduced(p, n) == IF p.qty - n <= 0 THEN NoPosition ELSE [p EXCEPT !.qty = @ - n]

ClosePosition(b, s, method, n, price, charge, date) ==
    LET net  == n * price - charge
        gain == net - ConsumedBasis(b.lots[s], method, n)
    IN  [cash  |-> b.cash + net,
         pos   |-> [b.pos EXCEPT ![s] = Reduced(@, n)],
         lots  |-> [b.lots EXCEPT ![s] = ConsumeLots(@, method, n)],
         sells |-> Append(b.sells, [sym |-> s, date |-> date, qty |-> n, gain |-> gain]),
         pnl   |-> b.pnl + gain]

----------------------------------------
(* Buying: the new lot and its wash-sale adjustment. *)

\* The sells whose loss the purchase of symbol s on this date picks up.
WashedSells(b, s, date) ==
    {k \in DOMAIN b.sells : /\ b.sells[k].sym = s
                            /\ b.sells[k].gain < 0
                            /\ date - WashWindow <= b.sells[k].date
                            /\ b.sells[k].date <= date}

\* The part of that loss which n replacement shares carry.
CarriedLoss(sell, n) == (Least(n, sell.qty) * (-sell.gain)) \div sell.qty

WashAdjustment(b, s, n, date) ==
    SumOver([k \in WashedSells(b, s, date) |-> CarriedLoss(b.sells[k], n)])

MutAdjustedPrice(b, s, n, price, date) ==      \* the loss lowers the basis
    price - WashAdjustment(b, s, n, date) \div n

AdjustedPrice(b, s, n, price, date) == price + WashAdjustment(b, s, n, date) \div n

MutCanOpen(b, n, price, cost) == b.cash >= n * price   \* the cost is forgotten

CanOpen(b, n, price, cost) == b.cash >= n * price + cost

\* Added shares change the average cost; a fresh position has no mark yet.
Enlarged(p, n, price) ==
    IF p.qty = 0
    THEN [qty |-> n, avg |-> price, price |-> 0]
    ELSE [p EXCEPT !.qty = @ + n, !.avg = (p.qty * p.avg + n * price) \div (p.qty + n)]

MutOpenPosition(b, s, n, price, cost, date) ==      \* the cost is not deducted
    LET basis == AdjustedPrice(b, s, n, price, date)
    IN  [b EXCEPT !.cash = @ - n * price,
                  !.pos[s] = Enlarged(@, n, basis),
                  !.lots[s] = Append(@, [qty |-> n, price |-> basis, date |-> date])]

OpenPosition(b, s, n, price, cost, date) ==
    LET basis == AdjustedPrice(b, s, n, price, date)
    IN  [b EXCEPT !.cash = @ - (n * price + cost),
                  !.pos[s] = Enlarged(@, n, basis),
                  !.lots[s] = Append(@, [qty |-> n, price |-> basis, date |-> date])]

\* update_prices marks the symbols that are held.
UpdatePrices(b, prices) ==
    [b EXCEPT !.pos = [s \in Symbols |->
        IF b.pos[s].qty > 0 THEN [b.pos[s] EXCEPT !.price = prices[s]] ELSE b.pos[s]]]
=============================================================================
