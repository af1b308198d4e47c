-------------------------- MODULE SignalPathProofs --------------------------
(***************************************************************************)
(* What the signal path keeps for every set of tasks, symbols, signals and *)
(* prices and for all limits of the risk engine: the orders, the book, the *)
(* log and the subscribers agree at every interleaving of the calls at     *)
(* their awaits, and what was checked before an await holds after it.      *)
(***************************************************************************)
EXTENDS SignalPath, BookProofs

Statuses == {"REJECTED", "RISK_REJECTED", "FAILED", "SUBMITTED", "PARTIALLY_FILLED", "FILLED"}

OrderRec == [sym : Symbols, side : {"BUY", "SELL"}, qty : Int, status : Statuses,
             filled : Nat, value : Int, fills : Nat]

CallRec == [st : {"idle", "executing", "publishing"}, kind : {"", "signal", "continue"},
            ord : Int, price : Int, cost : Int, tries : Int]

HistoryRec == [booked : [OrderIds -> Nat], announced : [OrderIds -> Nat],
               session : [OrderIds -> Int], halted : BOOLEAN,
               resets : Nat, unlatched : Nat, continues : Nat]

TypeInv ==
    /\ BookType(book) /\ LotsMatch(book)
    /\ orders \in [OrderIds -> OrderRec \cup {NoOrder}]
    /\ calls \in [Calls -> CallRec]
    /\ completed \subseteq OrderIds
    /\ risk \in [breaker : BOOLEAN, count : Nat]
    /\ backend \in [wired : BOOLEAN, connected : BOOLEAN]
    /\ market \in [prices : [Symbols -> Prices], day : Nat]
    /\ history \in HistoryRec

\* A call works on an order that was accepted.
CallInv ==
    \A c \in Calls : calls[c].st # "idle" =>
        calls[c].ord \in OrderIds /\ orders[calls[c].ord] \in OrderRec
          /\ orders[calls[c].ord].qty > 0

\* The book knows of no share that the order does not show, and the log of every booked one.
LogInv ==
    \A o \in OrderIds :
        /\ history.booked[o] <= orders[o].filled
        /\ history.booked[o] > 0 => o \in completed

----------------------------------------
(* The parts of the state. *)

(* The fields of the history. *)
LEMMA HistoryFields ==
    ASSUME NEW h \in HistoryRec
    PROVE  /\ h.booked \in [OrderIds -> Nat] /\ h.announced \in [OrderIds -> Nat]
           /\ h.session \in [OrderIds -> Int] /\ h.halted \in BOOLEAN
           /\ h.resets \in Nat /\ h.unlatched \in Nat /\ h.continues \in Nat
  BY DEF HistoryRec

\* History g is h but for an entry.
Books(h, g, o, n) ==
    /\ g \in HistoryRec
    /\ g.booked = [h.booked EXCEPT ![o] = h.booked[o] + n]
    /\ g.announced = h.announced /\ g.session = h.session /\ g.halted = h.halted
    /\ g.resets = h.resets /\ g.unlatched = h.unlatched /\ g.continues = h.continues

Announces(h, g, o) ==
    /\ g \in HistoryRec
    /\ g.announced = [h.announced EXCEPT ![o] = h.announced[o] + 1]
    /\ g.booked = h.booked /\ g.session = h.session /\ g.halted = h.halted
    /\ g.resets = h.resets /\ g.unlatched = h.unlatched /\ g.continues = h.continues

Approves(h, g, o) ==
    /\ g \in HistoryRec
    /\ g.session = [h.session EXCEPT ![o] = h.resets]
    /\ g.booked = h.booked /\ g.announced = h.announced /\ g.halted = h.halted
    /\ g.resets = h.resets /\ g.unlatched = h.unlatched /\ g.continues = h.continues

(* A fill booked is entered for its order and nothing else. *)
LEMMA HistoryBooks ==
    ASSUME NEW h \in HistoryRec, NEW o \in OrderIds, NEW n \in Nat
    PROVE  Books(h, [h EXCEPT !.booked[o] = @ + n], o, n)
  <1> DEFINE m == h.booked[o] + n
             g == [h EXCEPT !.booked[o] = m]
  <1>1. h.booked \in [OrderIds -> Nat] /\ m \in Nat BY HistoryFields
  <1>2. [h.booked EXCEPT ![o] = m] \in [OrderIds -> Nat] BY <1>1
  <1> HIDE DEF m
  <1>3. g = [h EXCEPT !.booked = [h.booked EXCEPT ![o] = m]] OBVIOUS
  <1> QED BY <1>2, <1>3 DEF Books, HistoryRec, m

(* An announcement is entered for its order and nothing else. *)
LEMMA HistoryAnnounces ==
    ASSUME NEW h \in HistoryRec, NEW o \in OrderIds
    PROVE  Announces(h, [h EXCEPT !.announced[o] = @ + 1], o)
  <1> DEFINE m == h.announced[o] + 1
             g == [h EXCEPT !.announced[o] = m]
  <1>1. h.announced \in [OrderIds -> Nat] /\ m \in Nat BY HistoryFields
  <1>2. [h.announced EXCEPT ![o] = m] \in [OrderIds -> Nat] BY <1>1
  <1> HIDE DEF m
  <1>3. g = [h EXCEPT !.announced = [h.announced EXCEPT ![o] = m]] OBVIOUS
  <1> QED BY <1>2, <1>3 DEF Announces, HistoryRec, m

(* An approval is entered with the day it was given on. *)
LEMMA HistoryApproves ==
    ASSUME NEW h \in HistoryRec, NEW o \in OrderIds
    PROVE  Approves(h, [h EXCEPT !.session[o] = h.resets], o)
  <1> DEFINE m == h.resets
             g == [h EXCEPT !.session[o] = m]
  <1>1. h.session \in [OrderIds -> Int] /\ m \in Int BY HistoryFields
  <1>2. [h.session EXCEPT ![o] = m] \in [OrderIds -> Int] BY <1>1
  <1> HIDE DEF m
  <1>3. g = [h EXCEPT !.session = [h.session EXCEPT ![o] = m]] OBVIOUS
  <1> QED BY <1>2, <1>3 DEF Approves, HistoryRec, m

(* The fields of an order, also of one not made yet. *)
LEMMA OrderFields ==
    ASSUME TypeInv, NEW o \in OrderIds
    PROVE  /\ orders[o] \in OrderRec \/ orders[o] = NoOrder
           /\ orders[o].filled \in Nat /\ orders[o].value \in Int /\ orders[o].fills \in Nat
           /\ orders[o].qty \in Int
           /\ orders[o] = NoOrder => orders[o].filled = 0 /\ orders[o].status = "NONE"
                                       /\ orders[o].value = 0 /\ orders[o].fills = 0
           /\ orders[o] \in OrderRec => /\ orders[o].sym \in Symbols
                                        /\ orders[o].side \in {"BUY", "SELL"}
                                        /\ orders[o].status \in Statuses
                                        /\ orders[o].status # "NONE"
  <1>1. orders[o] \in OrderRec \cup {NoOrder} BY DEF TypeInv
  <1>4. /\ NoOrder.filled = 0 /\ NoOrder.status = "NONE" /\ NoOrder.value = 0
        /\ NoOrder.fills = 0 /\ NoOrder.qty = 0
    BY DEF NoOrder
  <1>5. NoOrder \notin OrderRec BY <1>4 DEF OrderRec, Statuses
  <1>2. CASE orders[o] \in OrderRec
   <2>1. \A r \in OrderRec : /\ r.filled \in Nat /\ r.value \in Int /\ r.fills \in Nat
                             /\ r.qty \in Int /\ r.sym \in Symbols
                             /\ r.side \in {"BUY", "SELL"} /\ r.status \in Statuses
     BY DEF OrderRec
   <2>2. "NONE" \notin Statuses BY DEF Statuses
   <2> QED BY <1>2, <1>5, <2>1, <2>2
  <1>3. CASE orders[o] = NoOrder BY <1>3, <1>4, <1>5
  <1> QED BY <1>1, <1>2, <1>3

(* The fields of a call of process_signal or continue. *)
LEMMA CallFields ==
    ASSUME TypeInv, NEW c \in Calls
    PROVE  /\ calls[c] \in CallRec
           /\ calls[c].st \in {"idle", "executing", "publishing"}
           /\ calls[c].kind \in {"", "signal", "continue"}
           /\ calls[c].ord \in Int /\ calls[c].price \in Int /\ calls[c].cost \in Int
           /\ calls[c].tries \in Int
           /\ Idle \in CallRec /\ Idle.st = "idle"
  <1>1. calls[c] \in CallRec BY DEF TypeInv
  <1>2. Idle \in CallRec /\ Idle.st = "idle" BY DEF Idle, CallRec
  <1> QED BY <1>1, <1>2 DEF CallRec

(* The quantity a signal asks for and its cost are whole amounts. *)
LEMMA QuantityType ==
    ASSUME TypeInv, NEW sig \in Signals
    PROVE  /\ Quantity(sig) \in Int /\ sig.sym \in Symbols /\ sig.side \in {"BUY", "SELL"}
           /\ CostOf(Quantity(sig)) \in Int /\ market.prices[sig.sym] \in Prices
           /\ market.prices[sig.sym] \in Nat
  <1>1. sig \in [sym : Symbols, side : {"BUY", "SELL"}, qty : Int, maxCost : Int]
    BY SignalPathAssumption
  <1>2. market.prices \in [Symbols -> Prices] BY DEF TypeInv
  <1>3. market.prices[sig.sym] \in Prices BY <1>1, <1>2
  <1>4. market.prices[sig.sym] \in Nat /\ market.prices[sig.sym] > 0 BY <1>3, SignalPathAssumption
  <1>5. book.cash \in Int /\ book.cash * Weight \in Int
    BY SignalPathAssumption DEF TypeInv, BookType
  <1>6. 100 * market.prices[sig.sym] \in Nat \ {0} BY <1>4
  <1>7. (book.cash * Weight) \div (100 * market.prices[sig.sym]) \in Int BY <1>5, <1>6
  <1>8. Quantity(sig) \in Int BY <1>1, <1>7 DEF Quantity
  <1>9. CostOf(Quantity(sig)) \in Int BY <1>8, SignalPathAssumption DEF CostOf
  <1> QED BY <1>1, <1>3, <1>4, <1>8, <1>9

\* Order p is o after a fill of n shares at price x.
FilledBy(o, p, n, x) ==
    /\ p \in OrderRec
    /\ p.sym = o.sym /\ p.side = o.side /\ p.qty = o.qty
    /\ p.filled = o.filled + n /\ p.value = o.value + n * x /\ p.fills = o.fills + 1
    /\ p.status = IF o.filled + n < o.qty THEN "PARTIALLY_FILLED" ELSE "FILLED"

(* A fill changes what was filled, its value and its count. *)
LEMMA FillFields ==
    ASSUME NEW o \in OrderRec, NEW n \in Nat, NEW x \in Int
    PROVE  FilledBy(o, Filled(o, n, x), n, x)
  <1> DEFINE s == IF o.filled + n < o.qty THEN "PARTIALLY_FILLED" ELSE "FILLED"
             v == o.value + n * x
  <1>1. /\ o.filled \in Nat /\ o.value \in Int /\ o.fills \in Nat /\ o.qty \in Int
        /\ s \in Statuses
    BY DEF OrderRec, Statuses
  <1>2. v \in Int /\ o.filled + n \in Nat /\ o.fills + 1 \in Nat BY <1>1
  <1>3. Filled(o, n, x) = [o EXCEPT !.filled = o.filled + n, !.value = v,
                                    !.fills = o.fills + 1, !.status = s]
    BY DEF Filled
  <1> HIDE DEF s, v
  <1>4. /\ Filled(o, n, x) \in OrderRec
        /\ Filled(o, n, x).sym = o.sym /\ Filled(o, n, x).side = o.side
        /\ Filled(o, n, x).qty = o.qty
        /\ Filled(o, n, x).filled = o.filled + n /\ Filled(o, n, x).value = v
        /\ Filled(o, n, x).fills = o.fills + 1 /\ Filled(o, n, x).status = s
    BY <1>1, <1>2, <1>3 DEF OrderRec
  <1> QED BY <1>4 DEF FilledBy, s, v

(* A fill is of at least one share and at most what was ordered. *)
LEMMA FillAmounts ==
    ASSUME TypeInv, CallInv, NEW c \in Calls, Working(c),
           NEW n \in FillQuantities(orders[calls[c].ord].qty), NEW p \in FillPrices(c)
    PROVE  n \in Shares /\ n \in Nat /\ p \in Int /\ n <= orders[calls[c].ord].qty
  <1> DEFINE q == orders[calls[c].ord].qty
  <1>1. q \in Nat \ {0} BY OrderFields DEF CallInv, Working
  <1>2. n \in Nat /\ n >= 1 /\ n <= q
   <2>1. CASE q <= PartialAbove BY <1>1, <2>1 DEF FillQuantities
   <2>2. CASE ~(q <= PartialAbove) /\ q * MinRatio < 100 BY <1>1, <2>2 DEF FillQuantities
   <2>3. CASE ~(q <= PartialAbove) /\ ~(q * MinRatio < 100)
    <3>1. q * MinRatio \in Nat /\ q * MinRatio >= 100 BY <1>1, <2>3, SignalPathAssumption
    <3>2. (q * MinRatio) \div 100 \in Nat /\ (q * MinRatio) \div 100 >= 1
     <4> DEFINE r == q * MinRatio
     <4>1. r \in Nat /\ r >= 100 BY <3>1
     <4> HIDE DEF r
     <4>2. r \div 100 \in Nat /\ r \div 100 >= 1 BY <4>1
     <4> QED BY <4>2 DEF r
    <3>3. n \in ((q * MinRatio) \div 100) .. q BY <2>3 DEF FillQuantities
    <3> QED BY <1>1, <3>2, <3>3
   <2> QED BY <2>1, <2>2, <2>3
  <1>3. p \in Int
   <2>1. calls[c].price \in Int BY CallFields
   <2>2. \A x \in Prices \cup {calls[c].price} : x + Slip \in Int /\ x - Slip \in Int
     BY <2>1, SignalPathAssumption
   <2> QED BY <2>2 DEF FillPrices
  <1> QED BY <1>2, <1>3 DEF Shares

----------------------------------------
(* The invariant. *)

\* What the fills of every order did to a symbol's position.
Signed(s) ==
    [o \in OrderIds |-> IF orders[o].sym # s THEN 0
                        ELSE IF orders[o].side = "BUY" THEN history.booked[o]
                        ELSE -history.booked[o]]

SharesInv == \A s \in Symbols : book.pos[s].qty = SumOn(Signed(s), OrderIds)

Pending(o) == {c \in Calls : calls[c].st = "publishing" /\ calls[c].ord = o}

AnnounceInv ==
    \A o \in OrderIds :
        /\ history.announced[o] + Cardinality(Pending(o)) <= orders[o].fills
        /\ history.booked[o] = orders[o].filled =>
             history.announced[o] + Cardinality(Pending(o)) = orders[o].fills

ApprovedToday == {o \in OrderIds : history.session[o] = history.resets}

\* The counter tells the orders approved since the last reset.
CountInv == Cardinality(ApprovedToday) = risk.count /\ risk.count <= MaxDailyTrades

SessionInv ==
    \A o \in OrderIds : /\ history.session[o] <= history.resets
                        /\ orders[o] = NoOrder => history.session[o] = -1

DayInv == CountInv /\ SessionInv

HaltInv == history.halted => risk.breaker

SignalInv ==
    /\ TypeInv /\ CallInv /\ LogInv /\ SharesInv /\ FilledIffReached /\ AnnounceInv
    /\ DayInv /\ HaltInv

(* There are finitely many orders. *)
LEMMA OrderIdsFinite == IsFiniteSet(OrderIds) /\ \A T \in SUBSET OrderIds : IsFiniteSet(T)
  <1>1. IsFiniteSet(OrderIds) BY FS_Interval, SignalPathAssumption DEF OrderIds
  <1> QED BY <1>1, FS_Subset

(* Finitely many calls are about an order. *)
LEMMA PendingFinite ==
    \A o : IsFiniteSet(Pending(o)) /\ Cardinality(Pending(o)) \in Nat
  <1>1. \A o : Pending(o) \subseteq Calls BY DEF Pending
  <1> QED BY <1>1, FS_Subset, FS_CardinalityType, SignalPathAssumption

(* Shares with the sign of their side are whole numbers. *)
LEMMA SignedType ==
    ASSUME TypeInv, NEW s
    PROVE  \A o \in OrderIds : Signed(s)[o] \in Int
  <1>1. \A o \in OrderIds : history.booked[o] \in Nat BY HistoryFields DEF TypeInv
  <1> QED BY <1>1 DEF Signed

----------------------------------------
(* What leaves a part of the invariant alone. *)

(* The positions still match the fills when a step books nothing. *)
LEMMA SharesStay ==
    ASSUME TypeInv, TypeInv', SharesInv,
           \A s \in Symbols : book'.pos[s].qty = book.pos[s].qty,
           \A o \in OrderIds :
              /\ history'.booked[o] = history.booked[o]
              /\ history.booked[o] # 0 =>
                   orders'[o].sym = orders[o].sym /\ orders'[o].side = orders[o].side
    PROVE  SharesInv'
  <1> SUFFICES ASSUME NEW s \in Symbols
               PROVE  book'.pos[s].qty = SumOn(Signed(s)', OrderIds)
    BY DEF SharesInv
  <1>1. \A o \in OrderIds : Signed(s)'[o] = Signed(s)[o]
   <2> SUFFICES ASSUME NEW o \in OrderIds PROVE Signed(s)'[o] = Signed(s)[o]
     OBVIOUS
   <2>1. history.booked[o] \in Nat BY HistoryFields DEF TypeInv
   <2> QED BY <2>1 DEF Signed
  <1>2. SumOn(Signed(s)', OrderIds) = SumOn(Signed(s), OrderIds) BY <1>1, OrderIdsFinite, SumSame
  <1> QED BY <1>2 DEF SharesInv

(* The log still tells the fills when a step books nothing. *)
LEMMA LogStays ==
    ASSUME TypeInv, TypeInv', LogInv, completed \subseteq completed',
           \A o \in OrderIds : /\ history'.booked[o] = history.booked[o]
                               /\ orders'[o].filled >= orders[o].filled
    PROVE  LogInv'
  <1>1. \A o \in OrderIds : history.booked[o] \in Nat BY HistoryFields DEF TypeInv
  <1>2. \A o \in OrderIds : orders[o].filled \in Nat BY OrderFields
  <1>3. \A o \in OrderIds : orders'[o].filled \in Nat
   <2>1. (\A r \in OrderRec : r.filled \in Nat) /\ NoOrder.filled = 0 BY DEF OrderRec, NoOrder
   <2> QED BY <2>1 DEF TypeInv
  <1> QED BY <1>1, <1>2, <1>3 DEF LogInv

(* FILLED still means reached when a step touches no fill. *)
LEMMA ReachedStays ==
    ASSUME FilledIffReached,
           \A o \in OrderIds :
              \/ orders'[o].status \notin {"PARTIALLY_FILLED", "FILLED"}
              \/ /\ orders'[o].status = orders[o].status
                 /\ orders'[o].filled = orders[o].filled /\ orders'[o].qty = orders[o].qty
    PROVE  FilledIffReached'
  <1> SUFFICES ASSUME NEW o \in OrderIds
               PROVE  /\ orders'[o].status = "FILLED" => orders'[o].filled >= orders'[o].qty
                      /\ orders'[o].status = "PARTIALLY_FILLED" =>
                           orders'[o].filled \in 1..orders'[o].qty - 1
    BY DEF FilledIffReached
  <1>1. CASE orders'[o].status \notin {"PARTIALLY_FILLED", "FILLED"} BY <1>1
  <1>2. CASE /\ orders'[o].status = orders[o].status
             /\ orders'[o].filled = orders[o].filled /\ orders'[o].qty = orders[o].qty
    BY <1>2 DEF FilledIffReached
  <1> QED BY <1>1, <1>2

(* Fills are still announced or in a call when a step touches neither. *)
LEMMA AnnounceStays ==
    ASSUME AnnounceInv,
           \A o \in OrderIds :
              /\ Pending(o)' = Pending(o)
              /\ history'.booked[o] = history.booked[o]
              /\ history'.announced[o] = history.announced[o]
              /\ orders'[o].filled = orders[o].filled /\ orders'[o].fills = orders[o].fills
    PROVE  AnnounceInv'
  BY DEF AnnounceInv

(* Approvals are still counted when a step neither approves nor resets. *)
LEMMA DayStays ==
    ASSUME DayInv, history'.session = history.session, history'.resets = history.resets,
           risk'.count = risk.count,
           \A o \in OrderIds : orders'[o] = NoOrder => orders[o] = NoOrder
    PROVE  DayInv'
  <1>1. ApprovedToday' = ApprovedToday BY DEF ApprovedToday
  <1> QED BY <1>1 DEF DayInv, CountInv, SessionInv

----------------------------------------
(* process_signal before its await. *)

\* A new order entered the books as r, with nothing filled.
Placed(o, r) ==
    /\ orders[o] = NoOrder
    /\ r \in OrderRec /\ r.filled = 0 /\ r.value = 0 /\ r.fills = 0
    /\ r.status \notin {"PARTIALLY_FILLED", "FILLED"}
    /\ orders' = [orders EXCEPT ![o] = r]

(* A recorded order is as its signal asked and replaces none. *)
LEMMA RecordPlaces ==
    ASSUME TypeInv, NEW c \in Calls, NEW o \in OrderIds, NEW sig \in Signals, NewOrder(c, o),
           NEW status \in Statuses \ {"PARTIALLY_FILLED", "FILLED"}, Record(o, sig, status)
    PROVE  /\ Placed(o, Made(sig, status))
           /\ Made(sig, status).qty = Quantity(sig)
           /\ Made(sig, status).sym = sig.sym /\ Made(sig, status).side = sig.side
  <1> DEFINE r == Made(sig, status)
             q == Quantity(sig)
  <1>1. q \in Int /\ sig.sym \in Symbols /\ sig.side \in {"BUY", "SELL"} /\ status \in Statuses
    BY QuantityType
  <1> HIDE DEF q
  <1>2. r = [sym |-> sig.sym, side |-> sig.side, qty |-> q, status |-> status,
             filled |-> 0, value |-> 0, fills |-> 0]
    BY DEF Made, q
  <1>3. r \in OrderRec BY <1>1, <1>2 DEF OrderRec
  <1>4. orders[o] = NoOrder BY OrderFields DEF NewOrder
  <1>5. orders' = [orders EXCEPT ![o] = r] BY DEF Record
  <1> HIDE DEF r
  <1>6. r.status = status /\ r.filled = 0 /\ r.value = 0 /\ r.fills = 0 /\ r.qty = q
        /\ r.sym = sig.sym /\ r.side = sig.side
    BY <1>2
  <1> QED BY <1>3, <1>4, <1>5, <1>6 DEF Placed, r, q

(* A placed order changes nothing that is known of fills. *)
LEMMA PlacingKeeps ==
    ASSUME SignalInv, NEW o \in OrderIds, NEW r, Placed(o, r), history' \in HistoryRec,
           calls' \in [Calls -> CallRec], risk' \in [breaker : BOOLEAN, count : Nat],
           UNCHANGED <<completed, book, backend, market>>,
           history'.booked = history.booked, history'.announced = history.announced,
           \A c \in Calls : \/ calls'[c] = calls[c]
                            \/ /\ calls[c].st = "idle" /\ calls'[c].st = "executing"
                               /\ calls'[c].ord = o /\ r.qty > 0
    PROVE  /\ TypeInv' /\ CallInv' /\ LogInv' /\ SharesInv' /\ FilledIffReached'
           /\ AnnounceInv'
           /\ \A p \in OrderIds : p # o => orders'[p] = orders[p]
           /\ orders'[o] = r /\ r # NoOrder
  <1> USE DEF SignalInv
  <1>1. orders \in [OrderIds -> OrderRec \cup {NoOrder}] BY DEF TypeInv
  <1>2. /\ orders'[o] = r
        /\ \A p \in OrderIds : p # o => orders'[p] = orders[p]
    BY <1>1 DEF Placed
  <1>3. TypeInv'
   <2>1. orders' \in [OrderIds -> OrderRec \cup {NoOrder}] BY <1>1 DEF Placed
   <2> QED BY <2>1 DEF TypeInv
  <1>4. CallInv'
   <2> SUFFICES ASSUME NEW c \in Calls, calls'[c].st # "idle"
                PROVE  calls'[c].ord \in OrderIds /\ orders'[calls'[c].ord] \in OrderRec
                         /\ orders'[calls'[c].ord].qty > 0
     BY DEF CallInv
   <2>1. CASE calls'[c] = calls[c]
    <3>1. orders[o] \notin OrderRec
     <4>1. NoOrder.status = "NONE" BY DEF NoOrder
     <4> QED BY <4>1 DEF Placed, OrderRec, Statuses
    <3> QED BY <1>2, <2>1, <3>1 DEF CallInv
   <2>2. CASE calls'[c].st = "executing" /\ calls'[c].ord = o /\ r.qty > 0 BY <1>2, <2>2 DEF Placed
   <2> QED BY <2>1, <2>2
  <1>5. /\ orders[o].filled = 0 /\ orders[o].fills = 0 /\ history.booked[o] = 0
        /\ history.announced[o] \in Nat
   <2>1. orders[o].filled = 0 /\ orders[o].fills = 0 BY OrderFields DEF Placed
   <2>2. history.booked[o] \in Nat /\ history.announced[o] \in Nat BY HistoryFields DEF TypeInv
   <2> QED BY <2>1, <2>2 DEF LogInv
  <1>6. LogInv'
   <2>1. \A p \in OrderIds : orders'[p].filled >= orders[p].filled
     BY <1>2, <1>5, OrderFields DEF Placed
   <2> QED BY <1>3, <2>1, LogStays
  <1>7. SharesInv' BY <1>2, <1>3, <1>5, SharesStay
  <1>8. FilledIffReached' BY <1>2, ReachedStays DEF Placed
  <1>9. AnnounceInv'
   <2>1. \A p \in OrderIds : orders'[p].filled = orders[p].filled /\ orders'[p].fills = orders[p].fills
     BY <1>2, <1>5 DEF Placed
   <2>2. \A p \in OrderIds : Pending(p)' = Pending(p) BY DEF Pending
   <2> QED BY <2>1, <2>2, AnnounceStays
  <1>10. r # NoOrder
   <2>1. NoOrder.status = "NONE" BY DEF NoOrder
   <2> QED BY <2>1 DEF Placed, OrderRec, Statuses
  <1> QED BY <1>2, <1>3, <1>4, <1>6, <1>7, <1>8, <1>9, <1>10

(* An order refused by a check keeps the invariant. *)
LEMMA RefusalKeeps ==
    ASSUME SignalInv, NEW c \in Calls, NEW o \in OrderIds, NEW sig \in Signals,
           \/ RejectInvalid(c, o, sig) \/ RejectCost(c, o, sig)
           \/ RejectLimits(c, o, sig) \/ TripBreaker(c, o, sig)
    PROVE  SignalInv'
  <1> USE DEF SignalInv
  <1>1. PICK status \in Statuses \ {"PARTIALLY_FILLED", "FILLED"} :
           NewOrder(c, o) /\ Record(o, sig, status)
    BY DEF RejectInvalid, RejectCost, RejectLimits, TripBreaker, Costed, RiskPassed, Statuses
  <1> DEFINE r == Made(sig, status)
  <1>2. Placed(o, r) BY <1>1, RecordPlaces
  <1>3. /\ UNCHANGED <<calls, completed, book, backend, market>>
        /\ \/ UNCHANGED <<risk, history>>
           \/ risk' = [risk EXCEPT !.breaker = TRUE] /\ history' = [history EXCEPT !.halted = TRUE]
    BY DEF RejectInvalid, RejectCost, RejectLimits, TripBreaker
  <1>4. /\ history' \in HistoryRec /\ risk' \in [breaker : BOOLEAN, count : Nat]
        /\ history'.booked = history.booked /\ history'.announced = history.announced
        /\ history'.session = history.session /\ history'.resets = history.resets
        /\ risk'.count = risk.count
        /\ (risk' = risk /\ history' = history) \/ risk'.breaker
   <2>1. history \in HistoryRec /\ risk \in [breaker : BOOLEAN, count : Nat] BY DEF TypeInv
   <2>2. CASE UNCHANGED <<risk, history>> BY <2>1, <2>2
   <2>3. CASE risk' = [risk EXCEPT !.breaker = TRUE] /\ history' = [history EXCEPT !.halted = TRUE]
     BY <2>1, <2>3 DEF HistoryRec
   <2> QED BY <1>3, <2>2, <2>3
  <1> HIDE DEF r
  <1>5. calls' \in [Calls -> CallRec] /\ \A d \in Calls : calls'[d] = calls[d] BY <1>3 DEF TypeInv
  <1>6. /\ TypeInv' /\ CallInv' /\ LogInv' /\ SharesInv' /\ FilledIffReached' /\ AnnounceInv'
        /\ \A p \in OrderIds : p # o => orders'[p] = orders[p]
        /\ orders'[o] = r /\ r # NoOrder
    BY <1>2, <1>3, <1>4, <1>5, PlacingKeeps
  <1>7. DayInv' BY <1>4, <1>6, DayStays
  <1>8. HaltInv' BY <1>4 DEF HaltInv
  <1> QED BY <1>6, <1>7, <1>8

(* Approval counts the order before it is executed. *)
LEMMA ApprovalKeeps ==
    ASSUME SignalInv, NEW c \in Calls, NEW o \in OrderIds, NEW sig \in Signals,
           FailNoBackend(c, o, sig) \/ Submit(c, o, sig)
    PROVE  SignalInv'
  <1> USE DEF SignalInv
  <1>1. PICK status \in Statuses \ {"PARTIALLY_FILLED", "FILLED"} :
           NewOrder(c, o) /\ Record(o, sig, status)
    BY DEF FailNoBackend, Submit, Costed, RiskPassed, Statuses
  <1> DEFINE r == Made(sig, status)
  <1>2. Placed(o, r) /\ r.qty = Quantity(sig) /\ Quantity(sig) \in Int
    BY <1>1, RecordPlaces, QuantityType
  <1>3. /\ UNCHANGED <<completed, book, backend, market>>
        /\ risk' = [risk EXCEPT !.count = @ + 1]
        /\ history' = [history EXCEPT !.session[o] = history.resets]
        /\ ~ (risk.count >= MaxDailyTrades) /\ ~risk.breaker
        /\ Quantity(sig) > 0 /\ calls[c].st = "idle"
    BY DEF FailNoBackend, Submit, Approve, RiskPassed, Costed, LimitBreached, ValidOrder, NewOrder
  <1>4. history \in HistoryRec /\ risk \in [breaker : BOOLEAN, count : Nat] BY DEF TypeInv
  <1>5. Approves(history, history', o) BY <1>3, <1>4, HistoryApproves
  <1>6. risk' \in [breaker : BOOLEAN, count : Nat] /\ risk'.count = risk.count + 1
        /\ risk.count \in Nat
    BY <1>3, <1>4
  <1>7. /\ calls' \in [Calls -> CallRec]
        /\ \A d \in Calls : \/ calls'[d] = calls[d]
                            \/ /\ calls[d].st = "idle" /\ calls'[d].st = "executing"
                               /\ calls'[d].ord = o /\ r.qty > 0
   <2>1. calls \in [Calls -> CallRec] BY DEF TypeInv
   <2>2. CASE FailNoBackend(c, o, sig) BY <2>1, <2>2 DEF FailNoBackend
   <2>3. CASE Submit(c, o, sig)
    <3> DEFINE call == [st |-> "executing", kind |-> "signal", ord |-> o,
                        price |-> market.prices[sig.sym], cost |-> CostOf(Quantity(sig)),
                        tries |-> 1]
    <3>1. calls' = [calls EXCEPT ![c] = call] BY <2>3 DEF Submit
    <3>2. o \in Int BY SignalPathAssumption DEF OrderIds
    <3>3. call \in CallRec BY <3>2, QuantityType DEF CallRec
    <3>4. call.st = "executing" /\ call.ord = o OBVIOUS
    <3> HIDE DEF call, r
    <3> QED BY <1>2, <1>3, <2>1, <3>1, <3>3, <3>4
   <2> QED BY <2>2, <2>3
  <1> HIDE DEF r
  <1>8. /\ TypeInv' /\ CallInv' /\ LogInv' /\ SharesInv' /\ FilledIffReached' /\ AnnounceInv'
        /\ \A p \in OrderIds : p # o => orders'[p] = orders[p]
        /\ orders'[o] = r /\ r # NoOrder
    BY <1>2, <1>3, <1>5, <1>6, <1>7, PlacingKeeps DEF Approves
  <1>9. DayInv'
   <2>1. /\ history.session \in [OrderIds -> Int] /\ history.resets \in Nat
         /\ history'.session = [history.session EXCEPT ![o] = history.resets]
         /\ history'.resets = history.resets
     BY <1>4, <1>5, HistoryFields DEF Approves
   <2>2. history.session[o] = -1 BY <1>2 DEF DayInv, SessionInv, Placed
   <2>3. o \notin ApprovedToday /\ ApprovedToday' = ApprovedToday \cup {o}
     BY <2>1, <2>2 DEF ApprovedToday
   <2>4. ApprovedToday \in SUBSET OrderIds BY DEF ApprovedToday
   <2>5. Cardinality(ApprovedToday') = Cardinality(ApprovedToday) + 1
     BY <2>3, <2>4, OrderIdsFinite, FS_AddElement
   <2>6. risk'.count <= MaxDailyTrades BY <1>3, <1>6, SignalPathAssumption
   <2>7. \A p \in OrderIds : /\ history'.session[p] <= history'.resets
                             /\ orders'[p] = NoOrder => history'.session[p] = -1
     BY <1>8, <2>1 DEF DayInv, SessionInv
   <2> QED
    <3>1. Cardinality(ApprovedToday) = risk.count BY DEF DayInv, CountInv
    <3>2. CountInv' BY <1>6, <2>5, <2>6, <3>1 DEF CountInv
    <3>3. SessionInv' BY <2>7 DEF SessionInv
    <3> QED BY <3>2, <3>3 DEF DayInv
  <1>10. HaltInv' BY <1>3, <1>5 DEF HaltInv, Approves
  <1> QED BY <1>8, <1>9, <1>10

----------------------------------------
(* The backend answers. *)

(* Calls still have their orders when a step starts none. *)
LEMMA CallsStay ==
    ASSUME CallInv,
           \A d \in Calls : \/ calls'[d].st = "idle"
                            \/ calls[d].st # "idle" /\ calls'[d].ord = calls[d].ord,
           \A o \in OrderIds : orders[o] \in OrderRec =>
               orders'[o] \in OrderRec /\ orders'[o].qty = orders[o].qty
    PROVE  CallInv'
  BY DEF CallInv

(* An order that a call works on, changed to r. *)
LEMMA OrderChanges ==
    ASSUME TypeInv, NEW o \in OrderIds, orders[o] \in OrderRec, NEW r \in OrderRec,
           r.qty = orders[o].qty, orders' = [orders EXCEPT ![o] = r]
    PROVE  /\ orders' \in [OrderIds -> OrderRec \cup {NoOrder}]
           /\ orders'[o] = r
           /\ \A p \in OrderIds : p # o => orders'[p] = orders[p]
           /\ \A p \in OrderIds : orders[p] \in OrderRec =>
                 orders'[p] \in OrderRec /\ orders'[p].qty = orders[p].qty
           /\ \A p \in OrderIds : orders'[p] = NoOrder => orders[p] = NoOrder
  <1>1. orders \in [OrderIds -> OrderRec \cup {NoOrder}] BY DEF TypeInv
  <1>2. /\ orders'[o] = r
        /\ \A p \in OrderIds : p # o => orders'[p] = orders[p]
    BY <1>1
  <1>3. r # NoOrder
   <2>1. NoOrder.status = "NONE" BY DEF NoOrder
   <2> QED BY <2>1 DEF OrderRec, Statuses
  <1> QED BY <1>1, <1>2, <1>3

\* Call c leaves its await in the state r.
Resumes(c, r) ==
    /\ r \in CallRec
    /\ calls' = [calls EXCEPT ![c] = r]

(* A step of one call leaves the others where they were. *)
LEMMA CallChanges ==
    ASSUME TypeInv, NEW c \in Calls, NEW r, Resumes(c, r)
    PROVE  /\ calls' \in [Calls -> CallRec] /\ calls'[c] = r
           /\ \A d \in Calls : d # c => calls'[d] = calls[d]
  <1>1. calls \in [Calls -> CallRec] BY DEF TypeInv
  <1> QED BY <1>1 DEF Resumes

(* A broker that fails keeps the invariant. *)
LEMMA FailureKeeps ==
    ASSUME SignalInv, NEW c \in Calls, FillFails(c)
    PROVE  SignalInv'
  <1> USE DEF SignalInv
  <1> DEFINE o == calls[c].ord
             r == [orders[o] EXCEPT !.status = "FAILED"]
  <1>1. /\ o \in OrderIds /\ orders[o] \in OrderRec /\ calls[c].st = "executing"
    BY DEF FillFails, Working, CallInv
  <1>2. /\ orders' = [orders EXCEPT ![o] = r]
        /\ completed' = completed \cup {o} /\ calls' = [calls EXCEPT ![c] = Idle]
        /\ UNCHANGED <<book, risk, backend, market, history>>
    BY DEF FillFails
  <1> HIDE DEF o
  <1>3. /\ r \in OrderRec /\ r.status = "FAILED" /\ r.qty = orders[o].qty
        /\ r.filled = orders[o].filled /\ r.fills = orders[o].fills
        /\ r.sym = orders[o].sym /\ r.side = orders[o].side
    BY <1>1 DEF OrderRec, Statuses
  <1> HIDE DEF r
  <1>4. /\ orders' \in [OrderIds -> OrderRec \cup {NoOrder}]
        /\ orders'[o] = r
        /\ \A p \in OrderIds : p # o => orders'[p] = orders[p]
        /\ \A p \in OrderIds : orders[p] \in OrderRec =>
              orders'[p] \in OrderRec /\ orders'[p].qty = orders[p].qty
        /\ \A p \in OrderIds : orders'[p] = NoOrder => orders[p] = NoOrder
    BY <1>1, <1>2, <1>3, OrderChanges
  <1>5. /\ calls' \in [Calls -> CallRec] /\ calls'[c] = Idle /\ Idle.st = "idle"
        /\ \A d \in Calls : d # c => calls'[d] = calls[d]
    BY <1>2, CallChanges, CallFields DEF Resumes
  <1>6. TypeInv' BY <1>1, <1>2, <1>4, <1>5 DEF TypeInv
  <1>7. CallInv' BY <1>4, <1>5, CallsStay
  <1>8. \A p \in OrderIds : /\ orders'[p].filled = orders[p].filled
                            /\ orders'[p].fills = orders[p].fills
                            /\ orders'[p].sym = orders[p].sym /\ orders'[p].side = orders[p].side
                            /\ orders[p].filled \in Nat
    BY <1>3, <1>4, OrderFields
  <1>9. LogInv' BY <1>2, <1>6, <1>8, LogStays
  <1>10. SharesInv' BY <1>2, <1>6, <1>8, SharesStay
  <1>11. FilledIffReached' BY <1>3, <1>4, ReachedStays
  <1>12. AnnounceInv'
   <2>1. \A p \in OrderIds : Pending(p)' = Pending(p) BY <1>1, <1>5 DEF Pending
   <2> QED BY <1>2, <1>8, <2>1, AnnounceStays
  <1>13. DayInv' /\ HaltInv' BY <1>2, <1>4, DayStays DEF HaltInv
  <1> QED BY <1>6, <1>7, <1>9, <1>10, <1>11, <1>12, <1>13

(* The order takes the fill: what FillBooks and FillRaises have in common. *)
LEMMA FillSteps ==
    ASSUME SignalInv, NEW c \in Calls, Working(c),
           NEW n \in FillQuantities(orders[calls[c].ord].qty), NEW p \in FillPrices(c),
           orders' = [orders EXCEPT ![calls[c].ord] = Filled(@, n, p)]
    PROVE  LET o == calls[c].ord IN
           /\ o \in OrderIds /\ orders[o] \in OrderRec /\ calls[c].st = "executing"
           /\ n \in Shares /\ n \in Nat /\ n > 0 /\ p \in Int
           /\ orders' \in [OrderIds -> OrderRec \cup {NoOrder}]
           /\ FilledBy(orders[o], orders'[o], n, p)
           /\ \A q \in OrderIds : q # o => orders'[q] = orders[q]
           /\ \A q \in OrderIds : orders[q] \in OrderRec =>
                 orders'[q] \in OrderRec /\ orders'[q].qty = orders[q].qty
           /\ \A q \in OrderIds : orders'[q] = NoOrder => orders[q] = NoOrder
           /\ \A q \in OrderIds : /\ orders'[q].sym = orders[q].sym
                                  /\ orders'[q].side = orders[q].side
                                  /\ orders'[q].filled >= orders[q].filled
           /\ FilledIffReached'
  <1> USE DEF SignalInv
  <1> DEFINE o == calls[c].ord
             r == Filled(orders[o], n, p)
  <1>1. /\ o \in OrderIds /\ orders[o] \in OrderRec /\ calls[c].st = "executing"
        /\ n \in Shares /\ n \in Nat /\ n > 0 /\ p \in Int
   <2>1. n \in Shares /\ n \in Nat /\ p \in Int BY FillAmounts
   <2>2. n > 0 BY <2>1 DEF Shares
   <2> QED BY <2>1, <2>2 DEF Working, CallInv
  <1>2. orders' = [orders EXCEPT ![o] = r] OBVIOUS
  <1> HIDE DEF o
  <1>3. FilledBy(orders[o], r, n, p) BY <1>1, FillFields
  <1> HIDE DEF r
  <1>4. /\ orders' \in [OrderIds -> OrderRec \cup {NoOrder}]
        /\ orders'[o] = r
        /\ \A q \in OrderIds : q # o => orders'[q] = orders[q]
        /\ \A q \in OrderIds : orders[q] \in OrderRec =>
              orders'[q] \in OrderRec /\ orders'[q].qty = orders[q].qty
        /\ \A q \in OrderIds : orders'[q] = NoOrder => orders[q] = NoOrder
    BY <1>1, <1>2, <1>3, OrderChanges DEF FilledBy
  <1>5. \A q \in OrderIds : orders[q].filled \in Nat /\ orders[q].qty \in Int BY OrderFields
  <1>6. \A q \in OrderIds : /\ orders'[q].sym = orders[q].sym
                            /\ orders'[q].side = orders[q].side
                            /\ orders'[q].filled >= orders[q].filled
    BY <1>1, <1>3, <1>4, <1>5 DEF FilledBy
  <1>7. FilledIffReached'
   <2>1. /\ r.status = "FILLED" => r.filled >= r.qty
         /\ r.status = "PARTIALLY_FILLED" => r.filled \in 1..(r.qty - 1)
     BY <1>1, <1>3, <1>5 DEF FilledBy
   <2>2. ASSUME NEW q \in OrderIds
         PROVE  /\ orders'[q].status = "FILLED" => orders'[q].filled >= orders'[q].qty
                /\ orders'[q].status = "PARTIALLY_FILLED" =>
                     orders'[q].filled \in 1..orders'[q].qty - 1
     BY <1>4, <2>1 DEF FilledIffReached
   <2> QED BY <2>2 DEF FilledIffReached
  <1> QED BY <1>1, <1>3, <1>4, <1>6, <1>7 DEF o

(* A fill whose booking raises keeps the invariant. *)
LEMMA RaiseKeeps ==
    ASSUME SignalInv, NEW c \in Calls, NEW n, NEW p, FillRaises(c, n, p)
    PROVE  SignalInv'
  <1> USE DEF SignalInv
  <1> DEFINE o == calls[c].ord
  <1>1. /\ o \in OrderIds /\ orders[o] \in OrderRec /\ calls[c].st = "executing"
        /\ n \in Nat /\ n > 0 /\ p \in Int
        /\ orders' \in [OrderIds -> OrderRec \cup {NoOrder}]
        /\ FilledBy(orders[o], orders'[o], n, p)
        /\ \A q \in OrderIds : q # o => orders'[q] = orders[q]
        /\ \A q \in OrderIds : orders[q] \in OrderRec =>
              orders'[q] \in OrderRec /\ orders'[q].qty = orders[q].qty
        /\ \A q \in OrderIds : orders'[q] = NoOrder => orders[q] = NoOrder
        /\ \A q \in OrderIds : /\ orders'[q].sym = orders[q].sym
                               /\ orders'[q].side = orders[q].side
                               /\ orders'[q].filled >= orders[q].filled
        /\ FilledIffReached'
    BY FillSteps DEF FillRaises
  <1>2. /\ calls' = [calls EXCEPT ![c] = Idle]
        /\ UNCHANGED <<completed, book, risk, backend, market, history>>
    BY DEF FillRaises
  <1> HIDE DEF o
  <1>3. /\ calls' \in [Calls -> CallRec] /\ calls'[c] = Idle /\ Idle.st = "idle"
        /\ \A d \in Calls : d # c => calls'[d] = calls[d]
    BY <1>2, CallChanges, CallFields DEF Resumes
  <1>4. TypeInv' BY <1>1, <1>2, <1>3 DEF TypeInv
  <1>5. CallInv' BY <1>1, <1>3, CallsStay
  <1>6. LogInv' /\ SharesInv' BY <1>1, <1>2, <1>4, LogStays, SharesStay
  <1>7. AnnounceInv'
   <2>1. \A q \in OrderIds : Pending(q)' = Pending(q) BY <1>1, <1>3 DEF Pending
   <2>2. /\ history.booked[o] \in Nat /\ history.announced[o] \in Nat
         /\ orders[o].filled \in Nat /\ orders[o].fills \in Nat
         /\ Cardinality(Pending(o)) \in Nat
     BY <1>1, HistoryFields, OrderFields, PendingFinite DEF TypeInv
   <2>3. /\ history.booked[o] <= orders[o].filled
         /\ history.announced[o] + Cardinality(Pending(o)) <= orders[o].fills
     BY <1>1 DEF LogInv, AnnounceInv
   <2>4. /\ history.announced[o] + Cardinality(Pending(o)) <= orders'[o].fills
         /\ history.booked[o] # orders'[o].filled
     BY <1>1, <2>2, <2>3 DEF FilledBy
   <2>5. ASSUME NEW q \in OrderIds
         PROVE  /\ history'.announced[q] + Cardinality(Pending(q)') <= orders'[q].fills
                /\ history'.booked[q] = orders'[q].filled =>
                     history'.announced[q] + Cardinality(Pending(q)') = orders'[q].fills
     BY <1>1, <1>2, <2>1, <2>4 DEF AnnounceInv
   <2> QED BY <2>5 DEF AnnounceInv
  <1>8. DayInv' /\ HaltInv' BY <1>1, <1>2, DayStays DEF HaltInv
  <1> QED BY <1>1, <1>4, <1>5, <1>6, <1>7, <1>8

(* _reconcile_fill: the fill reaches the order, the book and the log in one step. *)
LEMMA BookingKeeps ==
    ASSUME SignalInv, NEW c \in Calls, NEW n, NEW p, FillBooks(c, n, p)
    PROVE  SignalInv'
  <1> USE DEF SignalInv
  <1> DEFINE o == calls[c].ord
             s == orders[o].sym
             cost == calls[c].cost
  <1>1. /\ o \in OrderIds /\ orders[o] \in OrderRec /\ calls[c].st = "executing"
        /\ n \in Shares /\ n \in Nat /\ n > 0 /\ p \in Int
        /\ orders' \in [OrderIds -> OrderRec \cup {NoOrder}]
        /\ FilledBy(orders[o], orders'[o], n, p)
        /\ \A q \in OrderIds : q # o => orders'[q] = orders[q]
        /\ \A q \in OrderIds : orders[q] \in OrderRec =>
              orders'[q] \in OrderRec /\ orders'[q].qty = orders[q].qty
        /\ \A q \in OrderIds : orders'[q] = NoOrder => orders[q] = NoOrder
        /\ \A q \in OrderIds : /\ orders'[q].sym = orders[q].sym
                               /\ orders'[q].side = orders[q].side
                               /\ orders'[q].filled >= orders[q].filled
        /\ FilledIffReached'
    BY FillSteps DEF FillBooks
  <1>2. /\ calls' = [calls EXCEPT ![c].st = "publishing"]
        /\ PortfolioTakes(orders[o], n, p, cost)
        /\ book' = Booked(orders[o], n, p, cost)
        /\ completed' = completed \cup {o}
        /\ history' = [history EXCEPT !.booked[o] = @ + n]
        /\ UNCHANGED <<risk, backend, market>>
    BY DEF FillBooks
  <1>3. Books(history, history', o, n) /\ history \in HistoryRec
    BY <1>1, <1>2, HistoryBooks DEF TypeInv
  <1>4. cost \in Int /\ market.day \in Int /\ s \in Symbols /\ BookType(book) /\ LotsMatch(book)
   <2>1. cost \in Int BY CallFields
   <2>2. market.day \in Int /\ BookType(book) /\ LotsMatch(book) BY DEF TypeInv
   <2>3. s \in Symbols BY <1>1 DEF OrderRec
   <2> QED BY <2>1, <2>2, <2>3
  <1> DEFINE r == [calls[c] EXCEPT !.st = "publishing"]
  <1> HIDE DEF o, s, cost
  <1>5. /\ calls' \in [Calls -> CallRec] /\ calls'[c] = r
        /\ r.st = "publishing" /\ r.ord = o
        /\ \A d \in Calls : d # c => calls'[d] = calls[d]
   <2>1. r \in CallRec /\ r.st = "publishing" /\ r.ord = calls[c].ord BY CallFields DEF CallRec
   <2>2. calls' = [calls EXCEPT ![c] = r] BY <1>2
   <2> HIDE DEF r
   <2> QED BY <2>1, <2>2, CallChanges DEF Resumes, o
  <1> HIDE DEF r
  <1>6. /\ BookType(book') /\ LotsMatch(book')
        /\ book'.pos[s].qty = IF orders[o].side = "BUY" THEN book.pos[s].qty + n
                              ELSE book.pos[s].qty - n
        /\ \A t \in Symbols \ {s} : book'.pos[t] = book.pos[t]
   <2>1. CASE orders[o].side = "BUY"
    <3> DEFINE b == OpenPosition(book, s, n, p, cost, market.day)
    <3>1. book' = b BY <1>2, <2>1 DEF Booked, s
    <3>2. AfterPurchase(book, b, s, n, n * p + cost, AdjustedPrice(book, s, n, p, market.day))
      BY <1>1, <1>4, OpenKeeps
    <3> HIDE DEF b
    <3> QED BY <2>1, <3>1, <3>2 DEF AfterPurchase
   <2>2. CASE orders[o].side # "BUY"
    <3> DEFINE b == ClosePosition(book, s, "FIFO", n, p, cost, market.day)
    <3>1. book' = b /\ CanClose(book, s, n) BY <1>2, <2>2 DEF Booked, PortfolioTakes, s
    <3>2. AfterSale(book, b, s, n, n * p - cost) BY <1>1, <1>4, <3>1, CloseKeeps
    <3> HIDE DEF b
    <3> QED BY <2>2, <3>1, <3>2 DEF AfterSale
   <2> QED BY <2>1, <2>2
  <1>7. TypeInv' BY <1>1, <1>2, <1>3, <1>5, <1>6 DEF TypeInv, Books
  <1>8. CallInv'
   <2>1. \A d \in Calls : \/ calls[d].st # "idle" /\ calls'[d].ord = calls[d].ord
                          \/ calls'[d] = calls[d]
     BY <1>1, <1>5 DEF o
   <2> QED BY <1>1, <2>1, CallsStay
  <1>9. /\ history.booked \in [OrderIds -> Nat] /\ history.announced \in [OrderIds -> Nat]
        /\ history'.booked = [history.booked EXCEPT ![o] = history.booked[o] + n]
        /\ history'.announced = history.announced
        /\ orders[o].filled \in Nat /\ orders[o].fills \in Nat
    BY <1>1, <1>3, HistoryFields, OrderFields DEF Books
  <1>10. LogInv'
   <2>1. ASSUME NEW q \in OrderIds
         PROVE  /\ history'.booked[q] <= orders'[q].filled
                /\ history'.booked[q] > 0 => q \in completed'
     BY <1>1, <1>2, <1>9 DEF LogInv, FilledBy
   <2> QED BY <2>1 DEF LogInv
  <1>11. SharesInv'
   <2> SUFFICES ASSUME NEW t \in Symbols
                PROVE  book'.pos[t].qty = SumOn(Signed(t)', OrderIds)
     BY DEF SharesInv
   <2>1. book.pos[t].qty = SumOn(Signed(t), OrderIds) /\ book.pos[t].qty \in Nat
     BY <1>4, BookFields DEF SharesInv
   <2>2. \A q \in OrderIds \ {o} : Signed(t)'[q] = Signed(t)[q] BY <1>1, <1>9 DEF Signed
   <2>3. \A q \in OrderIds : Signed(t)[q] \in Int BY SignedType
   <2>4. \A q \in OrderIds : Signed(t)'[q] \in Int
    <3>1. \A q \in OrderIds : history'.booked[q] \in Nat BY <1>3, HistoryFields DEF Books
    <3> QED BY <3>1 DEF Signed
   <2>5. SumOn(Signed(t)', OrderIds) = SumOn(Signed(t), OrderIds) + (Signed(t)'[o] - Signed(t)[o])
     BY <1>1, <2>2, <2>3, <2>4, OrderIdsFinite, SumChange
   <2>6. CASE t # s
    <3>1. Signed(t)'[o] = 0 /\ Signed(t)[o] = 0 BY <1>1, <2>6 DEF Signed, s
    <3> QED BY <1>6, <2>1, <2>5, <2>6, <3>1
   <2>7. CASE t = s
    <3>1. Signed(t)[o] = IF orders[o].side = "BUY" THEN history.booked[o] ELSE -history.booked[o]
      BY <1>1, <2>7 DEF Signed, s
    <3>2. Signed(t)'[o] = IF orders[o].side = "BUY" THEN history'.booked[o]
                          ELSE -history'.booked[o]
      BY <1>1, <2>7 DEF Signed, s
    <3>3. history'.booked[o] = history.booked[o] + n /\ history.booked[o] \in Nat BY <1>1, <1>9
    <3>4. SumOn(Signed(t), OrderIds) \in Int BY <2>1
    <3> QED BY <1>1, <1>6, <2>1, <2>5, <2>7, <3>1, <3>2, <3>3, <3>4
   <2> QED BY <2>6, <2>7
  <1>12. AnnounceInv'
   <2>1. \A q \in OrderIds : q # o => Pending(q)' = Pending(q) BY <1>1, <1>5 DEF Pending
   <2> PICK k \in OrderIds : k = o
     BY <1>1
   <2>2. Pending(k)' = Pending(k) \cup {c} /\ c \notin Pending(k)
    <3>1. c \in Pending(k)' /\ c \notin Pending(k) BY <1>1, <1>5 DEF Pending
    <3>2. \A d \in Calls : d # c => (d \in Pending(k)' <=> d \in Pending(k)) BY <1>5 DEF Pending
    <3>3. Pending(k) \subseteq Calls /\ Pending(k)' \subseteq Calls BY DEF Pending
    <3> QED BY <3>1, <3>2, <3>3
   <2>3. Cardinality(Pending(k)') = Cardinality(Pending(k)) + 1 /\ Cardinality(Pending(k)) \in Nat
     BY <2>2, PendingFinite, FS_AddElement
   <2>4. /\ history.announced[k] + Cardinality(Pending(k)) <= orders[k].fills
         /\ history.booked[k] = orders[k].filled =>
              history.announced[k] + Cardinality(Pending(k)) = orders[k].fills
     BY DEF AnnounceInv
   <2>5. /\ history.booked[k] \in Nat /\ history.announced[k] \in Nat
         /\ history'.booked[k] = history.booked[k] + n
         /\ history'.announced[k] = history.announced[k]
         /\ orders'[k].filled = orders[k].filled + n
         /\ orders'[k].fills = orders[k].fills + 1
     BY <1>1, <1>9 DEF FilledBy
   <2>6. /\ history'.announced[k] + Cardinality(Pending(k)') <= orders'[k].fills
         /\ history'.booked[k] = orders'[k].filled =>
              history'.announced[k] + Cardinality(Pending(k)') = orders'[k].fills
    <3>1. n \in Nat /\ orders[k].filled \in Nat /\ orders[k].fills \in Nat BY <1>1, <1>9
    <3> DEFINE w == Cardinality(Pending(k))
               v == Cardinality(Pending(k)')
               told == history'.announced[k]
               z == orders[k].fills
               y == orders'[k].fills
    <3>2. w \in Nat /\ v = w + 1 /\ told \in Nat /\ z \in Nat /\ y = z + 1 /\ told + w <= z
      BY <2>3, <2>4, <2>5, <3>1
    <3>3. history'.booked[k] = orders'[k].filled => told + w = z
     <4>1. history.booked[k] + n = orders[k].filled + n => history.booked[k] = orders[k].filled
       BY <2>5, <3>1
     <4> QED BY <2>4, <2>5, <4>1
    <3> HIDE DEF w, v, told, z, y
    <3>4. told + v <= y /\ (told + w = z => told + v = y) BY <3>2
    <3> QED BY <3>3, <3>4 DEF v, told, y
   <2>7. ASSUME NEW q \in OrderIds
         PROVE  /\ history'.announced[q] + Cardinality(Pending(q)') <= orders'[q].fills
                /\ history'.booked[q] = orders'[q].filled =>
                     history'.announced[q] + Cardinality(Pending(q)') = orders'[q].fills
    <3>1. CASE q # k BY <1>1, <1>9, <2>1, <3>1 DEF AnnounceInv
    <3> QED BY <2>6, <3>1
   <2> QED BY <2>7 DEF AnnounceInv
  <1>13. DayInv' /\ HaltInv' BY <1>1, <1>2, <1>3, DayStays DEF HaltInv, Books
  <1> QED BY <1>1, <1>7, <1>8, <1>10, <1>11, <1>12, <1>13

----------------------------------------
(* Publication and continuation. *)

(* One more turn of continue_order's loop is a call on an accepted order. *)
LEMMA AttemptType ==
    ASSUME TypeInv, NEW o \in OrderIds, NEW x \in Int, NEW k \in Int
    PROVE  /\ Attempt(o, x, k) \in CallRec /\ Attempt(o, x, k).st = "executing"
           /\ Attempt(o, x, k).ord = o
  <1>1. orders[o].qty \in Int /\ orders[o].filled \in Int BY OrderFields
  <1>2. Remaining(o) \in Int BY <1>1 DEF Remaining
  <1>3. CostOf(Remaining(o)) \in Int BY <1>2, SignalPathAssumption DEF CostOf
  <1>4. o \in Int BY SignalPathAssumption DEF OrderIds
  <1> QED BY <1>3, <1>4 DEF Attempt, CallRec

(* The event of a booked fill leaves the call, which ends or tries again. *)
LEMMA PublishKeeps ==
    ASSUME SignalInv, NEW c \in Calls, Publish(c) \/ PublishRaises(c)
    PROVE  SignalInv'
  <1> USE DEF SignalInv
  <1>1. PICK o \in OrderIds : o = calls[c].ord /\ orders[o] \in OrderRec
    BY DEF Publish, PublishRaises, CallInv
  <1>2. PICK r : r = calls'[c] /\ (r = Idle \/ r = AfterPublish(c))
    BY DEF Publish, PublishRaises, TypeInv
  <1>3. /\ calls[c].st = "publishing" /\ calls' = [calls EXCEPT ![c] = r]
        /\ history' = [history EXCEPT !.announced[o] = @ + 1]
        /\ UNCHANGED <<orders, completed, book, risk, backend, market>>
    BY <1>1, <1>2 DEF Publish, PublishRaises, Announced, TypeInv
  <1>4. r \in CallRec /\ r.st \in {"idle", "executing"} /\ (r.st = "executing" => r.ord = o)
   <2>1. CASE r = Idle BY <2>1, CallFields
   <2>2. CASE r = Attempt(o, calls[c].price, calls[c].tries + 1)
    <3>1. calls[c].price \in Int /\ calls[c].tries \in Int BY CallFields
    <3>2. calls[c].tries + 1 \in Int BY <3>1
    <3> QED BY <2>2, <3>1, <3>2, AttemptType
   <2> QED BY <1>1, <1>2, <2>1, <2>2 DEF AfterPublish
  <1>5. /\ calls' \in [Calls -> CallRec] /\ calls'[c] = r
        /\ \A d \in Calls : d # c => calls'[d] = calls[d]
    BY <1>3, <1>4, CallChanges DEF Resumes
  <1>6. history \in HistoryRec /\ Announces(history, history', o)
    BY <1>3, HistoryAnnounces DEF TypeInv
  <1>7. TypeInv' BY <1>3, <1>5, <1>6 DEF TypeInv, Announces
  <1>8. CallInv'
   <2>1. \A d \in Calls : \/ calls'[d].st = "idle"
                          \/ calls[d].st # "idle" /\ calls'[d].ord = calls[d].ord
     BY <1>1, <1>3, <1>4, <1>5
   <2> QED BY <1>3, <2>1, CallsStay
  <1>9. LogInv' /\ SharesInv'
   <2>1. \A q \in OrderIds : orders[q].filled \in Nat BY OrderFields
   <2> QED BY <1>3, <1>6, <1>7, <2>1, LogStays, SharesStay DEF Announces
  <1>10. FilledIffReached' BY <1>3 DEF FilledIffReached
  <1>11. AnnounceInv'
   <2>1. \A q \in OrderIds : q # o => Pending(q)' = Pending(q) BY <1>1, <1>4, <1>5 DEF Pending
   <2>2. Pending(o)' = Pending(o) \ {c} /\ c \in Pending(o)
    <3>1. c \notin Pending(o)' /\ c \in Pending(o) BY <1>1, <1>3, <1>4, <1>5 DEF Pending
    <3>2. \A d \in Calls : d # c => (d \in Pending(o)' <=> d \in Pending(o)) BY <1>5 DEF Pending
    <3>3. Pending(o) \subseteq Calls /\ Pending(o)' \subseteq Calls BY DEF Pending
    <3> QED BY <3>1, <3>2, <3>3
   <2>3. Cardinality(Pending(o)') = Cardinality(Pending(o)) - 1 /\ Cardinality(Pending(o)) \in Nat
     BY <2>2, PendingFinite, FS_RemoveElement
   <2>4. /\ history.announced[o] + Cardinality(Pending(o)) <= orders[o].fills
         /\ history.booked[o] = orders[o].filled =>
              history.announced[o] + Cardinality(Pending(o)) = orders[o].fills
     BY DEF AnnounceInv
   <2>5. /\ history.announced \in [OrderIds -> Nat]
         /\ history'.announced = [history.announced EXCEPT ![o] = history.announced[o] + 1]
         /\ history'.booked = history.booked
     BY <1>6, HistoryFields DEF Announces
   <2>6. /\ history.announced[o] \in Nat /\ orders[o].fills \in Nat
         /\ history'.announced[o] = history.announced[o] + 1
     BY <2>5, OrderFields
   <2>7. /\ history'.announced[o] + Cardinality(Pending(o)') <= orders'[o].fills
         /\ history'.booked[o] = orders'[o].filled =>
              history'.announced[o] + Cardinality(Pending(o)') = orders'[o].fills
     BY <1>3, <2>3, <2>4, <2>5, <2>6
   <2>8. ASSUME NEW q \in OrderIds
         PROVE  /\ history'.announced[q] + Cardinality(Pending(q)') <= orders'[q].fills
                /\ history'.booked[q] = orders'[q].filled =>
                     history'.announced[q] + Cardinality(Pending(q)') = orders'[q].fills
    <3>1. CASE q # o BY <1>3, <2>1, <2>5, <3>1 DEF AnnounceInv
    <3> QED BY <2>7, <3>1
   <2> QED BY <2>8 DEF AnnounceInv
  <1>12. DayInv' /\ HaltInv' BY <1>3, <1>6, DayStays DEF HaltInv, Announces
  <1> QED BY <1>7, <1>8, <1>9, <1>10, <1>11, <1>12

(* Continuing a partially filled order keeps the invariant. *)
LEMMA ContinueKeeps ==
    ASSUME SignalInv, NEW c \in Calls, NEW o \in OrderIds, ContinueOrder(c, o)
    PROVE  SignalInv'
  <1> USE DEF SignalInv
  <1>1. /\ calls[c].st = "idle" /\ orders[o].status = "PARTIALLY_FILLED"
        /\ history' = [history EXCEPT !.continues = @ + 1]
        /\ UNCHANGED <<orders, completed, book, risk, backend, market>>
    BY DEF ContinueOrder
  <1>2. orders[o] \in OrderRec /\ orders[o].filled > 0 /\ orders[o].qty > 0
   <2>1. orders[o] \in OrderRec /\ orders[o].qty \in Int BY <1>1, OrderFields
   <2>2. orders[o].filled \in 1..orders[o].qty - 1 BY <1>1 DEF FilledIffReached
   <2> QED BY <2>1, <2>2
  <1>3. PICK x \in Int : calls' = [calls EXCEPT ![c] = Attempt(o, x, 1)]
   <2>1. orders[o].value \div orders[o].filled \in Int BY <1>2, OrderFields
   <2>2. market.prices[orders[o].sym] \in Int BY <1>2, SignalPathAssumption DEF TypeInv, OrderRec
   <2> QED BY <2>1, <2>2 DEF ContinueOrder
  <1> DEFINE r == Attempt(o, x, 1)
  <1>4. r \in CallRec /\ r.st = "executing" /\ r.ord = o BY AttemptType
  <1> HIDE DEF r
  <1>5. /\ calls' \in [Calls -> CallRec] /\ calls'[c] = r
        /\ \A d \in Calls : d # c => calls'[d] = calls[d]
    BY <1>3, <1>4, CallChanges DEF Resumes, r
  <1>6. /\ history \in HistoryRec /\ history' \in HistoryRec
        /\ history'.booked = history.booked /\ history'.announced = history.announced
        /\ history'.session = history.session /\ history'.resets = history.resets
        /\ history'.halted = history.halted
   <2>1. history \in HistoryRec /\ history.continues + 1 \in Nat BY HistoryFields DEF TypeInv
   <2> QED BY <1>1, <2>1 DEF HistoryRec
  <1>7. TypeInv' BY <1>1, <1>5, <1>6 DEF TypeInv
  <1>8. CallInv' BY <1>1, <1>2, <1>4, <1>5 DEF CallInv
  <1>9. LogInv' /\ SharesInv'
   <2>1. \A q \in OrderIds : orders[q].filled \in Nat BY OrderFields
   <2> QED BY <1>1, <1>6, <1>7, <2>1, LogStays, SharesStay
  <1>10. FilledIffReached' BY <1>1 DEF FilledIffReached
  <1>11. AnnounceInv'
   <2>1. \A q \in OrderIds : Pending(q)' = Pending(q) BY <1>1, <1>4, <1>5 DEF Pending
   <2> QED BY <1>1, <1>6, <2>1, AnnounceStays
  <1>12. DayInv' /\ HaltInv' BY <1>1, <1>6, DayStays DEF HaltInv
  <1> QED BY <1>7, <1>8, <1>9, <1>10, <1>11, <1>12

----------------------------------------
(* The market and the operator. *)

(* Steps that touch neither orders nor calls nor what was booked and announced. *)
LEMMA OutsideKeeps ==
    ASSUME SignalInv, TypeInv', UNCHANGED <<orders, calls, completed>>,
           \A s \in Symbols : book'.pos[s].qty = book.pos[s].qty,
           history'.booked = history.booked, history'.announced = history.announced
    PROVE  CallInv' /\ LogInv' /\ SharesInv' /\ FilledIffReached' /\ AnnounceInv'
  <1> USE DEF SignalInv
  <1>1. CallInv' BY DEF CallInv
  <1>2. LogInv' BY DEF LogInv
  <1>3. SharesInv' BY SharesStay
  <1>4. FilledIffReached' BY DEF FilledIffReached
  <1>5. AnnounceInv'
   <2>1. \A q \in OrderIds : Pending(q)' = Pending(q) BY DEF Pending
   <2> QED BY <2>1, AnnounceStays
  <1> QED BY <1>1, <1>2, <1>3, <1>4, <1>5

(* New prices keep the invariant. *)
LEMMA TickKeeps ==
    ASSUME SignalInv, NEW prices \in [Symbols -> Prices], Tick(prices)
    PROVE  SignalInv'
  <1> USE DEF SignalInv
  <1>1. /\ UNCHANGED <<orders, calls, completed, risk, backend, history>>
        /\ book' = UpdatePrices(book, prices)
        /\ market' \in [prices : [Symbols -> Prices], day : Nat]
    BY SignalPathAssumption DEF Tick
  <1>2. AfterMarking(book, book')
   <2>1. prices \in [Symbols -> Int] BY SignalPathAssumption
   <2> QED BY <1>1, <2>1, MarkKeeps DEF TypeInv
  <1>3. TypeInv' /\ \A s \in Symbols : book'.pos[s].qty = book.pos[s].qty
    BY <1>1, <1>2 DEF TypeInv, AfterMarking
  <1>4. CallInv' /\ LogInv' /\ SharesInv' /\ FilledIffReached' /\ AnnounceInv'
    BY <1>1, <1>3, OutsideKeeps
  <1>5. DayInv' /\ HaltInv' BY <1>1, DayStays DEF HaltInv
  <1> QED BY <1>3, <1>4, <1>5

(* Connecting, disconnecting and the operator's resets keep the invariant. *)
LEMMA OperatorKeeps ==
    ASSUME SignalInv,
           Connect \/ Disconnect \/ ResetDailyCounters \/ ResetCircuitBreaker \/ UNCHANGED vars
    PROVE  SignalInv'
  <1> USE DEF SignalInv
  <1>1. /\ history \in HistoryRec /\ history.resets \in Nat /\ history.unlatched \in Nat
        /\ history.session \in [OrderIds -> Int]
        /\ risk \in [breaker : BOOLEAN, count : Nat]
        /\ backend \in [wired : BOOLEAN, connected : BOOLEAN]
    BY HistoryFields DEF TypeInv
  <1>2. UNCHANGED <<orders, calls, completed, book, market>>
    BY DEF Connect, Disconnect, ResetDailyCounters, ResetCircuitBreaker, vars
  <1>3. CASE Connect \/ Disconnect \/ UNCHANGED vars
   <2>1. UNCHANGED <<risk, history>> /\ backend' \in [wired : BOOLEAN, connected : BOOLEAN]
    <3>1. CASE Connect BY <3>1 DEF Connect
    <3>2. CASE Disconnect BY <1>1, <3>2 DEF Disconnect
    <3>3. CASE UNCHANGED vars BY <1>1, <3>3 DEF vars
    <3> QED BY <1>3, <3>1, <3>2, <3>3
   <2>2. TypeInv' BY <1>2, <2>1 DEF TypeInv
   <2>3. CallInv' /\ LogInv' /\ SharesInv' /\ FilledIffReached' /\ AnnounceInv'
     BY <1>2, <2>1, <2>2, OutsideKeeps
   <2> QED BY <1>2, <2>1, <2>2, <2>3, DayStays DEF HaltInv
  <1>4. CASE ResetDailyCounters
   <2>1. /\ UNCHANGED backend /\ risk' = [risk EXCEPT !.count = 0]
         /\ history' = [history EXCEPT !.resets = history.resets + 1]
     BY <1>4 DEF ResetDailyCounters
   <2>2. /\ history' \in HistoryRec
         /\ history'.booked = history.booked /\ history'.announced = history.announced
         /\ history'.session = history.session /\ history'.halted = history.halted
         /\ history'.resets = history.resets + 1
         /\ risk' \in [breaker : BOOLEAN, count : Nat]
         /\ risk'.count = 0 /\ risk'.breaker = risk.breaker
     BY <1>1, <2>1 DEF HistoryRec
   <2>3. TypeInv' BY <1>2, <2>1, <2>2 DEF TypeInv
   <2>4. CallInv' /\ LogInv' /\ SharesInv' /\ FilledIffReached' /\ AnnounceInv'
     BY <1>2, <2>2, <2>3, OutsideKeeps
   <2>5. ApprovedToday' = {} BY <1>1, <2>2 DEF ApprovedToday, DayInv, SessionInv
   <2>6. CountInv' BY <2>2, <2>5, FS_EmptySet, SignalPathAssumption DEF CountInv
   <2>7. SessionInv' BY <1>1, <1>2, <2>2 DEF DayInv, SessionInv
   <2> QED BY <2>2, <2>3, <2>4, <2>6, <2>7 DEF DayInv, HaltInv
  <1>5. CASE ResetCircuitBreaker
   <2>1. /\ UNCHANGED backend /\ risk' = [risk EXCEPT !.breaker = FALSE]
         /\ history' = [history EXCEPT !.unlatched = history.unlatched + 1, !.halted = FALSE]
     BY <1>5 DEF ResetCircuitBreaker
   <2>2. /\ history' \in HistoryRec
         /\ history'.booked = history.booked /\ history'.announced = history.announced
         /\ history'.session = history.session /\ history'.halted = FALSE
         /\ history'.resets = history.resets
         /\ risk' \in [breaker : BOOLEAN, count : Nat]
         /\ risk'.count = risk.count
    <3> DEFINE m == history.unlatched + 1
    <3>1. m \in Nat BY <1>1
    <3>2. history' = [history EXCEPT !.unlatched = m, !.halted = FALSE] BY <2>1
    <3> HIDE DEF m
    <3>3. history' \in HistoryRec BY <1>1, <3>1, <3>2 DEF HistoryRec
    <3>4. /\ history'.booked = history.booked /\ history'.announced = history.announced
          /\ history'.session = history.session /\ history'.halted = FALSE
          /\ history'.resets = history.resets
      BY <1>1, <3>2 DEF HistoryRec
    <3> QED BY <1>1, <2>1, <3>3, <3>4
   <2>3. TypeInv' BY <1>2, <2>1, <2>2 DEF TypeInv
   <2>4. CallInv' /\ LogInv' /\ SharesInv' /\ FilledIffReached' /\ AnnounceInv'
     BY <1>2, <2>2, <2>3, OutsideKeeps
   <2> QED BY <1>2, <2>2, <2>3, <2>4, DayStays DEF HaltInv
  <1> QED BY <1>3, <1>4, <1>5

----------------------------------------
(* The invariant holds. *)

(* The invariant holds at the start. *)
LEMMA SignalStarts == Init => SignalInv
  <1> SUFFICES ASSUME Init PROVE SignalInv
    OBVIOUS
  <1>1. book = EmptyBook /\ BookType(EmptyBook) /\ LotsMatch(EmptyBook) BY EmptyBookKeeps DEF Init
  <1>2. /\ orders = [o \in OrderIds |-> NoOrder] /\ calls = [c \in Calls |-> Idle]
        /\ completed = {} /\ risk = [breaker |-> FALSE, count |-> 0]
        /\ backend = [wired |-> FALSE, connected |-> FALSE]
        /\ market \in [prices : [Symbols -> Prices], day : {0}]
    BY DEF Init
  <1>3. /\ history \in HistoryRec
        /\ history.booked = [o \in OrderIds |-> 0] /\ history.announced = [o \in OrderIds |-> 0]
        /\ history.session = [o \in OrderIds |-> -1]
        /\ ~history.halted /\ history.resets = 0
    BY DEF Init, HistoryRec
  <1>4. \A c \in Calls : calls[c] = Idle /\ Idle.st = "idle" /\ Idle \in CallRec
   <2>1. Idle.st = "idle" /\ Idle \in CallRec BY DEF Idle, CallRec
   <2> QED BY <1>2, <2>1
  <1>5. \A o \in OrderIds : /\ orders[o] = NoOrder
                            /\ NoOrder.filled = 0 /\ NoOrder.fills = 0
                            /\ NoOrder.status = "NONE"
    BY <1>2 DEF NoOrder
  <1>6. TypeInv BY <1>1, <1>2, <1>3, <1>4 DEF TypeInv
  <1>7. CallInv /\ LogInv /\ FilledIffReached /\ HaltInv
    BY <1>3, <1>4, <1>5 DEF CallInv, LogInv, FilledIffReached, HaltInv
  <1>8. SharesInv
   <2> SUFFICES ASSUME NEW s \in Symbols PROVE book.pos[s].qty = SumOn(Signed(s), OrderIds)
     BY DEF SharesInv
   <2>1. book.pos[s].qty = 0 BY <1>1 DEF EmptyBook, NoPosition
   <2>2. \A o \in OrderIds : Signed(s)[o] = 0
    <3>1. \A o \in OrderIds : history.booked[o] = 0 BY <1>3
    <3>2. \A x \in Int : x = 0 => -x <= 0 /\ -x >= 0 OBVIOUS
    <3>3. \A o \in OrderIds : Signed(s)[o] <= 0 /\ Signed(s)[o] >= 0 BY <3>1, <3>2 DEF Signed
    <3>4. \A o \in OrderIds : Signed(s)[o] \in Int BY <1>6, SignedType
    <3> QED BY <3>3, <3>4
   <2> QED BY <2>1, <2>2, OrderIdsFinite, SumZero
  <1>9. AnnounceInv
   <2>1. \A o \in OrderIds : Pending(o) = {} BY <1>4 DEF Pending
   <2> QED BY <1>3, <1>5, <2>1, FS_EmptySet DEF AnnounceInv
  <1>10. DayInv
   <2>1. ApprovedToday = {} BY <1>3 DEF ApprovedToday
   <2> QED BY <1>2, <1>3, <2>1, FS_EmptySet, SignalPathAssumption DEF DayInv, CountInv, SessionInv
  <1> QED BY <1>6, <1>7, <1>8, <1>9, <1>10 DEF SignalInv

(* Every step keeps the invariant. *)
LEMMA SignalSteps == SignalInv /\ [Next]_vars => SignalInv'
  <1> SUFFICES ASSUME SignalInv, [Next]_vars PROVE SignalInv'
    OBVIOUS
  <1>1. ASSUME NEW c \in Calls, NEW o \in OrderIds, NEW sig \in Signals, ProcessSignal(c, o, sig)
        PROVE  SignalInv'
    BY <1>1, RefusalKeeps, ApprovalKeeps DEF ProcessSignal
  <1>2. ASSUME NEW c \in Calls, Working(c), Answer(c)
        PROVE  SignalInv'
    BY <1>2, FailureKeeps, BookingKeeps, RaiseKeeps DEF Answer
  <1>3. ASSUME NEW c \in Calls, Publish(c) \/ PublishRaises(c)
        PROVE  SignalInv'
    BY <1>3, PublishKeeps
  <1>4. ASSUME NEW c \in Calls, NEW o \in OrderIds, ContinueOrder(c, o)
        PROVE  SignalInv'
    BY <1>4, ContinueKeeps
  <1>5. ASSUME NEW prices \in [Symbols -> Prices], Tick(prices)
        PROVE  SignalInv'
    BY <1>5, TickKeeps
  <1>6. CASE Connect \/ Disconnect \/ ResetDailyCounters \/ ResetCircuitBreaker \/ UNCHANGED vars
    BY <1>6, OperatorKeeps
  <1> QED BY <1>1, <1>2, <1>3, <1>4, <1>5, <1>6 DEF Next

(* The invariant holds throughout. *)
LEMMA SignalAlways == Spec => []SignalInv
  BY SignalStarts, SignalSteps, PTL DEF Spec

\* Whatever the interleaving of any number of calls at their awaits: the positions and the
\* lots hold the shares that the orders' fills booked, a booked order is logged, a fill is
\* announced once, and an order shows FILLED when its quantity is reached
\* (_reconcile_fill, _publish_fill_event).
THEOREM WhatOrdersShowIsKnown == Spec => []FillsRecorded
  <1>1. SignalInv => FillsRecorded
   <2> SUFFICES ASSUME SignalInv PROVE FillsRecorded
     OBVIOUS
   <2> USE DEF SignalInv
   <2>1. PositionsMatchOrders
    <3> SUFFICES ASSUME NEW s \in Symbols
                 PROVE  /\ book.pos[s].qty = SumOver(Signed(s))
                        /\ LotShares(book.lots[s]) = book.pos[s].qty
      BY DEF PositionsMatchOrders, Signed
    <3>1. SumOver(Signed(s)) = SumOn(Signed(s), OrderIds) BY DEF SumOver, SumOn, Signed
    <3> QED BY <3>1 DEF SharesInv, TypeInv, LotsMatch
   <2>2. FilledIsLogged BY DEF LogInv, FilledIsLogged
   <2>3. FillsAnnounced BY DEF AnnounceInv, FillsAnnounced, Pending
   <2> QED BY <2>1, <2>2, <2>3 DEF FillsRecorded
  <1> QED BY <1>1, SignalAlways, PTL

\* No more orders are approved between two resets than max_daily_trades, although other
\* calls wait for their fills while one is checked (check_order).
THEOREM DailyLimit == Spec => []DailyLimitHolds
  <1>1. SignalInv => DailyLimitHolds
    BY SignalPathAssumption DEF SignalInv, TypeInv, DayInv, CountInv, ApprovedToday, DailyLimitHolds
  <1> QED BY <1>1, SignalAlways, PTL

\* The circuit breaker stops every approval until the operator resets it, whatever the
\* portfolio does in between (RiskEngine.check_order).
THEOREM BreakerHalts == Spec => HaltedUntilReset
  <1>1. SignalInv /\ [Next]_vars =>
          (history.halted /\ history'.halted => history'.session = history.session)
   <2> SUFFICES ASSUME SignalInv, [Next]_vars, history.halted
                PROVE  history'.session = history.session
     OBVIOUS
   <2>1. risk.breaker /\ history \in HistoryRec BY DEF SignalInv, HaltInv, TypeInv
   <2>2. ASSUME NEW c \in Calls, NEW o \in OrderIds, NEW sig \in Signals, ProcessSignal(c, o, sig)
         PROVE  history'.session = history.session
    <3>1. ~FailNoBackend(c, o, sig) /\ ~Submit(c, o, sig)
      BY <2>1 DEF FailNoBackend, Submit, RiskPassed
    <3>2. history' = history \/ history' = [history EXCEPT !.halted = TRUE]
      BY <2>2, <3>1 DEF ProcessSignal, RejectInvalid, RejectCost, RejectLimits, TripBreaker
    <3> QED BY <2>1, <3>2 DEF HistoryRec
   <2>3. ASSUME NEW c \in Calls, Working(c), Answer(c)
         PROVE  history'.session = history.session
    <3>1. PICK o, n : history' = history \/ history' = [history EXCEPT !.booked[o] = @ + n]
      BY <2>3 DEF Answer, FillFails, FillBooks, FillRaises
    <3> QED BY <2>1, <3>1 DEF HistoryRec
   <2>4. ASSUME NEW c \in Calls, Publish(c) \/ PublishRaises(c)
         PROVE  history'.session = history.session
     BY <2>1, <2>4 DEF Publish, PublishRaises, Announced, HistoryRec
   <2>5. ASSUME NEW c \in Calls, NEW o \in OrderIds, ContinueOrder(c, o)
         PROVE  history'.session = history.session
     BY <2>1, <2>5 DEF ContinueOrder, HistoryRec
   <2>6. ASSUME \/ \E prices \in [Symbols -> Prices] : Tick(prices)
                \/ Connect \/ Disconnect \/ ResetDailyCounters \/ ResetCircuitBreaker
                \/ UNCHANGED vars
         PROVE  history'.session = history.session
     BY <2>1, <2>6
        DEF Tick, Connect, Disconnect, ResetDailyCounters, ResetCircuitBreaker, HistoryRec, vars
   <2> QED BY <2>2, <2>3, <2>4, <2>5, <2>6 DEF Next
  <1> QED BY <1>1, SignalAlways, PTL DEF Spec, HaltedUntilReset

----------------------------------------
(* Cash.  A sale is filled at a price that slippage lowered, once more each time *)
(* the order is continued at its average price, and pays what the call was       *)
(* charged for.                                                                  *)

\* The lowest price that k continuations can bring.
Floor(low, k) == low - (k + 1) * Slip

\* The costs of an order never exceed what any fill of it brings in.
ProceedsCoverCosts(low) ==
    /\ low \in Nat /\ \A p \in Prices : low <= p
    /\ \A q \in Nat \ {0} : \A n \in FillQuantities(q) :
          CostOf(q) <= n * Floor(low, MaxContinues)

CashInv(low) ==
    /\ book.cash >= 0
    /\ history.continues <= MaxContinues
    /\ \A c \in Calls : calls[c].st # "idle" =>
          /\ calls[c].price >= Floor(low, history.continues) + Slip
          /\ calls[c].cost <= CostOf(orders[calls[c].ord].qty)
    /\ \A o \in OrderIds : orders[o].value >= orders[o].filled * Floor(low, history.continues)

(* The floor on the cash sinks with each continued order, by the slippage of one fill. *)
LEMMA FloorType ==
    ASSUME NEW low \in Nat, NEW k \in Nat
    PROVE  /\ Floor(low, k) \in Int /\ Floor(low, k) + Slip \in Int
           /\ Floor(low, k) <= low - Slip /\ Floor(low, k + 1) + Slip = Floor(low, k)
           /\ \A m \in Nat : k <= m => Floor(low, m) <= Floor(low, k)
  <1>1. Slip \in Nat BY SignalPathAssumption
  <1>2. /\ (k + 1) * Slip \in Nat /\ (k + 1) * Slip >= Slip
        /\ (k + 2) * Slip = (k + 1) * Slip + Slip
    BY <1>1
  <1>3. ASSUME NEW m \in Nat, k <= m
        PROVE  Floor(low, m) <= Floor(low, k)
   <2>1. (m + 1) * Slip >= (k + 1) * Slip /\ (m + 1) * Slip \in Nat BY <1>1, <1>3
   <2> QED BY <1>2, <2>1 DEF Floor
  <1>4. Floor(low, k + 1) + Slip = Floor(low, k)
   <2>1. (k + 1) + 1 = k + 2 OBVIOUS
   <2>2. Floor(low, k + 1) = low - ((k + 1) * Slip + Slip) BY <1>2, <2>1 DEF Floor
   <2> QED BY <1>1, <1>2, <2>2 DEF Floor
  <1> QED BY <1>1, <1>2, <1>3, <1>4 DEF Floor

(* A product grows with its factor. *)
LEMMA ProductGrows ==
    ASSUME NEW n \in Nat, NEW x \in Int, NEW y \in Int, x <= y
    PROVE  n * x \in Int /\ n * y \in Int /\ n * x <= n * y
  OBVIOUS

(* The cost of a trade grows with its size. *)
LEMMA CostGrows ==
    ASSUME NEW m \in Int, NEW n \in Int, m <= n
    PROVE  CostOf(m) \in Int /\ CostOf(n) \in Int /\ CostOf(m) <= CostOf(n)
  <1>1. ShareCost \in Nat /\ Commission \in Nat BY SignalPathAssumption
  <1>2. ShareCost * m \in Int /\ ShareCost * n \in Int /\ ShareCost * m <= ShareCost * n
    BY <1>1, ProductGrows
  <1>3. m * ShareCost = ShareCost * m /\ n * ShareCost = ShareCost * n BY <1>1
  <1> QED BY <1>1, <1>2, <1>3 DEF CostOf

(* A fill takes a price no lower than the floor and leaves the order above it. *)
LEMMA FillKeepsFloor ==
    ASSUME NEW low, ProceedsCoverCosts(low), SignalInv, CashInv(low), NEW c \in Calls, Working(c),
           NEW n \in FillQuantities(orders[calls[c].ord].qty), NEW p \in FillPrices(c),
           orders' = [orders EXCEPT ![calls[c].ord] = Filled(@, n, p)],
           history'.continues = history.continues
    PROVE  /\ p \in Int /\ n \in Nat /\ p >= Floor(low, history.continues)
           /\ \A o \in OrderIds :
                 orders'[o].value >= orders'[o].filled * Floor(low, history'.continues)
  <1> USE DEF SignalInv
  <1> DEFINE F == Floor(low, history.continues)
             o == calls[c].ord
  <1>1. /\ o \in OrderIds /\ FilledBy(orders[o], orders'[o], n, p)
        /\ n \in Nat /\ p \in Int
        /\ \A q \in OrderIds : q # o => orders'[q] = orders[q]
    BY FillSteps
  <1>2. /\ history.continues \in Nat /\ low \in Nat /\ Slip \in Nat
        /\ \A q \in Prices : q \in Nat /\ low <= q
    BY HistoryFields, SignalPathAssumption DEF TypeInv, ProceedsCoverCosts
  <1>3. F \in Int /\ F + Slip \in Int /\ F <= low - Slip BY <1>2, FloorType
  <1>4. calls[c].price >= F + Slip /\ calls[c].price \in Int BY CallFields DEF CashInv, Working
  <1>5. p >= F
   <2> HIDE DEF F
   <2>1. PICK q \in Prices \cup {calls[c].price} : p = q + Slip \/ p = q - Slip
     BY DEF FillPrices
   <2>2. q \in Int /\ q >= F + Slip BY <1>2, <1>3, <1>4, <2>1
   <2> QED BY <1>2, <1>3, <2>1, <2>2
  <1> HIDE DEF F, o
  <1>6. orders'[o].value >= orders'[o].filled * F
   <2>1. /\ orders[o].value \in Int /\ orders[o].filled \in Nat
         /\ orders[o].value >= orders[o].filled * F
     BY <1>1, OrderFields DEF CashInv, F
   <2>2. n * F \in Int /\ n * p \in Int /\ n * F <= n * p BY <1>1, <1>3, <1>5, ProductGrows
   <2>3. /\ orders[o].filled * F \in Int
         /\ (orders[o].filled + n) * F = orders[o].filled * F + n * F
     BY <1>1, <1>3, <2>1
   <2> QED BY <1>1, <2>1, <2>2, <2>3 DEF FilledBy
  <1>7. \A q \in OrderIds : orders'[q].value >= orders'[q].filled * F BY <1>1, <1>6 DEF CashInv, F
  <1> QED BY <1>1, <1>5, <1>7 DEF F

(* The cash after a fill. *)
LEMMA FillKeepsCash ==
    ASSUME NEW low, ProceedsCoverCosts(low), SignalInv, CashInv(low), NEW c \in Calls,
           NEW n, NEW p, FillBooks(c, n, p), p \in Int, n \in Nat,
           p >= Floor(low, history.continues)
    PROVE  book'.cash >= 0
  <1> USE DEF SignalInv
  <1> DEFINE o == calls[c].ord
             s == orders[o].sym
             cost == calls[c].cost
  <1>1. /\ o \in OrderIds /\ orders[o] \in OrderRec /\ n \in Shares
        /\ orders[o].qty \in Nat \ {0} /\ n \in FillQuantities(orders[o].qty)
   <2>1. /\ o \in OrderIds /\ orders[o] \in OrderRec /\ orders[o].qty > 0
         /\ n \in FillQuantities(orders[o].qty) /\ p \in FillPrices(c)
     BY DEF FillBooks, Working, CallInv
   <2>2. orders[o].qty \in Int BY <2>1 DEF OrderRec
   <2>3. n \in Shares BY <2>1, FillAmounts DEF FillBooks
   <2> QED BY <2>1, <2>2, <2>3
  <1>2. /\ cost \in Int /\ cost <= CostOf(orders[o].qty)
        /\ market.day \in Int /\ BookType(book) /\ LotsMatch(book) /\ book.cash \in Int
        /\ book.cash >= 0
   <2>1. cost \in Int BY CallFields
   <2>2. market.day \in Int /\ BookType(book) /\ LotsMatch(book) /\ book.cash \in Int
     BY DEF TypeInv, BookType
   <2> QED BY <2>1, <2>2 DEF CashInv, FillBooks, Working
  <1>3. s \in Symbols BY <1>1 DEF OrderRec
  <1>4. PortfolioTakes(orders[o], n, p, cost) /\ book' = Booked(orders[o], n, p, cost)
    BY DEF FillBooks
  <1> HIDE DEF o, s, cost
  <1>5. CASE orders[o].side = "BUY"
   <2> DEFINE b == OpenPosition(book, s, n, p, cost, market.day)
   <2>1. AfterPurchase(book, b, s, n, n * p + cost, AdjustedPrice(book, s, n, p, market.day))
     BY <1>1, <1>2, <1>3, OpenKeeps
   <2>2. book' = b /\ CanOpen(book, n, p, cost) BY <1>4, <1>5 DEF Booked, PortfolioTakes, s
   <2> HIDE DEF b
   <2>3. book'.cash = book.cash - (n * p + cost) /\ book.cash >= n * p + cost
     BY <2>1, <2>2 DEF AfterPurchase, CanOpen
   <2>4. n * p \in Int OBVIOUS
   <2> QED BY <1>2, <2>3, <2>4
  <1>6. CASE orders[o].side # "BUY"
   <2> DEFINE b == ClosePosition(book, s, "FIFO", n, p, cost, market.day)
   <2>1. book' = b /\ CanClose(book, s, n) BY <1>4, <1>6 DEF Booked, PortfolioTakes, s
   <2>2. AfterSale(book, b, s, n, n * p - cost) BY <1>1, <1>2, <1>3, <2>1, CloseKeeps
   <2> HIDE DEF b
   <2>3. book'.cash = book.cash + (n * p - cost) BY <2>1, <2>2 DEF AfterSale
   <2>4. /\ low \in Nat /\ history.continues \in Nat /\ MaxContinues \in Nat
         /\ history.continues <= MaxContinues
     BY HistoryFields, SignalPathAssumption DEF TypeInv, ProceedsCoverCosts, CashInv
   <2>5. /\ Floor(low, MaxContinues) <= Floor(low, history.continues)
         /\ Floor(low, MaxContinues) \in Int /\ Floor(low, history.continues) \in Int
     BY <2>4, FloorType
   <2>6. Floor(low, MaxContinues) <= p BY <2>5
   <2>7. n * p \in Int /\ n * Floor(low, MaxContinues) \in Int
         /\ n * Floor(low, MaxContinues) <= n * p
     BY <2>5, <2>6, ProductGrows
   <2>8. CostOf(orders[o].qty) <= n * Floor(low, MaxContinues) BY <1>1 DEF ProceedsCoverCosts
   <2>9. CostOf(orders[o].qty) \in Int BY <1>1, CostGrows
   <2> QED BY <1>2, <2>3, <2>7, <2>8, <2>9
  <1> QED BY <1>5, <1>6

(* The floor on the cash stands when a step moves no money and starts no call. *)
LEMMA CashStays ==
    ASSUME NEW low, CashInv(low), CallInv,
           history'.continues = history.continues, book'.cash >= 0,
           \A c \in Calls : \/ calls'[c].st = "idle"
                            \/ /\ calls[c].st # "idle"
                               /\ calls'[c].price = calls[c].price /\ calls'[c].ord = calls[c].ord
                               /\ calls'[c].cost = calls[c].cost,
           \A o \in OrderIds :
              /\ orders[o] \in OrderRec => orders'[o].qty = orders[o].qty
              /\ orders'[o].value >= orders'[o].filled * Floor(low, history.continues)
    PROVE  CashInv(low)'
  BY DEF CashInv, CallInv

(* A signal is approved only when the cash covers it. *)
LEMMA SignalKeepsCash ==
    ASSUME NEW low, ProceedsCoverCosts(low), SignalInv, CashInv(low),
           NEW c \in Calls, NEW o \in OrderIds, NEW sig \in Signals, ProcessSignal(c, o, sig)
    PROVE  CashInv(low)'
  <1> USE DEF SignalInv
  <1>1. PICK status \in Statuses \ {"PARTIALLY_FILLED", "FILLED"} :
           NewOrder(c, o) /\ Record(o, sig, status)
    BY DEF ProcessSignal, RejectInvalid, RejectCost, RejectLimits, TripBreaker, FailNoBackend,
           Submit, Costed, RiskPassed, Statuses
  <1> DEFINE r == Made(sig, status)
             F == Floor(low, history.continues)
  <1>2. Placed(o, r) /\ r.qty = Quantity(sig) /\ orders \in [OrderIds -> OrderRec \cup {NoOrder}]
    BY <1>1, RecordPlaces DEF TypeInv
  <1>3. /\ UNCHANGED book /\ history \in HistoryRec /\ history.continues \in Nat
        /\ history'.continues = history.continues
        /\ book.cash >= 0 /\ history.continues <= MaxContinues
   <2>1. history \in HistoryRec BY DEF TypeInv
   <2>2. \/ history' = history \/ history' = [history EXCEPT !.halted = TRUE]
         \/ history' = [history EXCEPT !.session[o] = history.resets]
     BY DEF ProcessSignal, RejectInvalid, RejectCost, RejectLimits, TripBreaker, FailNoBackend,
            Submit, Approve
   <2>3. history'.continues = history.continues
     BY <2>1, <2>2, HistoryApproves DEF HistoryRec, Approves
   <2>4. UNCHANGED book
     BY DEF ProcessSignal, RejectInvalid, RejectCost, RejectLimits, TripBreaker, FailNoBackend,
            Submit
   <2> QED BY <2>1, <2>3, <2>4, HistoryFields DEF CashInv
  <1>4. low \in Nat /\ F \in Int /\ F + Slip <= low /\ Slip \in Nat
   <2>1. low \in Nat /\ Slip \in Nat BY SignalPathAssumption DEF ProceedsCoverCosts
   <2>2. F \in Int /\ F <= low - Slip BY <1>3, <2>1, FloorType
   <2> QED BY <2>1, <2>2
  <1> HIDE DEF r, F
  <1>5. /\ orders'[o] = r /\ r.value = 0 /\ r.filled = 0 /\ orders[o] \notin OrderRec
        /\ \A p \in OrderIds : p # o => orders'[p] = orders[p]
   <2>1. NoOrder.status = "NONE" BY DEF NoOrder
   <2> QED BY <1>2, <2>1 DEF Placed, OrderRec, Statuses
  <1>6. \A p \in OrderIds :
           /\ orders[p] \in OrderRec => orders'[p].qty = orders[p].qty
           /\ orders'[p].value >= orders'[p].filled * F
   <2>1. 0 >= 0 * F BY <1>4
   <2> QED BY <1>5, <2>1 DEF CashInv, F
  <1>7. CASE Submit(c, o, sig)
   <2> DEFINE x == market.prices[sig.sym]
              k == CostOf(Quantity(sig))
              call == [st |-> "executing", kind |-> "signal", ord |-> o, price |-> x, cost |-> k,
                       tries |-> 1]
   <2>1. calls \in [Calls -> CallRec] /\ calls' = [calls EXCEPT ![c] = call]
     BY <1>7 DEF Submit, TypeInv
   <2>2. call.ord = o /\ call.price = x /\ call.cost = k OBVIOUS
   <2>3. x >= low /\ x \in Nat BY QuantityType DEF ProceedsCoverCosts
   <2>4. x >= F + Slip BY <1>4, <2>3
   <2>5. k <= CostOf(r.qty) BY <1>2, QuantityType
   <2> HIDE DEF x, k, call
   <2>6. ASSUME NEW d \in Calls, calls'[d].st # "idle"
         PROVE  /\ calls'[d].price >= F + Slip
                /\ calls'[d].cost <= CostOf(orders'[calls'[d].ord].qty)
    <3>1. CASE d = c BY <1>5, <2>1, <2>2, <2>4, <2>5, <3>1
    <3>2. CASE d # c BY <1>6, <2>1, <2>6, <3>2 DEF CashInv, CallInv, F
    <3> QED BY <3>1, <3>2
   <2> QED BY <1>3, <1>6, <2>6 DEF CashInv, F
  <1>8. CASE ~Submit(c, o, sig)
   <2>1. UNCHANGED calls
     BY <1>8 DEF ProcessSignal, RejectInvalid, RejectCost, RejectLimits, TripBreaker, FailNoBackend
   <2> QED BY <1>3, <1>6, <2>1, CashStays DEF F
  <1> QED BY <1>7, <1>8

(* A fill takes no more cash than the check of its call left for it. *)
LEMMA AnswerKeepsCash ==
    ASSUME NEW low, ProceedsCoverCosts(low), SignalInv, CashInv(low),
           NEW c \in Calls, Working(c), Answer(c)
    PROVE  CashInv(low)'
  <1> USE DEF SignalInv
  <1>1. calls \in [Calls -> CallRec] /\ book.cash >= 0 /\ calls[c] \in CallRec
        /\ Idle.st = "idle" /\ calls[c].ord \in OrderIds /\ orders[calls[c].ord] \in OrderRec
        /\ calls[c].st # "idle"
    BY CallFields DEF TypeInv, CashInv, CallInv, Working
  <1>2. CASE FillFails(c)
   <2> DEFINE o == calls[c].ord
              r == [orders[o] EXCEPT !.status = "FAILED"]
   <2>1. /\ orders' = [orders EXCEPT ![o] = r] /\ calls' = [calls EXCEPT ![c] = Idle]
         /\ UNCHANGED <<book, history>>
     BY <1>2 DEF FillFails
   <2>2. /\ r.qty = orders[o].qty /\ r.value = orders[o].value /\ r.filled = orders[o].filled
         /\ orders \in [OrderIds -> OrderRec \cup {NoOrder}]
     BY <1>1 DEF OrderRec, TypeInv
   <2> HIDE DEF r, o
   <2>3. \A p \in OrderIds : /\ orders'[p].qty = orders[p].qty
                             /\ orders'[p].value = orders[p].value
                             /\ orders'[p].filled = orders[p].filled
     BY <2>1, <2>2
   <2>4. \A d \in Calls : calls'[d] = calls[d] \/ calls'[d].st = "idle" BY <1>1, <2>1
   <2>5. \A d \in Calls :
            \/ calls'[d].st = "idle"
            \/ /\ calls[d].st # "idle"
               /\ calls'[d].price = calls[d].price /\ calls'[d].ord = calls[d].ord
               /\ calls'[d].cost = calls[d].cost
     BY <2>4
   <2>6. \A p \in OrderIds :
            orders'[p].value >= orders'[p].filled * Floor(low, history.continues)
     BY <2>3 DEF CashInv
   <2> QED BY <1>1, <2>1, <2>3, <2>5, <2>6, CashStays
  <1>3. ASSUME NEW n \in FillQuantities(orders[calls[c].ord].qty), NEW p \in FillPrices(c),
               FillBooks(c, n, p) \/ FillRaises(c, n, p)
        PROVE  CashInv(low)'
   <2>1. orders' = [orders EXCEPT ![calls[c].ord] = Filled(@, n, p)]
     BY <1>3 DEF FillBooks, FillRaises
   <2>2. history'.continues = history.continues
    <3>1. history \in HistoryRec BY DEF TypeInv
    <3>2. n \in Nat BY FillAmounts
    <3> PICK o \in OrderIds : o = calls[c].ord
      BY <1>1
    <3>3. history' = history \/ history' = [history EXCEPT !.booked[o] = @ + n]
      BY <1>3 DEF FillBooks, FillRaises
    <3>4. Books(history, [history EXCEPT !.booked[o] = @ + n], o, n) BY <3>1, <3>2, HistoryBooks
    <3> QED BY <3>3, <3>4 DEF Books
   <2>3. /\ p \in Int /\ n \in Nat /\ p >= Floor(low, history.continues)
         /\ \A o \in OrderIds :
               orders'[o].value >= orders'[o].filled * Floor(low, history.continues)
     BY <2>1, <2>2, FillKeepsFloor
   <2>4. book'.cash >= 0
    <3>1. CASE FillBooks(c, n, p) BY <2>3, <3>1, FillKeepsCash
    <3>2. CASE FillRaises(c, n, p) BY <1>1, <3>2 DEF FillRaises
    <3> QED BY <1>3, <3>1, <3>2
   <2>5. \A o \in OrderIds : orders[o] \in OrderRec => orders'[o].qty = orders[o].qty
     BY <2>1, FillSteps
   <2>6. \A d \in Calls :
            \/ calls'[d].st = "idle"
            \/ /\ calls[d].st # "idle"
               /\ calls'[d].price = calls[d].price /\ calls'[d].ord = calls[d].ord
               /\ calls'[d].cost = calls[d].cost
    <3> DEFINE r == [calls[c] EXCEPT !.st = "publishing"]
    <3>1. calls' = [calls EXCEPT ![c] = r] \/ calls' = [calls EXCEPT ![c] = Idle]
      BY <1>1, <1>3 DEF FillBooks, FillRaises
    <3>2. r.price = calls[c].price /\ r.ord = calls[c].ord /\ r.cost = calls[c].cost
      BY <1>1 DEF CallRec
    <3> HIDE DEF r
    <3>3. \A d \in Calls : calls'[d] = calls[d] \/ calls'[d] = Idle \/ (d = c /\ calls'[d] = r)
      BY <1>1, <3>1
    <3> QED BY <1>1, <3>2, <3>3
   <2> QED BY <2>2, <2>3, <2>4, <2>5, <2>6, CashStays
  <1> QED BY <1>2, <1>3 DEF Answer

(* Publishing moves no money. *)
LEMMA PublishKeepsCash ==
    ASSUME NEW low, ProceedsCoverCosts(low), SignalInv, CashInv(low),
           NEW c \in Calls, Publish(c) \/ PublishRaises(c)
    PROVE  CashInv(low)'
  <1> USE DEF SignalInv
  <1>1. /\ calls \in [Calls -> CallRec] /\ calls[c].st # "idle" /\ Idle.st = "idle"
        /\ calls[c].ord \in OrderIds /\ orders[calls[c].ord] \in OrderRec
        /\ UNCHANGED <<orders, book>>
        /\ calls' = [calls EXCEPT ![c] = AfterPublish(c)] \/ calls' = [calls EXCEPT ![c] = Idle]
        /\ history' = [history EXCEPT !.announced[calls[c].ord] = @ + 1]
    BY CallFields DEF TypeInv, CallInv, Publish, PublishRaises, Announced
  <1>2. history'.continues = history.continues BY <1>1, HistoryAnnounces DEF TypeInv, Announces
  <1>3. ASSUME NEW d \in Calls, calls'[d].st # "idle"
        PROVE  /\ calls'[d].price >= Floor(low, history.continues) + Slip
               /\ calls'[d].cost <= CostOf(orders[calls'[d].ord].qty)
   <2>1. CASE calls'[d] = calls[d] BY <1>3, <2>1 DEF CashInv
   <2>2. CASE d = c /\ calls'[d] = AfterPublish(c) /\ MoreToFill(c)
    <3> DEFINE o == calls[c].ord
    <3>1. /\ calls'[d].price = calls[c].price /\ calls'[d].ord = o
          /\ calls'[d].cost = CostOf(Remaining(o))
      BY <2>2 DEF AfterPublish, Attempt
    <3>2. /\ orders[o].qty \in Int /\ Remaining(o) \in Int /\ Remaining(o) <= orders[o].qty
      BY <1>1, OrderFields DEF Remaining
    <3>3. CostOf(Remaining(o)) <= CostOf(orders[o].qty) BY <3>2, CostGrows
    <3> QED BY <1>1, <3>1, <3>3 DEF CashInv
   <2>3. calls'[d] = calls[d] \/ (d = c /\ calls'[d] = AfterPublish(c) /\ MoreToFill(c))
     BY <1>1, <1>3 DEF AfterPublish
   <2> QED BY <2>1, <2>2, <2>3
  <1> QED BY <1>1, <1>2, <1>3 DEF CashInv

(* A continued order lowers the floor by the slippage of its fill. *)
LEMMA ContinueKeepsCash ==
    ASSUME NEW low, ProceedsCoverCosts(low), SignalInv, CashInv(low),
           NEW c \in Calls, NEW o \in OrderIds, ContinueOrder(c, o)
    PROVE  CashInv(low)'
  <1> USE DEF SignalInv
  <1>1. /\ calls \in [Calls -> CallRec] /\ orders[o].status = "PARTIALLY_FILLED"
        /\ history.continues < MaxContinues
        /\ history' = [history EXCEPT !.continues = history.continues + 1]
        /\ UNCHANGED <<orders, book>>
    BY DEF ContinueOrder, TypeInv
  <1>2. /\ history.continues \in Nat /\ MaxContinues \in Nat /\ low \in Nat /\ Slip \in Nat
        /\ history'.continues = history.continues + 1
        /\ \A x \in Prices : x \in Nat /\ low <= x
   <2>1. history \in HistoryRec BY DEF TypeInv
   <2>2. history.continues \in Nat BY <2>1, HistoryFields
   <2>3. history'.continues = history.continues + 1 BY <1>1, <2>1 DEF HistoryRec
   <2> QED BY <2>2, <2>3, SignalPathAssumption DEF ProceedsCoverCosts
  <1> DEFINE F == Floor(low, history.continues)
             G == Floor(low, history'.continues)
  <1>3. F \in Int /\ G \in Int /\ G + Slip = F /\ F <= low /\ G <= F
   <2>1. F \in Int /\ F <= low - Slip /\ Floor(low, history.continues + 1) + Slip = F
     BY <1>2, FloorType
   <2>2. G \in Int /\ G + Slip = F
    <3>1. history.continues + 1 \in Nat BY <1>2
    <3>2. Floor(low, history.continues + 1) \in Int BY <1>2, <3>1, FloorType
    <3> QED BY <1>2, <2>1, <3>2
   <2> HIDE DEF F, G
   <2> QED BY <1>2, <2>1, <2>2
  <1> HIDE DEF F, G
  <1>4. /\ orders[o].filled \in Nat \ {0} /\ orders[o].value \in Int
        /\ orders[o].qty \in Int /\ orders[o] \in OrderRec
        /\ orders[o].value >= orders[o].filled * F
   <2>1. orders[o].filled \in 1..orders[o].qty - 1 BY <1>1 DEF FilledIffReached
   <2>2. /\ orders[o].filled \in Nat /\ orders[o].value \in Int /\ orders[o].qty \in Int
         /\ orders[o] \in OrderRec
     BY <1>1, OrderFields
   <2> QED BY <2>1, <2>2 DEF CashInv, F
  <1>5. PICK x \in Int : x >= F /\ calls' = [calls EXCEPT ![c] = Attempt(o, x, 1)]
   <2>1. PICK x \in {market.prices[orders[o].sym], orders[o].value \div orders[o].filled} :
            calls' = [calls EXCEPT ![c] = Attempt(o, x, 1)]
     BY DEF ContinueOrder
   <2>2. CASE x = market.prices[orders[o].sym]
    <3>1. x \in Prices BY <1>4, <2>2 DEF TypeInv, OrderRec
    <3>2. x \in Int /\ x >= F BY <1>2, <1>3, <3>1
    <3> QED BY <2>1, <3>2
   <2>3. CASE x = orders[o].value \div orders[o].filled
    <3> DEFINE v == orders[o].value
               n == orders[o].filled
    <3>1. v \in Int /\ n \in Nat \ {0} /\ v >= n * F /\ x = v \div n BY <1>4, <2>3
    <3> HIDE DEF v, n
    <3>2. x \in Int /\ v < n * x + n BY <3>1
    <3>3. CASE x >= F BY <2>1, <3>2, <3>3
    <3>4. CASE ~(x >= F)
     <4>1. x + 1 <= F /\ x + 1 \in Int BY <1>3, <3>2, <3>4
     <4>2. n * (x + 1) <= n * F /\ n * F \in Int BY <1>3, <3>1, <4>1, ProductGrows
     <4>3. n * (x + 1) = n * x + n /\ n * x \in Int BY <3>1, <3>2
     <4> QED BY <3>1, <3>2, <4>2, <4>3
    <3> QED BY <3>3, <3>4
   <2> QED BY <2>1, <2>2, <2>3
  <1>6. ASSUME NEW d \in Calls, calls'[d].st # "idle"
        PROVE  /\ calls'[d].price >= G + Slip
               /\ calls'[d].cost <= CostOf(orders'[calls'[d].ord].qty)
   <2>1. CASE calls'[d] = calls[d]
    <3>1. calls[d].price >= F + Slip /\ calls[d].price \in Int
      BY <1>6, <2>1, CallFields DEF CashInv, F
    <3> QED BY <1>1, <1>2, <1>3, <1>6, <2>1, <3>1 DEF CashInv
   <2>2. CASE calls'[d] = Attempt(o, x, 1)
    <3>1. Remaining(o) \in Int /\ Remaining(o) <= orders[o].qty BY <1>4 DEF Remaining
    <3>2. CostOf(Remaining(o)) <= CostOf(orders[o].qty) BY <1>4, <3>1, CostGrows
    <3> QED BY <1>1, <1>3, <1>5, <2>2, <3>2 DEF Attempt
   <2> QED BY <1>1, <1>5, <2>1, <2>2
  <1>7. ASSUME NEW p \in OrderIds
        PROVE  orders'[p].value >= orders'[p].filled * G
   <2>1. /\ orders[p].value \in Int /\ orders[p].filled \in Nat
         /\ orders[p].value >= orders[p].filled * F
     BY OrderFields DEF CashInv, F
   <2>2. /\ orders[p].filled * G <= orders[p].filled * F
         /\ orders[p].filled * G \in Int /\ orders[p].filled * F \in Int
     BY <1>3, <2>1, ProductGrows
   <2> QED BY <1>1, <2>1, <2>2
  <1> QED BY <1>1, <1>2, <1>6, <1>7 DEF CashInv, G

(* Every step keeps the floor on the cash. *)
LEMMA CashSteps ==
    ASSUME NEW low, ProceedsCoverCosts(low), SignalInv, CashInv(low), [Next]_vars
    PROVE  CashInv(low)'
  <1>1. ASSUME NEW c \in Calls, NEW o \in OrderIds, NEW sig \in Signals, ProcessSignal(c, o, sig)
        PROVE  CashInv(low)'
    BY <1>1, SignalKeepsCash
  <1>2. ASSUME NEW c \in Calls, Working(c), Answer(c)
        PROVE  CashInv(low)'
    BY <1>2, AnswerKeepsCash
  <1>3. ASSUME NEW c \in Calls, Publish(c) \/ PublishRaises(c)
        PROVE  CashInv(low)'
    BY <1>3, PublishKeepsCash
  <1>4. ASSUME NEW c \in Calls, NEW o \in OrderIds, ContinueOrder(c, o)
        PROVE  CashInv(low)'
    BY <1>4, ContinueKeepsCash
  <1>5. CASE \/ \E prices \in [Symbols -> Prices] : Tick(prices)
             \/ Connect \/ Disconnect \/ ResetDailyCounters \/ ResetCircuitBreaker
             \/ UNCHANGED vars
   <2>1. UNCHANGED <<orders, calls>>
     BY <1>5 DEF Tick, Connect, Disconnect, ResetDailyCounters, ResetCircuitBreaker, vars
   <2>2. history'.continues = history.continues
     BY <1>5 DEF Tick, Connect, Disconnect, ResetDailyCounters, ResetCircuitBreaker, vars,
                 SignalInv, TypeInv, HistoryRec
   <2>3. book'.cash = book.cash
    <3>1. CASE \E prices \in [Symbols -> Prices] : Tick(prices)
     <4> PICK prices \in [Symbols -> Prices] : Tick(prices)
       BY <3>1
     <4>1. prices \in [Symbols -> Int] BY SignalPathAssumption
     <4>2. AfterMarking(book, UpdatePrices(book, prices)) BY <4>1, MarkKeeps DEF SignalInv, TypeInv
     <4> QED BY <4>2 DEF Tick, AfterMarking
    <3>2. CASE ~(\E prices \in [Symbols -> Prices] : Tick(prices))
      BY <1>5, <3>2 DEF Connect, Disconnect, ResetDailyCounters, ResetCircuitBreaker, vars
    <3> QED BY <3>1, <3>2
   <2> QED BY <2>1, <2>2, <2>3 DEF CashInv
  <1> QED BY <1>1, <1>2, <1>3, <1>4, <1>5 DEF Next

(* The floor on the cash holds at the start. *)
LEMMA CashStarts ==
    ASSUME NEW low, ProceedsCoverCosts(low), Init
    PROVE  CashInv(low)
  <1>1. /\ book.cash = InitialCash /\ InitialCash \in Nat /\ history.continues = 0
        /\ MaxContinues \in Nat /\ low \in Nat
    BY BookAssumption, SignalPathAssumption DEF Init, EmptyBook, ProceedsCoverCosts
  <1>2. \A c \in Calls : calls[c].st = "idle" BY DEF Init, Idle
  <1>3. \A o \in OrderIds : orders[o].value = 0 /\ orders[o].filled = 0 BY DEF Init, NoOrder
  <1>4. Floor(low, 0) \in Int BY <1>1, FloorType
  <1>5. 0 * Floor(low, 0) = 0 BY <1>4
  <1> QED BY <1>1, <1>2, <1>3, <1>5 DEF CashInv

\* Cash that a call was validated against is not spent twice while it waits: the book is
\* never overdrawn, nor the daily allowance exceeded, by any number of calls between their
\* check and their fill (check_order, _reconcile_fill).
THEOREM ChecksHold ==
    ASSUME NEW low, ProceedsCoverCosts(low)
    PROVE  Spec => []ChecksOutliveAwaits
  <1>1. Init => CashInv(low) BY CashStarts
  <1>2. SignalInv /\ CashInv(low) /\ [Next]_vars => CashInv(low)' BY CashSteps
  <1>3. CashInv(low) /\ DailyLimitHolds => ChecksOutliveAwaits
    BY DEF CashInv, ChecksOutliveAwaits, CashNotOverdrawn
  <1> QED BY <1>1, <1>2, <1>3, SignalAlways, DailyLimit, PTL DEF Spec

----------------------------------------
(* Open positions.  With one call at a time what the check saw is still there *)
(* when the fill is booked.                                                   *)

\* The runners' loop: one task is in the OrderManager.
OneCallAtATime == \A c, d \in Calls : c = d

RoomFor(o) == orders[o].side = "BUY" =>
                 orders[o].sym \in Held(book) \/ Cardinality(Held(book)) < MaxOpenPositions

OpenInv ==
    history.continues = 0 =>
        /\ Cardinality(Held(book)) <= MaxOpenPositions
        /\ \A c \in Calls : calls[c].st # "idle" =>
              /\ calls[c].kind = "signal"
              /\ Working(c) => RoomFor(calls[c].ord)

(* Finitely many symbols are held. *)
LEMMA HeldFinite ==
    ASSUME NEW b
    PROVE  /\ IsFiniteSet(Held(b)) /\ Cardinality(Held(b)) \in Nat
           /\ \A H : H \subseteq Held(b) =>
                 IsFiniteSet(H) /\ Cardinality(H) \in Nat /\ Cardinality(H) <= Cardinality(Held(b))
  <1>1. Held(b) \subseteq Symbols BY DEF Held
  <1>2. IsFiniteSet(Held(b)) /\ Cardinality(Held(b)) \in Nat
    BY <1>1, FS_Subset, FS_CardinalityType, BookAssumption
  <1> QED BY <1>2, FS_Subset, FS_CardinalityType

(* Open positions keep within the limit when a step opens none. *)
LEMMA OpenStays ==
    ASSUME SignalInv, OpenInv, history'.continues = history.continues,
           Held(book') = Held(book),
           \A c \in Calls : \/ calls'[c].st = "idle"
                            \/ /\ calls[c].st # "idle" /\ calls'[c].kind = calls[c].kind
                               /\ calls'[c].st = "executing" => calls[c].st = "executing"
                               /\ calls'[c].ord = calls[c].ord,
           \A o \in OrderIds : orders[o] \in OrderRec =>
               orders'[o].side = orders[o].side /\ orders'[o].sym = orders[o].sym
    PROVE  OpenInv'
  <1> SUFFICES ASSUME history.continues = 0
               PROVE  /\ Cardinality(Held(book')) <= MaxOpenPositions
                      /\ \A c \in Calls : calls'[c].st # "idle" =>
                            /\ calls'[c].kind = "signal"
                            /\ calls'[c].st = "executing" => RoomFor(calls[c].ord)'
    BY DEF OpenInv, Working, RoomFor
  <1> QED BY DEF OpenInv, Working, RoomFor, SignalInv, CallInv

(* The counter of continuations, which no step but ContinueOrder moves. *)
LEMMA ContinuesStay ==
    ASSUME SignalInv, Next \/ UNCHANGED vars
    PROVE  \/ history'.continues = history.continues
           \/ /\ history'.continues = history.continues + 1
              /\ history.continues \in Nat
              /\ \E c \in Calls, o \in OrderIds : ContinueOrder(c, o)
  <1> USE DEF SignalInv
  <1>1. history \in HistoryRec /\ history.continues \in Nat BY HistoryFields DEF TypeInv
  <1>2. CASE \E c \in Calls, o \in OrderIds : ContinueOrder(c, o)
    BY <1>1, <1>2 DEF ContinueOrder, HistoryRec
  <1>3. ASSUME NEW c \in Calls, NEW o \in OrderIds, NEW sig \in Signals, ProcessSignal(c, o, sig)
        PROVE  history'.continues = history.continues
   <2>1. \/ history' = history \/ history' = [history EXCEPT !.halted = TRUE]
         \/ history' = [history EXCEPT !.session[o] = history.resets]
     BY <1>3 DEF ProcessSignal, RejectInvalid, RejectCost, RejectLimits, TripBreaker,
                 FailNoBackend, Submit, Approve
   <2> QED BY <1>1, <2>1, HistoryApproves DEF HistoryRec, Approves
  <1>4. ASSUME NEW c \in Calls, Working(c), Answer(c)
        PROVE  history'.continues = history.continues
   <2>1. PICK o, n : history' = history \/ history' = [history EXCEPT !.booked[o] = @ + n]
     BY <1>4 DEF Answer, FillFails, FillBooks, FillRaises
   <2> QED BY <1>1, <2>1 DEF HistoryRec
  <1>5. ASSUME NEW c \in Calls, Publish(c) \/ PublishRaises(c)
        PROVE  history'.continues = history.continues
    BY <1>1, <1>5 DEF Publish, PublishRaises, Announced, HistoryRec
  <1>6. ASSUME \/ \E prices \in [Symbols -> Prices] : Tick(prices)
               \/ Connect \/ Disconnect \/ ResetDailyCounters \/ ResetCircuitBreaker
               \/ UNCHANGED vars
        PROVE  history'.continues = history.continues
    BY <1>1, <1>6
       DEF Tick, Connect, Disconnect, ResetDailyCounters, ResetCircuitBreaker, HistoryRec, vars
  <1> QED BY <1>2, <1>3, <1>4, <1>5, <1>6 DEF Next

(* A signal is approved only when the limit leaves room for its symbol. *)
LEMMA SignalKeepsOpen ==
    ASSUME SignalInv, OpenInv, history'.continues = history.continues,
           NEW c \in Calls, NEW o \in OrderIds, NEW sig \in Signals, ProcessSignal(c, o, sig)
    PROVE  OpenInv'
  <1> USE DEF SignalInv
  <1>1. PICK status \in Statuses \ {"PARTIALLY_FILLED", "FILLED"} :
           NewOrder(c, o) /\ Record(o, sig, status)
    BY DEF ProcessSignal, RejectInvalid, RejectCost, RejectLimits, TripBreaker, FailNoBackend,
           Submit, Costed, RiskPassed, Statuses
  <1> DEFINE r == Made(sig, status)
  <1>2. /\ Placed(o, r) /\ r.sym = sig.sym /\ r.side = sig.side
        /\ orders \in [OrderIds -> OrderRec \cup {NoOrder}]
    BY <1>1, RecordPlaces DEF TypeInv
  <1> HIDE DEF r
  <1>3. /\ orders'[o] = r /\ orders[o] \notin OrderRec
        /\ \A p \in OrderIds : p # o => orders'[p] = orders[p]
   <2>1. NoOrder.status = "NONE" BY DEF NoOrder
   <2> QED BY <1>2, <2>1 DEF Placed, OrderRec, Statuses
  <1>4. UNCHANGED book
    BY DEF ProcessSignal, RejectInvalid, RejectCost, RejectLimits, TripBreaker, FailNoBackend,
           Submit
  <1>5. CASE Submit(c, o, sig)
   <2> DEFINE call == [st |-> "executing", kind |-> "signal", ord |-> o,
                       price |-> market.prices[sig.sym], cost |-> CostOf(Quantity(sig)),
                       tries |-> 1]
   <2>1. calls \in [Calls -> CallRec] /\ calls' = [calls EXCEPT ![c] = call]
     BY <1>5 DEF Submit, TypeInv
   <2>2. call.kind = "signal" /\ call.ord = o OBVIOUS
   <2> HIDE DEF call
   <2>3. r.side = "BUY" => r.sym \in Held(book) \/ Cardinality(Held(book)) < MaxOpenPositions
    <3>1. ~TooManyPositions(sig) BY <1>5 DEF Submit, LimitBreached
    <3>2. Cardinality(Held(book)) \in Nat /\ MaxOpenPositions \in Nat
      BY HeldFinite, SignalPathAssumption
    <3> QED BY <1>2, <3>1, <3>2 DEF TooManyPositions
   <2>4. ASSUME history.continues = 0, NEW d \in Calls, calls'[d].st # "idle"
         PROVE  /\ calls'[d].kind = "signal"
                /\ calls'[d].st = "executing" => RoomFor(calls[d].ord)'
    <3>1. CASE d = c BY <1>3, <1>4, <2>1, <2>2, <2>3, <3>1 DEF RoomFor
    <3>2. CASE d # c BY <1>3, <1>4, <2>1, <2>4, <3>2 DEF RoomFor, OpenInv, Working, CallInv
    <3> QED BY <3>1, <3>2
   <2> QED BY <1>4, <2>4 DEF OpenInv, Working
  <1>6. CASE ~Submit(c, o, sig)
   <2>1. UNCHANGED calls
     BY <1>6 DEF ProcessSignal, RejectInvalid, RejectCost, RejectLimits, TripBreaker, FailNoBackend
   <2> QED BY <1>3, <1>4, <2>1, OpenStays
  <1> QED BY <1>5, <1>6

(* What a booked fill does to the set of held symbols. *)
LEMMA FillHolds ==
    ASSUME SignalInv, NEW c \in Calls, NEW n, NEW p, FillBooks(c, n, p),
           NEW o \in OrderIds, o = calls[c].ord
    PROVE  /\ Held(book') \subseteq Held(book) \cup {orders[o].sym}
           /\ orders[o].side # "BUY" => Held(book') \subseteq Held(book)
  <1> USE DEF SignalInv
  <1> DEFINE s == orders[o].sym
             cost == calls[c].cost
  <1>1. /\ orders[o] \in OrderRec /\ n \in Shares /\ p \in Int /\ n \in Nat
        /\ cost \in Int /\ market.day \in Int /\ BookType(book) /\ LotsMatch(book)
        /\ PortfolioTakes(orders[o], n, p, cost) /\ book' = Booked(orders[o], n, p, cost)
   <2>1. /\ orders[o] \in OrderRec /\ Working(c)
         /\ n \in FillQuantities(orders[calls[c].ord].qty) /\ p \in FillPrices(c)
         /\ PortfolioTakes(orders[o], n, p, cost) /\ book' = Booked(orders[o], n, p, cost)
     BY DEF FillBooks, Working, CallInv
   <2>2. n \in Shares /\ p \in Int /\ n \in Nat BY <2>1, FillAmounts
   <2>3. cost \in Int BY CallFields
   <2>4. market.day \in Int /\ BookType(book) /\ LotsMatch(book) BY DEF TypeInv
   <2> QED BY <2>1, <2>2, <2>3, <2>4
  <1>2. s \in Symbols BY <1>1 DEF OrderRec
  <1>3. book.pos[s].qty \in Nat BY <1>1, <1>2, BookFields
  <1> HIDE DEF cost
  <1>4. CASE orders[o].side = "BUY"
   <2> DEFINE b == OpenPosition(book, s, n, p, cost, market.day)
   <2>1. book' = b BY <1>1, <1>4 DEF Booked
   <2>2. AfterPurchase(book, b, s, n, n * p + cost, AdjustedPrice(book, s, n, p, market.day))
     BY <1>1, <1>2, OpenKeeps
   <2> HIDE DEF b
   <2>3. \A t \in Symbols \ {s} : book'.pos[t] = book.pos[t] BY <2>1, <2>2 DEF AfterPurchase
   <2> QED BY <1>4, <2>3 DEF Held
  <1>5. CASE orders[o].side # "BUY"
   <2> DEFINE b == ClosePosition(book, s, "FIFO", n, p, cost, market.day)
   <2>1. book' = b /\ CanClose(book, s, n) BY <1>1, <1>5 DEF Booked, PortfolioTakes
   <2>2. AfterSale(book, b, s, n, n * p - cost) BY <1>1, <1>2, <2>1, CloseKeeps
   <2> HIDE DEF b
   <2>3. /\ \A t \in Symbols \ {s} : book'.pos[t] = book.pos[t]
         /\ book'.pos[s].qty = book.pos[s].qty - n /\ book.pos[s].qty > 0
     BY <2>1, <2>2 DEF AfterSale, CanClose
   <2>4. Held(book') \subseteq Held(book) BY <1>2, <2>3 DEF Held
   <2> QED BY <2>4
  <1> QED BY <1>4, <1>5

(* A fill opens the position its call was approved for. *)
LEMMA AnswerKeepsOpen ==
    ASSUME OneCallAtATime, SignalInv, OpenInv, history'.continues = history.continues,
           NEW c \in Calls, Working(c), Answer(c)
    PROVE  OpenInv'
  <1> USE DEF SignalInv
  <1>1. /\ calls \in [Calls -> CallRec] /\ calls[c].ord \in OrderIds
        /\ orders[calls[c].ord] \in OrderRec /\ calls[c] \in CallRec /\ calls[c].st = "executing"
        /\ Idle.st = "idle" /\ orders \in [OrderIds -> OrderRec \cup {NoOrder}]
    BY CallFields DEF TypeInv, CallInv, Working
  <1>2. CASE FillFails(c) \/ \E n \in FillQuantities(orders[calls[c].ord].qty), p \in FillPrices(c) :
                                 FillRaises(c, n, p)
   <2>1. UNCHANGED book /\ calls' = [calls EXCEPT ![c] = Idle] BY <1>2 DEF FillFails, FillRaises
   <2>2. \A d \in Calls : calls'[d] = calls[d] \/ calls'[d].st = "idle" BY <1>1, <2>1
   <2>3. \A o \in OrderIds : orders'[o].side = orders[o].side /\ orders'[o].sym = orders[o].sym
    <3>1. CASE FillFails(c)
     <4> DEFINE r == [orders[calls[c].ord] EXCEPT !.status = "FAILED"]
     <4>1. orders' = [orders EXCEPT ![calls[c].ord] = r] BY <3>1 DEF FillFails
     <4>2. r.side = orders[calls[c].ord].side /\ r.sym = orders[calls[c].ord].sym
       BY <1>1 DEF OrderRec
     <4> HIDE DEF r
     <4> QED BY <1>1, <4>1, <4>2
    <3>2. ASSUME NEW n \in FillQuantities(orders[calls[c].ord].qty), NEW p \in FillPrices(c),
                 FillRaises(c, n, p)
          PROVE  \A o \in OrderIds : orders'[o].side = orders[o].side /\ orders'[o].sym = orders[o].sym
     <4>1. orders' = [orders EXCEPT ![calls[c].ord] = Filled(@, n, p)] BY <3>2 DEF FillRaises
     <4> QED BY <4>1, FillSteps
    <3> QED BY <1>2, <3>1, <3>2
   <2>4. \A d \in Calls :
            \/ calls'[d].st = "idle"
            \/ /\ calls[d].st # "idle" /\ calls'[d].kind = calls[d].kind
               /\ calls'[d].st = "executing" => calls[d].st = "executing"
               /\ calls'[d].ord = calls[d].ord
     BY <2>2
   <2> QED BY <2>1, <2>3, <2>4, OpenStays
  <1>3. ASSUME NEW n \in FillQuantities(orders[calls[c].ord].qty), NEW p \in FillPrices(c),
               FillBooks(c, n, p)
        PROVE  OpenInv'
   <2> SUFFICES ASSUME history.continues = 0
                PROVE  /\ Cardinality(Held(book')) <= MaxOpenPositions
                       /\ \A d \in Calls : calls'[d].kind = "signal" /\ calls'[d].st # "executing"
     BY DEF OpenInv, Working
   <2>1. PICK o \in OrderIds : o = calls[c].ord
     BY <1>1
   <2>2. RoomFor(o) /\ calls[c].kind = "signal" /\ Cardinality(Held(book)) <= MaxOpenPositions
     BY <1>1, <2>1 DEF OpenInv
   <2> DEFINE r == [calls[c] EXCEPT !.st = "publishing"]
   <2>3. calls' = [calls EXCEPT ![c] = r] BY <1>3 DEF FillBooks
   <2>4. r.st = "publishing" /\ r.kind = "signal" BY <1>1, <2>2 DEF CallRec
   <2> HIDE DEF r
   <2>5. \A d \in Calls : calls'[d] = r BY <1>1, <2>3 DEF OneCallAtATime
   <2>6. /\ Held(book') \subseteq Held(book) \cup {orders[o].sym}
         /\ orders[o].side # "BUY" => Held(book') \subseteq Held(book)
     BY <1>3, <2>1, FillHolds
   <2>7. /\ IsFiniteSet(Held(book)) /\ Cardinality(Held(book)) \in Nat
         /\ IsFiniteSet(Held(book')) /\ Cardinality(Held(book')) \in Nat
     BY HeldFinite
   <2>8. CASE Held(book') \subseteq Held(book)
    <3>1. Cardinality(Held(book')) <= Cardinality(Held(book)) BY <2>8, HeldFinite
    <3> QED BY <2>2, <2>4, <2>5, <2>7, <3>1, SignalPathAssumption
   <2>9. CASE ~(Held(book') \subseteq Held(book))
    <3>1. Cardinality(Held(book)) < MaxOpenPositions BY <2>2, <2>6, <2>9 DEF RoomFor
    <3> DEFINE H == Held(book) \cup {orders[o].sym}
    <3>2. IsFiniteSet(H) /\ Cardinality(H) <= Cardinality(Held(book)) + 1 /\ Cardinality(H) \in Nat
     <4>1. IsFiniteSet(H) /\ Cardinality(H) = IF orders[o].sym \in Held(book)
                                               THEN Cardinality(Held(book))
                                               ELSE Cardinality(Held(book)) + 1
       BY <2>7, FS_AddElement
     <4>2. Cardinality(H) \in Nat BY <4>1, FS_CardinalityType
     <4> QED BY <2>7, <4>1, <4>2
    <3>3. Cardinality(Held(book')) <= Cardinality(H) BY <2>6, <3>2, FS_Subset
    <3> HIDE DEF H
    <3> QED BY <2>4, <2>5, <2>7, <3>1, <3>2, <3>3, SignalPathAssumption
   <2> QED BY <2>8, <2>9
  <1> QED BY <1>2, <1>3 DEF Answer

(* Publishing opens no position. *)
LEMMA PublishKeepsOpen ==
    ASSUME SignalInv, OpenInv, history'.continues = history.continues,
           NEW c \in Calls, Publish(c) \/ PublishRaises(c)
    PROVE  OpenInv'
  <1> USE DEF SignalInv
  <1> SUFFICES ASSUME history.continues = 0 PROVE OpenInv'
    BY DEF OpenInv
  <1>1. calls \in [Calls -> CallRec] /\ calls[c].st # "idle" /\ Idle.st = "idle"
    BY CallFields DEF TypeInv, Publish, PublishRaises
  <1>2. ~MoreToFill(c) BY <1>1 DEF OpenInv, MoreToFill
  <1>3. UNCHANGED <<orders, book>> /\ calls' = [calls EXCEPT ![c] = Idle]
    BY <1>2 DEF Publish, PublishRaises, AfterPublish
  <1>4. \A d \in Calls : calls'[d] = calls[d] \/ calls'[d].st = "idle" BY <1>1, <1>3
  <1>5. \A d \in Calls :
           \/ calls'[d].st = "idle"
           \/ /\ calls[d].st # "idle" /\ calls'[d].kind = calls[d].kind
              /\ calls'[d].st = "executing" => calls[d].st = "executing"
              /\ calls'[d].ord = calls[d].ord
    BY <1>4
  <1> QED BY <1>3, <1>5, OpenStays

\* One signal at a time: an order is filled or given up before the next is checked, so
\* the open positions stay within max_open_positions (RiskEngine.check_order, and the
\* runners' loop that awaits each process_signal).
THEOREM PositionLimit ==
    ASSUME OneCallAtATime
    PROVE  Spec => []OpenPositionsWithinLimit
  <1>1. Init => OpenInv
   <2> SUFFICES ASSUME Init PROVE OpenInv
     OBVIOUS
   <2>1. Held(book) = {} BY DEF Init, EmptyBook, NoPosition, Held
   <2>2. \A c \in Calls : calls[c].st = "idle" BY DEF Init, Idle
   <2> QED BY <2>1, <2>2, FS_EmptySet, SignalPathAssumption DEF OpenInv
  <1>2. SignalInv /\ OpenInv /\ [Next]_vars => OpenInv'
   <2> SUFFICES ASSUME SignalInv, OpenInv, [Next]_vars, history'.continues = history.continues
                PROVE  OpenInv'
    <3>1. ASSUME SignalInv, [Next]_vars, history'.continues # history.continues
          PROVE  OpenInv'
     <4>1. history'.continues = history.continues + 1 /\ history.continues \in Nat
       BY <3>1, ContinuesStay
     <4>2. history'.continues # 0 BY <4>1
     <4> QED BY <4>2 DEF OpenInv
    <3> QED BY <3>1
   <2>1. ASSUME NEW c \in Calls, NEW o \in OrderIds, NEW sig \in Signals, ProcessSignal(c, o, sig)
         PROVE  OpenInv'
     BY <2>1, SignalKeepsOpen
   <2>2. ASSUME NEW c \in Calls, Working(c), Answer(c)
         PROVE  OpenInv'
     BY <2>2, AnswerKeepsOpen
   <2>3. ASSUME NEW c \in Calls, Publish(c) \/ PublishRaises(c)
         PROVE  OpenInv'
     BY <2>3, PublishKeepsOpen
   <2>4. ASSUME NEW c \in Calls, NEW o \in OrderIds, ContinueOrder(c, o)
         PROVE  OpenInv'
    <3>1. history \in HistoryRec /\ history.continues \in Nat
      BY HistoryFields DEF SignalInv, TypeInv
    <3>2. history'.continues = history.continues + 1 BY <2>4, <3>1 DEF ContinueOrder, HistoryRec
    <3> QED BY <3>1, <3>2
   <2>5. CASE \/ \E prices \in [Symbols -> Prices] : Tick(prices)
              \/ Connect \/ Disconnect \/ ResetDailyCounters \/ ResetCircuitBreaker
              \/ UNCHANGED vars
    <3>1. UNCHANGED <<orders, calls>>
      BY <2>5 DEF Tick, Connect, Disconnect, ResetDailyCounters, ResetCircuitBreaker, vars
    <3>2. Held(book') = Held(book)
     <4>1. CASE \E prices \in [Symbols -> Prices] : Tick(prices)
      <5> PICK prices \in [Symbols -> Prices] : Tick(prices)
        BY <4>1
      <5>1. prices \in [Symbols -> Int] BY SignalPathAssumption
      <5>2. AfterMarking(book, UpdatePrices(book, prices)) BY <5>1, MarkKeeps DEF SignalInv, TypeInv
      <5>3. \A s \in Symbols : book'.pos[s].qty = book.pos[s].qty BY <5>2 DEF Tick, AfterMarking
      <5> QED BY <5>3 DEF Held
     <4>2. CASE ~(\E prices \in [Symbols -> Prices] : Tick(prices))
       BY <2>5, <4>2 DEF Connect, Disconnect, ResetDailyCounters, ResetCircuitBreaker, vars
     <4> QED BY <4>1, <4>2
    <3>3. \A c \in Calls :
             \/ calls'[c].st = "idle"
             \/ /\ calls[c].st # "idle" /\ calls'[c].kind = calls[c].kind
                /\ calls'[c].st = "executing" => calls[c].st = "executing"
                /\ calls'[c].ord = calls[c].ord
      BY <3>1
    <3> QED BY <3>1, <3>2, <3>3, OpenStays
   <2> QED BY <2>1, <2>2, <2>3, <2>4, <2>5 DEF Next
  <1>3. OpenInv => OpenPositionsWithinLimit BY DEF OpenInv, OpenPositionsWithinLimit
  <1> QED BY <1>1, <1>2, <1>3, SignalAlways, PTL DEF Spec
=============================================================================
