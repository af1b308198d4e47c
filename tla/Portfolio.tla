------------------------------ MODULE Portfolio ------------------------------
(***************************************************************************)
(* The portfolio of src/engine/core/portfolio.py on its own: any caller    *)
(* buys, sells, marks prices and changes the tax method, on dates that do  *)
(* not go back.  An operation that would raise ValueError is not enabled:  *)
(* it changes nothing.                                                     *)
(***************************************************************************)
EXTENDS Book

CONSTANTS Prices,      \* prices a share trades at
          Quantities,  \* shares of one trade
          Cost,        \* cost charged on a trade
          MaxDay,      \* bound: last date
          MaxTrades    \* bound: trades of a behaviour

ASSUME PortfolioAssumption ==
    /\ Prices \subseteq Nat \ {0} /\ Quantities \subseteq Nat \ {0}
    /\ Cost \in Nat /\ MaxDay \in Nat /\ MaxTrades \in Nat

VARIABLES book,     \* the portfolio
          method,   \* tax_method
          day,      \* transaction_date
          trades   \* trade_history as totals: shares and money, in and out

pfVars == <<book, method, day, trades>>

PortfolioInit ==
    /\ book = EmptyBook
    /\ method = "FIFO"
    /\ day = 0
    /\ trades = [count |-> 0, paid |-> 0, received |-> 0, basis |-> 0]

Buy(s, n, p) ==
    /\ trades.count < MaxTrades
    /\ CanOpen(book, n, p, Cost)
    /\ book' = OpenPosition(book, s, n, p, Cost, day)
    /\ trades' = [trades EXCEPT !.count = @ + 1, !.paid = @ + n * p + Cost,
                                !.basis = @ + n * AdjustedPrice(book, s, n, p, day)]
    /\ UNCHANGED <<method, day>>

Sell(s, n, p) ==
    /\ trades.count < MaxTrades
    /\ CanClose(book, s, n)
    /\ book' = ClosePosition(book, s, method, n, p, Cost, day)
    /\ trades' = [trades EXCEPT !.count = @ + 1, !.received = @ + n * p - Cost]
    /\ UNCHANGED <<method, day>>

MarkPrices(p) ==
    /\ book' = UpdatePrices(book, [s \in Symbols |-> p])
    /\ UNCHANGED <<method, day, trades>>

SetTaxMethod(m) ==
    /\ method' = m
    /\ UNCHANGED <<book, day, trades>>

NextDay ==
    /\ day < MaxDay
    /\ day' = day + 1
    /\ UNCHANGED <<book, method, trades>>

PortfolioNext ==
    \/ \E s \in Symbols, n \in Quantities, p \in Prices : Buy(s, n, p) \/ Sell(s, n, p)
    \/ \E p \in Prices : MarkPrices(p)
    \/ \E m \in TaxMethod : SetTaxMethod(m)
    \/ NextDay

----------------------------------------
(* Properties *)

\* The lots of a symbol add up to its position and none is empty, whatever the
\* order of partial sells and tax methods: so the "Tax lots insufficient" error
\* of _consume_lots, raised after lots were already changed, cannot happen.
LotsMatchPosition ==
    \A s \in Symbols :
        /\ LotShares(book.lots[s]) = book.pos[s].qty
        /\ \A i \in DOMAIN book.lots[s] : book.lots[s][i].qty > 0

\* Cash is what the recorded trades leave of the initial cash, and no purchase
\* overdraws it.
CashFollowsTrades ==
    /\ book.cash = InitialCash - trades.paid + trades.received
    /\ book.cash >= 0

\* Realized profit is the money received less the basis of the lots that are
\* gone: no share's basis is consumed twice or lost by close_position.
ProfitMatchesBasis ==
    book.pnl = trades.received
                 - (trades.basis - SumOver([s \in Symbols |-> LotBasis(book.lots[s])]))

\* The shares bought on date d that are still held.
DateShares(lots, d) ==
    SumOver([i \in DOMAIN lots |-> IF lots[i].date = d THEN lots[i].qty ELSE 0])

\* A FIFO sale leaves no lot older than one it took shares from, and a LIFO
\* sale none younger (_consume_lots).
SalesFollowMethod ==
    [][\A s \in Symbols :
          book'.pos[s].qty < book.pos[s].qty =>
            \A i \in DOMAIN book.lots[s], j \in DOMAIN book'.lots[s] :
               LET old == book.lots[s][i]
                   l   == book'.lots[s][j]
                   before == DateShares(book.lots[s], old.date)
                   after  == DateShares(book'.lots[s], old.date)
               IN  after < before =>
                     /\ method = "FIFO" => l.date >= old.date
                     /\ method = "LIFO" => l.date <= old.date]_pfVars
=============================================================================
