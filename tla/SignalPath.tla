----------------------------- MODULE SignalPath -----------------------------
(***************************************************************************)
(* The signal path of backtest and paper trading: OrderManager             *)
(* (src/engine/core/order_manager.py) with the RiskEngine, the cost model, *)
(* an execution backend and the portfolio of module Book.                  *)
(*                                                                         *)
(* A call is a running process_signal or continue_order.  It runs without  *)
(* interruption up to its awaits: the backend's execute (the paper backend *)
(* sleeps there) and the publication of the fill.  Between the two awaits  *)
(* validation, risk and booking may see different portfolios.  With one    *)
(* element in Calls the model is the runners' loop, which awaits each      *)
(* signal before the next; with more it is an OrderManager shared by       *)
(* several tasks.                                                          *)
(***************************************************************************)
EXTENDS Book, FiniteSets

CONSTANTS Calls,          \* tasks that may be inside the OrderManager at once
          MaxOrders,      \* bound: orders of a behaviour
          Signals,        \* signals a strategy emits: [sym, side, qty, maxCost]
          Weight,         \* Signal.weight in percent, used when qty is 0
          Prices,         \* market prices
          Commission, ShareCost,   \* DefaultCostModel: per order and per share
          Slip,           \* slippage per share of a fill
          PartialAbove,   \* partial fills happen above this quantity
          MinRatio,       \* least fill ratio in percent
          MaxOpenPositions, MaxPositionPct, MaxOrderValue, MaxDailyTrades,
          DrawdownPct,    \* RiskEngine limits, percentages as integers
          MaxRetries,     \* continue_order's max_retries
          MaxContinues,   \* bound: calls of continue_order
          MaxResets,      \* bound: resets of the risk engine
          MaxDay          \* bound: trading days

ASSUME SignalPathAssumption ==
    /\ IsFiniteSet(Calls)
    /\ MaxOrders \in Nat /\ MaxRetries \in Nat /\ MaxDailyTrades \in Nat
    /\ MaxOpenPositions \in Nat /\ MaxContinues \in Nat /\ MaxDay \in Nat
    /\ Weight \in Nat /\ Commission \in Nat /\ ShareCost \in Nat /\ Slip \in Nat
    /\ PartialAbove \in Nat /\ DrawdownPct \in Nat \ {0} /\ MinRatio \in 0..100
    /\ Signals \subseteq [sym : Symbols, side : {"BUY", "SELL"}, qty : Int, maxCost : Int]
    /\ \A p \in Prices : p \in Nat /\ p > Slip + ShareCost + Commission

OrderIds == 1..MaxOrders

VARIABLES orders,     \* the Order objects
          calls,      \* what each task is doing
          completed,  \* completed_orders
          book,       \* the portfolio
          risk,       \* RiskEngine: breaker latch and daily counter
          backend,    \* wired into the OrderManager?  connected?
          market,     \* [prices, day]
          history     \* history for the properties and the bounds

vars == <<orders, calls, completed, book, risk, backend, market, history>>

NoOrder == [sym |-> "", side |-> "", qty |-> 0, status |-> "NONE",
            filled |-> 0, value |-> 0, fills |-> 0]
Idle == [st |-> "idle", kind |-> "", ord |-> 0, price |-> 0, cost |-> 0, tries |-> 0]

Working(c) == calls[c].st = "executing"

Init ==
    /\ orders = [o \in OrderIds |-> NoOrder]
    /\ calls = [c \in Calls |-> Idle]
    /\ completed = {}
    /\ book = EmptyBook
    /\ risk = [breaker |-> FALSE, count |-> 0]
    /\ backend = [wired |-> FALSE, connected |-> FALSE]
    /\ market \in [prices : [Symbols -> Prices], day : {0}]
    /\ history = [booked    |-> [o \in OrderIds |-> 0],   \* shares in the portfolio
                  announced |-> [o \in OrderIds |-> 0],   \* fill events published
                  session   |-> [o \in OrderIds |-> -1],  \* resets before the approval
                  halted    |-> FALSE,                    \* refused for the drawdown
                  resets    |-> 0, unlatched |-> 0, continues |-> 0]

----------------------------------------
(* Validation, cost and risk: what process_signal decides before its await. *)

\* _calculate_quantity turns a weight into whole shares.
Quantity(sig) ==
    IF sig.qty # 0 THEN sig.qty
    ELSE (book.cash * Weight) \div (100 * market.prices[sig.sym])

ValidOrder(sig) ==
    /\ Quantity(sig) > 0
    /\ sig.side = "BUY" => Quantity(sig) * market.prices[sig.sym] <= book.cash
    /\ sig.side = "SELL" => book.pos[sig.sym].qty >= Quantity(sig)

\* estimate_total of the cost model.
CostOf(n) == Commission + n * ShareCost

OrderValue(sig) == Quantity(sig) * market.prices[sig.sym]

\* Signal.max_cost_pct is None.
NoLimit == -1

TooCostly(sig) ==
    /\ sig.maxCost # NoLimit
    /\ CostOf(Quantity(sig)) * 100 > sig.maxCost * OrderValue(sig)

DrawdownReached == (InitialCash - TotalValue(book)) * 100 >= DrawdownPct * InitialCash

MutTooManyPositions(sig) ==
    /\ sig.side = "BUY" /\ sig.sym \notin Held(book)
    /\ Cardinality(Held(book)) > MaxOpenPositions

TooManyPositions(sig) ==
    /\ sig.side = "BUY" /\ sig.sym \notin Held(book)
    /\ Cardinality(Held(book)) >= MaxOpenPositions

TooConcentrated(sig) ==
    /\ sig.side = "BUY" /\ TotalValue(book) > 0
    /\ (MarketValue(book.pos[sig.sym]) + OrderValue(sig)) * 100
         > MaxPositionPct * TotalValue(book)

LimitBreached(sig) ==
    \/ TooManyPositions(sig)
    \/ TooConcentrated(sig)
    \/ OrderValue(sig) > MaxOrderValue
    \/ risk.count >= MaxDailyTrades

----------------------------------------
(* process_signal up to the await of execute.                               *)

\* The next order object, made from the signal.
Made(sig, status) ==
    [sym |-> sig.sym, side |-> sig.side, qty |-> Quantity(sig), status |-> status,
     filled |-> 0, value |-> 0, fills |-> 0]

NewOrder(c, o) ==
    /\ calls[c].st = "idle"
    /\ orders[o].status = "NONE"
    /\ \A p \in OrderIds : p < o => orders[p].status # "NONE"

Record(o, sig, status) == orders' = [orders EXCEPT ![o] = Made(sig, status)]

RejectInvalid(c, o, sig) ==
    /\ NewOrder(c, o) /\ ~ValidOrder(sig)
    /\ Record(o, sig, "REJECTED")
    /\ UNCHANGED <<calls, completed, book, risk, backend, market, history>>

RejectCost(c, o, sig) ==
    /\ NewOrder(c, o) /\ ValidOrder(sig) /\ TooCostly(sig)
    /\ Record(o, sig, "RISK_REJECTED")
    /\ UNCHANGED <<calls, completed, book, risk, backend, market, history>>

Costed(c, o, sig) == NewOrder(c, o) /\ ValidOrder(sig) /\ ~TooCostly(sig)

MutTripBreaker(c, o, sig) ==       \* refuses the order but does not latch
    /\ Costed(c, o, sig) /\ (risk.breaker \/ DrawdownReached)
    /\ Record(o, sig, "RISK_REJECTED")
    /\ history' = [history EXCEPT !.halted = TRUE]
    /\ UNCHANGED <<calls, completed, book, risk, backend, market>>

\* The breaker is latched, or latches now.
TripBreaker(c, o, sig) ==
    /\ Costed(c, o, sig) /\ (risk.breaker \/ DrawdownReached)
    /\ Record(o, sig, "RISK_REJECTED")
    /\ risk' = [risk EXCEPT !.breaker = TRUE]
    /\ history' = [history EXCEPT !.halted = TRUE]
    /\ UNCHANGED <<calls, completed, book, backend, market>>

RiskPassed(c, o, sig) == Costed(c, o, sig) /\ ~risk.breaker /\ ~DrawdownReached

RejectLimits(c, o, sig) ==
    /\ RiskPassed(c, o, sig) /\ LimitBreached(sig)
    /\ Record(o, sig, "RISK_REJECTED")
    /\ UNCHANGED <<calls, completed, book, risk, backend, market, history>>

MutApprove(o) ==                   \* the counter waits for the fill
    /\ risk' = risk
    /\ history' = [history EXCEPT !.session[o] = history.resets]

\* Approval takes one from the daily allowance, before anything is executed.
Approve(o) ==
    /\ risk' = [risk EXCEPT !.count = @ + 1]
    /\ history' = [history EXCEPT !.session[o] = history.resets]

FailNoBackend(c, o, sig) ==
    /\ RiskPassed(c, o, sig) /\ ~LimitBreached(sig) /\ ~backend.wired
    /\ Record(o, sig, "FAILED")
    /\ Approve(o)
    /\ UNCHANGED <<calls, completed, book, backend, market>>

Submit(c, o, sig) ==
    /\ RiskPassed(c, o, sig) /\ ~LimitBreached(sig) /\ backend.wired
    /\ Record(o, sig, "SUBMITTED")
    /\ Approve(o)
    /\ calls' = [calls EXCEPT ![c] =
          [st |-> "executing", kind |-> "signal", ord |-> o,
           price |-> market.prices[sig.sym], cost |-> CostOf(Quantity(sig)), tries |-> 1]]
    /\ UNCHANGED <<completed, book, backend, market>>

----------------------------------------
(* The backend answers; _reconcile_fill books the fill.                     *)

\* What a backend may fill: it looks at the quantity of the whole order.
FillQuantities(qty) ==
    IF qty <= PartialAbove THEN {qty}
    ELSE (IF qty * MinRatio < 100 THEN 1 ELSE (qty * MinRatio) \div 100) .. qty

\* The price provider's price of the moment or the one the call was given, moved by slippage.
FillPrices(c) ==
    LET o == orders[calls[c].ord] IN
    {IF o.side = "BUY" THEN p + Slip ELSE p - Slip : p \in Prices \cup {calls[c].price}}

MutFilled(o, n, p) ==              \* any fill completes the order
    [o EXCEPT !.filled = @ + n, !.value = @ + n * p, !.fills = @ + 1,
              !.status = "FILLED"]

\* Cumulative quantity, running VWAP (value / filled) and the new status.
Filled(o, n, p) ==
    [o EXCEPT !.filled = @ + n, !.value = @ + n * p, !.fills = @ + 1,
              !.status = IF o.filled + n < o.qty THEN "PARTIALLY_FILLED" ELSE "FILLED"]

PortfolioTakes(o, n, p, cost) ==
    IF o.side = "BUY" THEN CanOpen(book, n, p, cost) ELSE CanClose(book, o.sym, n)

Booked(o, n, p, cost) ==
    IF o.side = "BUY"
    THEN OpenPosition(book, o.sym, n, p, cost, market.day)
    ELSE ClosePosition(book, o.sym, "FIFO", n, p, cost, market.day)

MutFillFails(c) == Working(c) /\ UNCHANGED vars   \* tries again, for ever

\* execute fails: not connected, no price or no luck.
FillFails(c) ==
    /\ Working(c)
    /\ orders' = [orders EXCEPT ![calls[c].ord].status = "FAILED"]
    /\ completed' = completed \cup {calls[c].ord}
    /\ calls' = [calls EXCEPT ![c] = Idle]
    /\ UNCHANGED <<book, risk, backend, market, history>>

MutFillBooks(c, n, p) ==           \* logs the order only once it is published
    LET o == calls[c].ord IN
    /\ Working(c) /\ backend.connected
    /\ n \in FillQuantities(orders[o].qty) /\ p \in FillPrices(c)
    /\ PortfolioTakes(orders[o], n, p, calls[c].cost)
    /\ orders' = [orders EXCEPT ![o] = Filled(@, n, p)]
    /\ book' = Booked(orders[o], n, p, calls[c].cost)
    /\ calls' = [calls EXCEPT ![c].st = "publishing"]
    /\ history' = [history EXCEPT !.booked[o] = @ + n]
    /\ UNCHANGED <<completed, risk, backend, market>>

\* The fill is applied to the order, booked, and the order is logged.
FillBooks(c, n, p) ==
    LET o == calls[c].ord IN
    /\ Working(c) /\ backend.connected
    /\ n \in FillQuantities(orders[o].qty) /\ p \in FillPrices(c)
    /\ PortfolioTakes(orders[o], n, p, calls[c].cost)
    /\ orders' = [orders EXCEPT ![o] = Filled(@, n, p)]
    /\ book' = Booked(orders[o], n, p, calls[c].cost)
    /\ completed' = completed \cup {o}
    /\ calls' = [calls EXCEPT ![c].st = "publishing"]
    /\ history' = [history EXCEPT !.booked[o] = @ + n]
    /\ UNCHANGED <<risk, backend, market>>

\* The portfolio raises ValueError after the order was updated: the call ends
\* with the exception, before completed_orders.append.
FillRaises(c, n, p) ==
    LET o == calls[c].ord IN
    /\ Working(c) /\ backend.connected
    /\ n \in FillQuantities(orders[o].qty) /\ p \in FillPrices(c)
    /\ ~PortfolioTakes(orders[o], n, p, calls[c].cost)
    /\ orders' = [orders EXCEPT ![o] = Filled(@, n, p)]
    /\ calls' = [calls EXCEPT ![c] = Idle]
    /\ UNCHANGED <<completed, book, risk, backend, market, history>>

----------------------------------------
(* Publication and continuation.                                            *)

Remaining(o) == orders[o].qty - orders[o].filled

\* One more turn of continue_order's loop.
Attempt(o, price, tries) ==
    [st |-> "executing", kind |-> "continue", ord |-> o, price |-> price,
     cost |-> CostOf(Remaining(o)), tries |-> tries]

AttemptsCap == IF MaxRetries < 1 THEN 1 ELSE MaxRetries

MoreToFill(c) ==
    /\ calls[c].kind = "continue"
    /\ orders[calls[c].ord].status = "PARTIALLY_FILLED"
    /\ calls[c].tries < AttemptsCap

\* What the call does once the event is out, or the bus has failed.
AfterPublish(c) ==
    IF MoreToFill(c) THEN Attempt(calls[c].ord, calls[c].price, calls[c].tries + 1)
    ELSE Idle

MutAnnounced(c) ==                 \* partial fills are not published
    history' = IF orders[calls[c].ord].status = "FILLED"
               THEN [history EXCEPT !.announced[calls[c].ord] = @ + 1] ELSE history

Announced(c) == history' = [history EXCEPT !.announced[calls[c].ord] = @ + 1]

\* The fill event is emitted, or the bus fails or times out, which is swallowed.
Publish(c) ==
    /\ calls[c].st = "publishing"
    /\ Announced(c)
    /\ calls' = [calls EXCEPT ![c] = AfterPublish(c)]
    /\ UNCHANGED <<orders, completed, book, risk, backend, market>>

\* Any other exception of the bus goes up through the call.
PublishRaises(c) ==
    /\ calls[c].st = "publishing"
    /\ Announced(c)
    /\ calls' = [calls EXCEPT ![c] = Idle]
    /\ UNCHANGED <<orders, completed, book, risk, backend, market>>

ContinueOrder(c, o) ==
    /\ calls[c].st = "idle"
    /\ history.continues < MaxContinues
    /\ o \in completed /\ orders[o].status = "PARTIALLY_FILLED"
    /\ backend.wired
    /\ \E p \in {market.prices[orders[o].sym], orders[o].value \div orders[o].filled} :
          calls' = [calls EXCEPT ![c] = Attempt(o, p, 1)]
    /\ history' = [history EXCEPT !.continues = @ + 1]
    /\ UNCHANGED <<orders, completed, book, risk, backend, market>>

----------------------------------------
(* The runner, the market and the operator.                                 *)

AllIdle == \A c \in Calls : calls[c].st = "idle"

\* A tick marks the positions and dates what follows.
Tick(prices) ==
    /\ AllIdle
    /\ book' = UpdatePrices(book, prices)
    /\ \E d \in {market.day, market.day + 1} \cap 0..MaxDay :
          market' = [prices |-> prices, day |-> d]
    /\ UNCHANGED <<orders, calls, completed, risk, backend, history>>

\* PaperTradeRunner.start connects and wires the backend; stop disconnects it,
\* whatever is in flight.
Connect ==
    /\ backend' = [wired |-> TRUE, connected |-> TRUE]
    /\ UNCHANGED <<orders, calls, completed, book, risk, market, history>>

Disconnect ==
    /\ backend.connected
    /\ backend' = [backend EXCEPT !.connected = FALSE]
    /\ UNCHANGED <<orders, calls, completed, book, risk, market, history>>

ResetDailyCounters ==
    /\ history.resets < MaxResets
    /\ risk' = [risk EXCEPT !.count = 0]
    /\ history' = [history EXCEPT !.resets = @ + 1]
    /\ UNCHANGED <<orders, calls, completed, book, backend, market>>

ResetCircuitBreaker ==
    /\ history.unlatched < MaxResets
    /\ risk' = [risk EXCEPT !.breaker = FALSE]
    /\ history' = [history EXCEPT !.unlatched = @ + 1, !.halted = FALSE]
    /\ UNCHANGED <<orders, calls, completed, book, backend, market>>

ProcessSignal(c, o, sig) ==
    \/ RejectInvalid(c, o, sig) \/ RejectCost(c, o, sig) \/ TripBreaker(c, o, sig)
    \/ RejectLimits(c, o, sig) \/ FailNoBackend(c, o, sig) \/ Submit(c, o, sig)

Answer(c) ==
    \/ FillFails(c)
    \/ \E n \in FillQuantities(orders[calls[c].ord].qty), p \in FillPrices(c) :
          FillBooks(c, n, p) \/ FillRaises(c, n, p)

Next ==
    \/ \E c \in Calls :
          \/ \E o \in OrderIds, sig \in Signals : ProcessSignal(c, o, sig)
          \/ Working(c) /\ Answer(c)
          \/ Publish(c) \/ PublishRaises(c)
          \/ \E o \in OrderIds : ContinueOrder(c, o)
    \/ \E prices \in [Symbols -> Prices] : Tick(prices)
    \/ Connect \/ Disconnect
    \/ ResetDailyCounters \/ ResetCircuitBreaker

Spec == Init /\ [][Next]_vars

\* The backend's sleep ends and the publication is bounded by a timeout, so a
\* call that waits goes on.
FairSpec ==
    /\ Spec
    /\ \A c \in Calls : /\ WF_vars(Working(c) /\ Answer(c))
                        /\ WF_vars(Publish(c) \/ PublishRaises(c))
----------------------------------------
(* Properties *)

\* The portfolio holds exactly the shares that the orders' fills booked, in its
\* positions and in its lots, with any interleaving of calls: nothing is booked
\* twice, or for another symbol (_reconcile_fill).
PositionsMatchOrders ==
    \A s \in Symbols :
        /\ book.pos[s].qty = SumOver([o \in OrderIds |->
              IF orders[o].sym # s THEN 0
              ELSE IF orders[o].side = "BUY" THEN history.booked[o]
              ELSE -history.booked[o]])
        /\ LotShares(book.lots[s]) = book.pos[s].qty

\* Orders validated against the same cash cannot overdraw it when both are
\* filled after the await (open_position).
CashNotOverdrawn == book.cash >= 0

\* An order whose fills are all booked is in completed_orders, also while its
\* event is being published and when publishing raises (process_signal).
FilledIsLogged ==
    \A o \in OrderIds :
        orders[o].filled > 0 /\ history.booked[o] = orders[o].filled => o \in completed

\* Every booked fill, partial or complete, initial or continued, is announced
\* once, or is about to be (_publish_fill_event).
FillsAnnounced ==
    \A o \in OrderIds :
        LET pending == {c \in Calls : calls[c].st = "publishing" /\ calls[c].ord = o}
        IN  /\ history.announced[o] + Cardinality(pending) <= orders[o].fills
            /\ history.booked[o] = orders[o].filled =>
                 history.announced[o] + Cardinality(pending) = orders[o].fills

\* An order shows FILLED exactly when its cumulative fills reach its quantity, and
\* a partially filled one has something left to continue.
FilledIffReached ==
    \A o \in OrderIds :
        /\ orders[o].status = "FILLED" => orders[o].filled >= orders[o].qty
        /\ orders[o].status = "PARTIALLY_FILLED" => orders[o].filled \in 1..orders[o].qty - 1

\* No more orders are approved between two resets than max_daily_trades, although
\* several calls are checked while others are still executing (check_order).
DailyLimitHolds ==
    Cardinality({o \in OrderIds : history.session[o] = history.resets}) <= MaxDailyTrades

\* However calls interleave at their awaits, what an order shows is what the book, the
\* log and the subscribers know of it.
FillsRecorded == PositionsMatchOrders /\ FilledIsLogged /\ FillsAnnounced /\ FilledIffReached

\* What was checked before an await still holds after it: cash and daily trades.
ChecksOutliveAwaits == CashNotOverdrawn /\ DailyLimitHolds

\* A risk check that saw the drawdown stops every later order, even after the
\* portfolio recovers, until the operator resets the breaker (check_order).
HaltedUntilReset ==
    [][history.halted /\ history'.halted => history'.session = history.session]_vars

\* With one process_signal at a time the open positions stay within
\* max_open_positions (check_order: each order is filled or given up before the
\* next is checked), unless an order was continued, which no check guards.
OpenPositionsWithinLimit ==
    history.continues = 0 => Cardinality(Held(book)) <= MaxOpenPositions

\* Every call of process_signal and continue_order comes to an end
\* (max_retries, the bounded wait on the bus).
CallsEnd == \A c \in Calls : calls[c].st # "idle" ~> calls[c].st = "idle"

\* Fills accumulate until they reach the order's quantity, and no further:
\* continue_order submits the unfilled remainder.
NeverOverfilled == \A o \in OrderIds : orders[o].filled <= orders[o].qty
=============================================================================
