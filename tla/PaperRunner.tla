----------------------------- MODULE PaperRunner -----------------------------
(***************************************************************************)
(* PaperTradeRunner (src/engine/paper_trade/runner.py): the life cycle of  *)
(* a paper session and its counters.  Tasks call start, stop, process_feed *)
(* and run on one runner; each gives way at its awaits (the strategy's     *)
(* hooks and evaluation, the next tick, the order manager).  What becomes  *)
(* of an order is module SignalPath's matter: here it is one of the        *)
(* outcomes process_signal has, and it can only be filled while the broker *)
(* is connected.                                                           *)
(***************************************************************************)
EXTENDS Integers, FiniteSetsExt

CONSTANTS Tasks,        \* tasks that use the runner
          TickCap,      \* PaperTradeConfig.max_ticks
          MaxSignals,   \* bound: signals of one tick
          MaxTicks,     \* bound: ticks of a behaviour
          MaxCalls      \* bound: calls of the runner's methods

ASSUME RunnerAssumption ==
    /\ IsFiniteSet(Tasks) /\ TickCap \in Nat \ {0} /\ MaxSignals \in Nat /\ MaxTicks \in Nat /\ MaxCalls \in Nat

VARIABLES stop_on_error,     \* PaperTradeConfig.stop_on_error
          started, running,  \* _started, _running
          connected,         \* the paper broker's connection
          stats,             \* PaperTradeStats
          task,              \* where each task is, and the signals it has left
          tally              \* calls made, signals dropped

prVars == <<stop_on_error, started, running, connected, stats, task, tally>>

\* opening, closing: in start, stop; feeding, evaluating, routing, ordering: in
\* process_feed; run: the task is inside run(), which stops when the feed ends.
Idle == [pc |-> "idle", run |-> FALSE, left |-> 0]

Counters == {"ticks", "evaluations", "errors", "emitted", "hold", "noPrice",
             "routed", "filled", "rejected", "failed"}

RunnerInit ==
    /\ stop_on_error \in BOOLEAN
    /\ started = FALSE /\ running = FALSE /\ connected = FALSE
    /\ stats = [k \in Counters |-> 0]
    /\ task = [t \in Tasks |-> Idle]
    /\ tally = [calls |-> 0, dropped |-> 0]

At(t, pc) == task[t].pc = pc
Goes(t, pc) == task' = [task EXCEPT ![t].pc = pc]
Count(ks) == stats' = [k \in Counters |-> stats[k] + IF k \in ks THEN 1 ELSE 0]

Called == /\ tally.calls < MaxCalls
          /\ tally' = [tally EXCEPT !.calls = @ + 1]

----------------------------------------
(* start and stop *)

\* start raises when started; otherwise it connects and runs on_market_open.
CallStart(t, run) ==
    /\ At(t, "idle") /\ Called
    /\ ~started
    /\ connected' = TRUE
    /\ task' = [task EXCEPT ![t] = [pc |-> "opening", run |-> run, left |-> 0]]
    /\ UNCHANGED <<started, running, stats>>

\* The hook is over, its exceptions swallowed: the runner is armed.
StartDone(t) ==
    /\ At(t, "opening")
    /\ started' = TRUE /\ running' = TRUE
    /\ task' = [task EXCEPT ![t] = IF task[t].run THEN [@ EXCEPT !.pc = "feeding"] ELSE Idle]
    /\ UNCHANGED <<connected, stats, tally>>

\* stop does nothing when not started; otherwise it runs on_market_close.
BeginStop(t) ==
    /\ started
    /\ running' = FALSE
    /\ Goes(t, "closing")

NothingToStop(t) ==
    /\ ~started
    /\ running' = running
    /\ task' = [task EXCEPT ![t] = Idle]

CallStop(t) ==
    /\ At(t, "idle") /\ Called
    /\ BeginStop(t) \/ NothingToStop(t)
    /\ UNCHANGED <<started, connected, stats>>

StopDone(t) ==
    /\ At(t, "closing")
    /\ connected' = FALSE /\ started' = FALSE
    /\ task' = [task EXCEPT ![t] = Idle]
    /\ UNCHANGED <<running, stats, tally>>

----------------------------------------
(* process_feed and process_tick *)

CallFeed(t) ==
    /\ At(t, "idle") /\ Called
    /\ Goes(t, "feeding")
    /\ UNCHANGED <<started, running, connected, stats>>

\* The loop is left, by its end or an exception: run() stops in its finally.
LeaveFeed(t) ==
    IF task[t].run THEN BeginStop(t) \/ NothingToStop(t)
    ELSE task' = [task EXCEPT ![t] = Idle] /\ running' = running

\* A tick arrives: not running any more, the loop breaks.
NextTick(t) ==
    /\ At(t, "feeding") /\ stats["ticks"] < MaxTicks
    /\ \/ running /\ Count({"ticks"}) /\ Goes(t, "evaluating") /\ running' = running
       \/ ~running /\ LeaveFeed(t) /\ stats' = stats
    /\ UNCHANGED <<started, connected, tally>>

FeedExhausted(t) ==
    /\ At(t, "feeding")
    /\ LeaveFeed(t)
    /\ UNCHANGED <<started, connected, stats, tally>>

EvaluateDone(t) ==
    /\ At(t, "evaluating")
    /\ \E n \in 0..MaxSignals :
          /\ stats' = [stats EXCEPT !["evaluations"] = @ + 1, !["emitted"] = @ + n]
          /\ task' = [task EXCEPT ![t] = [pc |-> "routing", run |-> @.run, left |-> n]]
    /\ UNCHANGED <<started, running, connected, tally>>

\* The strategy raised: no signals, or the exception ends the loop.
EvaluateFails(t) ==
    /\ At(t, "evaluating")
    /\ \/ ~stop_on_error /\ Count({"errors", "evaluations"}) /\ Goes(t, "routing") /\ running' = running
       \/ stop_on_error /\ Count({"errors"}) /\ LeaveFeed(t)
    /\ UNCHANGED <<started, connected, tally>>

MutSkipSignal(t, why) ==           \* does not look whether signals are left
    /\ At(t, "routing")
    /\ Count({why})
    /\ task' = [task EXCEPT ![t].left = @ - 1]
    /\ UNCHANGED <<started, running, connected, tally>>

\* A HOLD signal, or one whose symbol has no price.
SkipSignal(t, why) ==
    /\ At(t, "routing") /\ task[t].left > 0
    /\ Count({why})
    /\ task' = [task EXCEPT ![t].left = @ - 1]
    /\ UNCHANGED <<started, running, connected, tally>>

PlaceOrder(t) ==
    /\ At(t, "routing") /\ task[t].left > 0
    /\ Goes(t, "ordering")
    /\ UNCHANGED <<started, running, connected, stats, tally>>

\* The signal is dealt with; on_order_fill, if any, runs before the next.
SignalDone(t) == task' = [task EXCEPT ![t] = [pc |-> "routing", run |-> @.run, left |-> @.left - 1]]

MutBucket(status) ==               \* partial fills are in no bucket
    CASE status = "FILLED" -> {"filled"}
      [] status \in {"REJECTED", "RISK_REJECTED"} -> {"rejected"}
      [] status = "FAILED" -> {"failed"}
      [] OTHER -> {}

\* _record_order_outcome
Bucket(status) ==
    CASE status \in {"FILLED", "PARTIALLY_FILLED"} -> {"filled"}
      [] status \in {"REJECTED", "RISK_REJECTED"} -> {"rejected"}
      [] status = "FAILED" -> {"failed"}

\* process_signal returns an order; without a connection nothing is filled.
Outcomes == {"REJECTED", "RISK_REJECTED", "FAILED"}
              \cup IF connected THEN {"FILLED", "PARTIALLY_FILLED"} ELSE {}

OrderReturns(t, status) ==
    /\ At(t, "ordering") /\ status \in Outcomes
    /\ Count({"routed"} \cup Bucket(status))
    /\ SignalDone(t)
    /\ UNCHANGED <<started, running, connected, tally>>

\* process_signal raises: counted as a failed order, or the loop ends.
OrderRaises(t) ==
    /\ At(t, "ordering")
    /\ Count({"failed"})
    /\ \/ ~stop_on_error /\ SignalDone(t) /\ UNCHANGED <<running, tally>>
       \/ /\ stop_on_error /\ LeaveFeed(t)
          /\ tally' = [tally EXCEPT !.dropped = @ + task[t].left - 1]
    /\ UNCHANGED <<started, connected>>

MutTickDone(t) ==                  \* a stopped runner waits in the loop
    /\ At(t, "routing") /\ task[t].left = 0 /\ running
    /\ \/ stats["ticks"] < TickCap /\ Goes(t, "feeding") /\ running' = running
       \/ stats["ticks"] >= TickCap /\ LeaveFeed(t)
    /\ UNCHANGED <<started, connected, stats, tally>>

\* The tick is over; the cap on ticks ends the loop.
TickDone(t) ==
    /\ At(t, "routing") /\ task[t].left = 0
    /\ \/ stats["ticks"] < TickCap /\ Goes(t, "feeding") /\ running' = running
       \/ stats["ticks"] >= TickCap /\ LeaveFeed(t)
    /\ UNCHANGED <<started, connected, stats, tally>>

\* A step of process_feed.
FeedStep(t) ==
    \/ NextTick(t) \/ FeedExhausted(t) \/ EvaluateDone(t) \/ EvaluateFails(t)
    \/ \E why \in {"hold", "noPrice"} : SkipSignal(t, why)
    \/ PlaceOrder(t) \/ OrderRaises(t) \/ TickDone(t)
    \/ \E status \in Outcomes : OrderReturns(t, status)

RunnerNext ==
    \E t \in Tasks :
        /\ \/ \E run \in BOOLEAN : CallStart(t, run)
           \/ StartDone(t) \/ CallStop(t) \/ StopDone(t) \/ CallFeed(t)
           \/ FeedStep(t)
        /\ UNCHANGED stop_on_error

\* Hooks, evaluations and orders come back, and the feed yields a tick or ends:
\* the fairness the run assumes of FeedStep, StartDone and StopDone of each task.

----------------------------------------
(* Properties *)

Pending == [t \in Tasks |-> IF task[t].pc \in {"routing", "ordering"} THEN task[t].left ELSE 0]

\* Every signal a strategy emitted is in exactly one counter, still to be routed,
\* or behind an exception that stop_on_error let through: partial fills, a raising
\* order manager and a stop in the middle of a tick lose none and count none twice
\* (_route_signal).
SignalsAccounted ==
    stats["emitted"] = stats["hold"] + stats["noPrice"] + stats["filled"]
                         + stats["rejected"] + stats["failed"] + tally.dropped
                         + MapThenSumSet(LAMBDA t : Pending[t], Tasks)

InFeed(t) == task[t].pc \in {"feeding", "evaluating", "routing", "ordering"}

\* Once the runner is stopped for good every feed loop comes to its end, also one
\* that was in the middle of a tick (process_feed).
StopEndsFeeds == <>[](~running) => <>[](\A t \in Tasks : ~InFeed(t))
=============================================================================
