---------------------------- MODULE MCBackground ----------------------------
(****************************************************************************)
(* What runs by itself and has to come to an end: the paper session, the    *)
(* kill-switch under threads with its observers, webhook dispatches, the    *)
(* heartbeats of both WebSocket managers and the backtest jobs. They share  *)
(* no state; a behaviour is about one of them.                              *)
(****************************************************************************)
EXTENDS Webhooks, WsRooms, WsChannels, PaperRunner, BacktestJobs, KillSwitch

CONSTANTS p1   \* model values the definitions below name

MCOneKept == <<p1>>

VARIABLE part   \* the component this behaviour is about

\* Every component but the one at work keeps its state.
Rest ==
    /\ UNCHANGED part
    /\ IF part = "webhooks" THEN TRUE ELSE UNCHANGED whVars
    /\ IF part = "rooms" THEN TRUE ELSE UNCHANGED wsVars
    /\ IF part = "channels" THEN TRUE ELSE UNCHANGED chVars
    /\ IF part = "runner" THEN TRUE ELSE UNCHANGED prVars
    /\ IF part = "jobs" THEN TRUE ELSE UNCHANGED bjVars
    /\ IF part = "switch" THEN TRUE ELSE UNCHANGED vars

groupVars == <<part, whVars, wsVars, chVars, prVars, bjVars, vars>>

GroupInit ==
    /\ part \in {"webhooks", "rooms", "channels", "runner", "jobs",
                "switch"}
    /\ WebhookInit
    /\ part # "webhooks" => whConfig = [c \in Hooks |-> [active |-> TRUE, retries |-> 0, exists |-> TRUE]]
    /\ WsInit
    /\ ChannelInit
    /\ RunnerInit
    /\ part # "runner" => ~stop_on_error
    /\ JobsInit
    /\ Init

GroupNext ==
    \/ part = "webhooks" /\ WebhookNext /\ Rest
    \/ part = "rooms" /\ WsNext /\ Rest
    \/ part = "channels" /\ ChannelNext /\ Rest
    \/ part = "runner" /\ RunnerNext /\ Rest
    \/ part = "jobs" /\ JobsNext /\ Rest
    \/ part = "switch" /\ Next /\ Rest

\* Fairness, as the component's module explains it.
GroupSpec ==
    /\ GroupInit /\ [][GroupNext]_groupVars
    /\ \A d \in Dispatches : WF_groupVars(part = "webhooks" /\ DispatchStep(d) /\ Rest)
    /\ WF_groupVars(part = "rooms" /\ Heartbeat /\ Rest)
    /\ WF_groupVars(part = "channels" /\ CastStep /\ Rest)
    /\ \A t \in Tasks : WF_groupVars(part = "runner" /\ (FeedStep(t) \/ StartDone(t) \/ StopDone(t)) /\ UNCHANGED stop_on_error /\ Rest)
    /\ WF_groupVars(part = "jobs" /\ WorkerStep /\ Rest)
    /\ \A t \in Threads : WF_groupVars(part = "switch" /\ Started(t) /\ Rest)

----------------------------------------
(* Properties *)

\* Rooms and indexes match the connections, a heartbeat watches them as long as there
\* are any, and members of a channel are connected (both WebSocket managers).
ConnectionsInStep == RoomsMatchConnections /\ HeartbeatWatches /\ MembersAreConnected

\* Records are true and kept as promised: delivery rows tell what receivers were sent,
\* all or none after a crash (webhook_dispatcher.py), results stay for their time
\* (api/routes/backtest.py).
RecordsKept ==
    /\ RowsTellTheTruth /\ RowsAppearTogether
    /\ ResultStaysForTtl

\* A delivery comes to an end, and nothing is posted after a final answer
\* (webhook_dispatcher.py).
DeliverySettles == NoPostAfterFinalAnswer /\ DispatchesEnd

\* Dead peers go and a shutdown leaves no connection behind (both WebSocket managers).
SocketsSettle == ShutdownLeavesNone /\ DeadConnectionsGo /\ DeadSocketsLeave

\* Work comes to its end and keeps its outcome: queued jobs run, feeds end after a
\* stop, and the outcome of a job does not change (tasks/, paper_trade/runner.py).
WorkEnds == StopEndsFeeds /\ QueuedJobsRun /\ OutcomeIsFinal
============================================================================
