------------------------------ MODULE WsRooms ------------------------------
(***************************************************************************)
(* The room-based connection manager of src/engine/api/ws/                 *)
(* connection_manager.py with its route, its heartbeat and sender tasks,   *)
(* its shutdown, and the two bridges that feed it from the event bus       *)
(* (src/engine/api/ws/event_bridge.py, src/engine/ws/bridge.py).  A        *)
(* connection id is never used twice.  Time is the number of heartbeats.   *)
(***************************************************************************)
EXTENDS Integers, Sequences, FiniteSets

CONSTANTS Conns,          \* connection ids, each with its socket
          Users,          \* users: user u has the room u
          Owner,          \* the user of a connection
          Rooms,          \* channel rooms
          MaxConnections, SendQueueSize, MaxSubscriptions,
          Kinds,          \* what the bridges send: "model" and "dict" messages
          MaxEvents       \* bound: events that reach the bridges

ASSUME WsAssumption ==
    /\ Owner \in [Conns -> Users] /\ Users \cap Rooms = {}
    /\ MaxConnections \in Nat /\ SendQueueSize \in Nat \ {0} /\ MaxSubscriptions \in Nat
    /\ Kinds \subseteq {"model", "dict"} /\ MaxEvents \in Nat

VARIABLES wsConn,    \* ConnectionInfo per id: st, rooms, send_queue, last_seen, sender_task
          wsSocket,  \* up, or dead: sends to it fail
          wsRooms,   \* _rooms
          wsBeat,    \* _global_heartbeat_task: pc and the stale ids of its sweep
          wsClose,   \* _shutting_down and where close_all is
          wsTasks,   \* broadcasts under way: message kind, rooms to go, snapshot
          wsHist     \* history: events so far; sockets the sender gave up on

wsVars == <<wsConn, wsSocket, wsRooms, wsBeat, wsClose, wsTasks, wsHist>>

StaleAfter == 2    \* last_seen older than two heartbeat intervals

Unknown == [st |-> "new", rooms |-> {}, queue |-> <<>>, age |-> 0, sender |-> "over", msg |-> "none"]

Open == {c \in Conns : wsConn[c].st = "open"}

WsInit ==
    /\ wsConn = [c \in Conns |-> Unknown]
    /\ wsSocket = [c \in Conns |-> "up"]
    /\ wsRooms = [r \in Users \cup Rooms |-> {}]
    /\ wsBeat = [pc |-> "none", stale |-> {}]
    /\ wsClose = [down |-> FALSE, pc |-> "no", left |-> {}, at |-> {}]
    /\ wsTasks = {}
    /\ wsHist = [events |-> 0, dropped |-> {}]

----------------------------------------
(* register, unregister *)

\* Refused when full or shutting down.  The user's room is joined, the sender
\* and, when none runs, the heartbeat are started.
Register(c) ==
    /\ wsConn[c].st = "new" /\ ~wsClose.down /\ Cardinality(Open) < MaxConnections
    /\ wsConn' = [wsConn EXCEPT ![c] = [Unknown EXCEPT !.st = "open", !.rooms = {Owner[c]}, !.sender = "idle"]]
    /\ wsRooms' = [wsRooms EXCEPT ![Owner[c]] = @ \cup {c}]
    /\ wsBeat' = IF wsBeat.pc = "none" THEN [pc |-> "asleep", stale |-> {}] ELSE wsBeat
    /\ UNCHANGED <<wsSocket, wsClose, wsTasks, wsHist>>

MutUnregistered(c) ==          \* the rooms keep the connection
    /\ wsConn' = [wsConn EXCEPT ![c] = [Unknown EXCEPT !.st = "gone"]]
    /\ wsRooms' = wsRooms

\* unregister, when the id is known: out of the table and of its rooms, the
\* sender cancelled (or about to break, when it is the caller).
Unregistered(c) ==
    /\ wsConn' = [wsConn EXCEPT ![c] = [Unknown EXCEPT !.st = "gone"]]
    /\ wsRooms' = [r \in Users \cup Rooms |-> IF r \in wsConn[c].rooms THEN wsRooms[r] \ {c} ELSE wsRooms[r]]

\* The last connection takes the heartbeat with it.
HeartbeatAfter(c) == wsBeat' = IF Open = {c} THEN [pc |-> "none", stale |-> {}] ELSE wsBeat

\* The route's finally: the client left or its socket broke.
RouteEnds(c) ==
    /\ c \in Open
    /\ Unregistered(c) /\ HeartbeatAfter(c)
    /\ UNCHANGED <<wsSocket, wsClose, wsTasks, wsHist>>

SocketDies(c) ==
    /\ c \in Open /\ wsSocket[c] = "up"
    /\ wsSocket' = [wsSocket EXCEPT ![c] = "dead"]
    /\ UNCHANGED <<wsConn, wsRooms, wsBeat, wsClose, wsTasks, wsHist>>

----------------------------------------
(* Messages of a client *)

Touch(c) ==
    /\ c \in Open /\ wsSocket[c] = "up" /\ wsConn[c].age > 0
    /\ wsConn' = [wsConn EXCEPT ![c].age = 0]
    /\ UNCHANGED <<wsSocket, wsRooms, wsBeat, wsClose, wsTasks, wsHist>>

JoinRoom(c, r) ==
    /\ c \in Open /\ wsSocket[c] = "up" /\ r \notin wsConn[c].rooms
    /\ Cardinality(wsConn[c].rooms \ Users) < MaxSubscriptions
    /\ wsConn' = [wsConn EXCEPT ![c].rooms = @ \cup {r}, ![c].age = 0]
    /\ wsRooms' = [wsRooms EXCEPT ![r] = @ \cup {c}]
    /\ UNCHANGED <<wsSocket, wsBeat, wsClose, wsTasks, wsHist>>

LeaveRoom(c, r) ==
    /\ c \in Open /\ wsSocket[c] = "up" /\ r \in wsConn[c].rooms
    /\ wsConn' = [wsConn EXCEPT ![c].rooms = @ \ {r}, ![c].age = 0]
    /\ wsRooms' = [wsRooms EXCEPT ![r] = @ \ {c}]
    /\ UNCHANGED <<wsSocket, wsBeat, wsClose, wsTasks, wsHist>>

----------------------------------------
(* Broadcasts *)

\* The room bridge (model messages) serves the user's room and then the channel,
\* from a task of its own; the order bridge (dict envelopes) one of the two.
Targets(kind, u, r) ==
    IF kind = "model" THEN <<u, r>> ELSE <<u>>

BusEvent(kind, u, r) ==
    /\ wsHist.events < MaxEvents
    /\ wsTasks' = wsTasks \cup {[id |-> wsHist.events, kind |-> kind, rooms |-> Targets(kind, u, r),
                                 snap |-> {}, pc |-> "snapshot"]}
    /\ wsHist' = [wsHist EXCEPT !.events = @ + 1]
    /\ UNCHANGED <<wsConn, wsSocket, wsRooms, wsBeat, wsClose>>

\* An event without a user goes to the channel only.
SystemEvent(kind, r) ==
    /\ wsHist.events < MaxEvents
    /\ wsTasks' = wsTasks \cup {[id |-> wsHist.events, kind |-> kind, rooms |-> <<r>>,
                                 snap |-> {}, pc |-> "snapshot"]}
    /\ wsHist' = [wsHist EXCEPT !.events = @ + 1]
    /\ UNCHANGED <<wsConn, wsSocket, wsRooms, wsBeat, wsClose>>

\* broadcast copies the members under the lock ...
TakeSnapshot(t) ==
    /\ t.pc = "snapshot"
    /\ wsTasks' = (wsTasks \ {t}) \cup {[t EXCEPT !.snap = wsRooms[Head(t.rooms)], !.pc = "send"]}
    /\ UNCHANGED <<wsConn, wsSocket, wsRooms, wsBeat, wsClose, wsHist>>

\* send: into the queue of a connection that is still there, dropped when full.
Queued(cs, kind) ==
    [c \in Conns |-> IF c \in cs /\ wsConn[c].st = "open" /\ Len(wsConn[c].queue) < SendQueueSize
                     THEN [wsConn[c] EXCEPT !.queue = Append(@, kind)] ELSE wsConn[c]]

\* ... and puts the message into their queues, no longer under the lock.
SendAll(t) ==
    /\ t.pc = "send"
    /\ wsConn' = Queued(t.snap, t.kind)
    /\ wsTasks' = (wsTasks \ {t}) \cup
                    IF Len(t.rooms) = 1 THEN {}
                    ELSE {[t EXCEPT !.rooms = Tail(@), !.snap = {}, !.pc = "snapshot"]}
    /\ UNCHANGED <<wsSocket, wsRooms, wsBeat, wsClose, wsHist>>

----------------------------------------
(* The sender and heartbeat tasks *)

SenderTakes(c) ==
    /\ wsConn[c].sender = "idle" /\ wsConn[c].queue # <<>>
    /\ wsConn' = [wsConn EXCEPT ![c].sender = "sending", ![c].msg = Head(wsConn[c].queue),
                                ![c].queue = Tail(@)]
    /\ UNCHANGED <<wsSocket, wsRooms, wsBeat, wsClose, wsTasks, wsHist>>

SenderSends(c) ==
    /\ wsConn[c].sender = "sending" /\ wsConn[c].msg # "dict" /\ wsSocket[c] = "up"
    /\ wsConn' = [wsConn EXCEPT ![c].sender = "idle", ![c].msg = "none"]
    /\ UNCHANGED <<wsSocket, wsRooms, wsBeat, wsClose, wsTasks, wsHist>>

\* The send raises: the socket is dead, or the message has no model_dump.
SenderFails(c) ==
    /\ wsConn[c].sender = "sending" /\ (wsConn[c].msg = "dict" \/ wsSocket[c] = "dead")
    /\ Unregistered(c) /\ HeartbeatAfter(c)
    /\ wsHist' = [wsHist EXCEPT !.dropped = @ \cup {wsSocket[c]}]
    /\ UNCHANGED <<wsSocket, wsClose, wsTasks>>

\* The loop wakes up: it ends without connections, or collects the stale ones.
Aged == [c \in Conns |-> IF c \in Open THEN [wsConn[c] EXCEPT !.age = @ + 1] ELSE wsConn[c]]

MutHeartbeatWakes ==           \* ends after a sweep that found nothing
    /\ wsBeat.pc = "asleep" /\ Open # {}
    /\ wsConn' = Aged
    /\ LET stale == {c \in Open : Aged[c].age > StaleAfter} IN
       wsBeat' = IF stale = {} THEN [pc |-> "none", stale |-> {}] ELSE [pc |-> "sweep", stale |-> stale]
    /\ UNCHANGED <<wsSocket, wsRooms, wsClose, wsTasks, wsHist>>

HeartbeatWakes ==
    /\ wsBeat.pc = "asleep" /\ Open # {}
    /\ wsConn' = Aged
    /\ wsBeat' = [pc |-> "sweep", stale |-> {c \in Open : Aged[c].age > StaleAfter}]
    /\ UNCHANGED <<wsSocket, wsRooms, wsClose, wsTasks, wsHist>>

HeartbeatEnds ==
    /\ wsBeat.pc = "asleep" /\ Open = {}
    /\ wsBeat' = [pc |-> "none", stale |-> {}]
    /\ UNCHANGED <<wsConn, wsSocket, wsRooms, wsClose, wsTasks, wsHist>>

\* A stale id is unregistered; the task never cancels itself.
HeartbeatSweeps ==
    /\ wsBeat.pc = "sweep"
    /\ \/ /\ wsBeat.stale = {} /\ wsBeat' = [wsBeat EXCEPT !.pc = "asleep"]
          /\ UNCHANGED <<wsConn, wsRooms>>
       \/ \E c \in wsBeat.stale :
             /\ wsBeat' = [wsBeat EXCEPT !.stale = @ \ {c}]
             /\ IF c \in Open THEN Unregistered(c) ELSE UNCHANGED <<wsConn, wsRooms>>
    /\ UNCHANGED <<wsSocket, wsClose, wsTasks, wsHist>>

----------------------------------------
(* close_all *)

MutCloseBegins ==              \* forgets to refuse new connections
    /\ wsClose.pc = "no"
    /\ wsClose' = [down |-> FALSE, pc |-> "closing", left |-> Open, at |-> {}]
    /\ UNCHANGED <<wsConn, wsSocket, wsRooms, wsBeat, wsTasks, wsHist>>

CloseBegins ==
    /\ wsClose.pc = "no"
    /\ wsClose' = [down |-> TRUE, pc |-> "closing", left |-> Open, at |-> {}]
    /\ UNCHANGED <<wsConn, wsSocket, wsRooms, wsBeat, wsTasks, wsHist>>

\* The close message is queued if there is room, and the task sleeps.
CloseSends(c) ==
    /\ wsClose.pc = "closing" /\ wsClose.at = {} /\ c \in wsClose.left
    /\ wsClose' = [wsClose EXCEPT !.left = @ \ {c}, !.at = IF c \in Open THEN {c} ELSE {}]
    /\ wsConn' = Queued({c}, "model")
    /\ UNCHANGED <<wsSocket, wsRooms, wsBeat, wsTasks, wsHist>>

\* The socket is closed and the connection unregistered, if it still is there.
CloseUnregisters(c) ==
    /\ c \in wsClose.at
    /\ wsClose' = [wsClose EXCEPT !.at = {}]
    /\ wsSocket' = [wsSocket EXCEPT ![c] = "dead"]
    /\ IF c \in Open THEN Unregistered(c) /\ HeartbeatAfter(c) ELSE UNCHANGED <<wsConn, wsRooms, wsBeat>>
    /\ UNCHANGED <<wsTasks, wsHist>>

CloseEnds ==
    /\ wsClose.pc = "closing" /\ wsClose.left = {} /\ wsClose.at = {}
    /\ wsClose' = [wsClose EXCEPT !.down = FALSE, !.pc = "closed"]
    /\ UNCHANGED <<wsConn, wsSocket, wsRooms, wsBeat, wsTasks, wsHist>>

----------------------------------------
Heartbeat == HeartbeatWakes \/ HeartbeatSweeps

WsNext ==
    \/ \E c \in Conns :
          \/ Register(c) \/ RouteEnds(c) \/ SocketDies(c) \/ Touch(c)
          \/ SenderTakes(c) \/ SenderSends(c) \/ SenderFails(c)
          \/ CloseSends(c) \/ CloseUnregisters(c)
          \/ \E r \in Rooms : JoinRoom(c, r) \/ LeaveRoom(c, r)
    \/ \E kind \in Kinds, u \in Users, r \in Rooms : BusEvent(kind, u, r) \/ SystemEvent(kind, r)
    \/ \E t \in wsTasks : TakeSnapshot(t) \/ SendAll(t)
    \/ Heartbeat \/ HeartbeatEnds
    \/ CloseBegins \/ CloseEnds

----------------------------------------
(* Properties *)

\* The two halves of a membership agree, the rooms' member sets and the
\* connections' own lists, and a room holds no connection that has gone: through
\* joins, a sender, a sweep and a shutdown that unregister the same connection.
RoomsMatchConnections ==
    \A r \in Users \cup Rooms, c \in Conns :
        (c \in wsRooms[r]) = (c \in Open /\ r \in wsConn[c].rooms)

\* While there are connections a heartbeat watches them, however the last
\* unregistration and a new registration interleave with its sweep.
HeartbeatWatches == Open # {} => wsBeat.pc # "none"

\* When close_all is over nobody is connected: nothing was registered meanwhile.
ShutdownLeavesNone == [][wsClose.pc = "closing" /\ wsClose'.pc = "closed" => Open = {}]_wsVars

\* A client whose socket is dead is unregistered in the end, by its sender, its
\* route or the heartbeat.
DeadConnectionsGo == \A c \in Conns : (c \in Open /\ wsSocket[c] = "dead") ~> (c \notin Open)

\* The sender drops a connection only because "the underlying socket is gone".
SenderDropsDeadSockets == "up" \notin wsHist.dropped

----------------------------------------
(* The bridge alone: a small instance of its own. *)

MCOwner == [c \in Conns |-> CHOOSE w \in Users : TRUE]

WsSpec == WsInit /\ [][WsNext]_wsVars
=============================================================================
