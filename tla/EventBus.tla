------------------------------ MODULE EventBus -------------------------------
(***************************************************************************)
(* What outlives a request: the event bus, and the life of the process     *)
(* that opens and closes it with all else.  The parts share no state.      *)
(***************************************************************************)
EXTENDS Integers, Sequences, FiniteSets

(***************************************************************************)
(* The in-process event bus of src/engine/events/bus.py, for one event     *)
(* type: publishers obtain the process-wide bus, publish, and give way at  *)
(* every handler they await, while handlers come and go.  A handler list   *)
(* is a Python object: publish walks the object it took, subscribe appends *)
(* to the current object, unsubscribe installs a new one.  So lists are    *)
(* kept with their identity, an index into busLists.                       *)
(***************************************************************************)
CONSTANTS Publishers,      \* tasks that publish
          Handlers,        \* handlers of the event type
          MaxLogSize,      \* max_log_size
          MaxPublications, \* bound: events published
          MaxChanges       \* bound: subscriptions and unsubscriptions

ASSUME BusAssumption ==
    /\ MaxLogSize \in Nat \ {0} /\ MaxPublications \in Nat /\ MaxChanges \in Nat

VARIABLES busLists,    \* every list object _handlers[type] has been
          busCur,      \* the one it is now
          busState,    \* _state.bus: the buses published there, and _state.lock
          busRedis,    \* _redis: none, pinging, up, closing
          busPub,      \* each publisher: pc, its bus, its event, list and index
          busLog,      \* _event_log
          busHist      \* history: calls, offers and standing subscriptions per event

busVars == <<busLists, busCur, busState, busRedis, busPub, busLog, busHist>>

Count(s, h) == Cardinality({i \in DOMAIN s : s[i] = h})
Counts(s) == [h \in Handlers |-> Count(s, h)]
None == [h \in Handlers |-> 0]

BusInit ==
    /\ busLists = << <<>> >> /\ busCur = 1
    /\ busState = [bus |-> 0, built |-> 0, lock |-> FALSE]
    /\ busRedis = "none"
    /\ busPub = [p \in Publishers |-> [pc |-> "new", bus |-> 0, event |-> 0, list |-> 0, i |-> 0]]
    /\ busLog = <<>>
    /\ busHist = [changes |-> 0, calls |-> <<>>, offers |-> <<>>, standing |-> <<>>, ended |-> <<>>]

AtBus(p, pc) == busPub[p].pc = pc
GoesTo(p, pc) == busPub' = [busPub EXCEPT ![p].pc = pc]
Running(e) == \A k \in DOMAIN busHist.ended : busHist.ended[k] # e

\* The list without a handler, in the order it had.
Without(s, h) ==
    LET kept[i \in 0..Len(s)] ==
            IF i = 0 THEN <<>> ELSE IF s[i] = h THEN kept[i - 1] ELSE Append(kept[i - 1], s[i])
    IN  kept[Len(s)]

----------------------------------------
(* get_event_bus: double-checked locking around the construction *)

BusFast(p) ==
    /\ AtBus(p, "new") /\ busState.bus # 0
    /\ busPub' = [busPub EXCEPT ![p].pc = "idle", ![p].bus = busState.bus]
    /\ UNCHANGED <<busLists, busCur, busState, busRedis, busLog, busHist>>

BusWaits(p) ==
    /\ AtBus(p, "new") /\ busState.bus = 0
    /\ GoesTo(p, "waiting")
    /\ UNCHANGED <<busLists, busCur, busState, busRedis, busLog, busHist>>

MutBusLocked(p) ==             \* does not look again inside the lock
    /\ AtBus(p, "waiting") /\ ~busState.lock
    /\ busState' = [busState EXCEPT !.lock = TRUE, !.built = @ + 1]
    /\ busRedis' = "pinging"
    /\ busPub' = [busPub EXCEPT ![p].pc = "connecting", ![p].bus = busState.built + 1]
    /\ UNCHANGED <<busLists, busCur, busLog, busHist>>

\* The lock is taken: the bus is there by now, or is built and connected.
BusLocked(p) ==
    /\ AtBus(p, "waiting") /\ ~busState.lock
    /\ \/ /\ busState.bus # 0
          /\ busPub' = [busPub EXCEPT ![p].pc = "idle", ![p].bus = busState.bus]
          /\ UNCHANGED <<busState, busRedis>>
       \/ /\ busState.bus = 0
          /\ busState' = [busState EXCEPT !.lock = TRUE, !.built = @ + 1]
          /\ busRedis' = "pinging"
          /\ busPub' = [busPub EXCEPT ![p].pc = "connecting", ![p].bus = busState.built + 1]
    /\ UNCHANGED <<busLists, busCur, busLog, busHist>>

\* connect: the client is kept when the ping answers, dropped when it fails.
BusConnected(p) ==
    /\ AtBus(p, "connecting")
    /\ busRedis' \in {"up", "none"}
    /\ busState' = [busState EXCEPT !.lock = FALSE, !.bus = busPub[p].bus]
    /\ GoesTo(p, "idle")
    /\ UNCHANGED <<busLists, busCur, busLog, busHist>>

\* disconnect closes the client, an await, and forgets it after that.
BusDisconnect ==
    /\ \/ busRedis = "up" /\ busRedis' = "closing"
       \/ busRedis = "closing" /\ busRedis' = "none"
    /\ UNCHANGED <<busLists, busCur, busState, busPub, busLog, busHist>>

----------------------------------------
(* subscribe and unsubscribe *)

Changes == /\ busState.bus # 0 /\ busHist.changes < MaxChanges

\* A subscription is offered to publications under way.
Offered(h) == [e \in DOMAIN busHist.offers |->
                  IF Running(e) THEN [busHist.offers[e] EXCEPT ![h] = @ + 1] ELSE busHist.offers[e]]

Subscribe(h) ==
    /\ Changes
    /\ busLists' = [busLists EXCEPT ![busCur] = Append(@, h)]
    /\ busHist' = [busHist EXCEPT !.changes = @ + 1, !.offers = Offered(h)]
    /\ UNCHANGED <<busCur, busState, busRedis, busPub, busLog>>

Standing(h) == [e \in DOMAIN busHist.standing |->
                   IF Running(e) THEN [busHist.standing[e] EXCEPT ![h] = 0] ELSE busHist.standing[e]]
Withdrawn(h) == [busHist EXCEPT !.changes = @ + 1, !.standing = Standing(h)]

MutUnsubscribe(h) ==           \* removes from the list publish is walking
    /\ Changes /\ Count(busLists[busCur], h) > 0
    /\ busLists' = [busLists EXCEPT ![busCur] = Without(@, h)]
    /\ busHist' = Withdrawn(h)
    /\ UNCHANGED <<busCur, busState, busRedis, busPub, busLog>>

Unsubscribe(h) ==
    /\ Changes /\ Count(busLists[busCur], h) > 0
    /\ busLists' = Append(busLists, Without(busLists[busCur], h))
    /\ busCur' = Len(busLists) + 1
    /\ busHist' = Withdrawn(h)
    /\ UNCHANGED <<busState, busRedis, busPub, busLog>>

----------------------------------------
(* publish *)

Publish(p) ==
    /\ AtBus(p, "idle") /\ Len(busHist.calls) < MaxPublications
    /\ busPub' = [busPub EXCEPT ![p] = [@ EXCEPT !.pc = "walking", !.event = Len(busHist.calls) + 1,
                                                 !.list = busCur, !.i = 1]]
    /\ busHist' = [busHist EXCEPT !.calls = Append(@, None),
                                  !.offers = Append(@, Counts(busLists[busCur])),
                                  !.standing = Append(@, Counts(busLists[busCur]))]
    /\ UNCHANGED <<busLists, busCur, busState, busRedis, busLog>>

\* The next handler of the object taken at the start is awaited.
CallHandler(p) ==
    LET me == busPub[p] IN
    /\ AtBus(p, "walking") /\ me.i <= Len(busLists[me.list])
    /\ GoesTo(p, "awaiting")
    /\ busHist' = [busHist EXCEPT !.calls[me.event][busLists[me.list][me.i]] = @ + 1]
    /\ UNCHANGED <<busLists, busCur, busState, busRedis, busLog>>

\* It returns, or raises and is logged: either way the walk goes on.
HandlerEnds(p) ==
    /\ AtBus(p, "awaiting")
    /\ busPub' = [busPub EXCEPT ![p].pc = "walking", ![p].i = @ + 1]
    /\ UNCHANGED <<busLists, busCur, busState, busRedis, busLog, busHist>>

Logged(e) == LET all == Append(busLog, e) IN
             SubSeq(all, IF Len(all) > MaxLogSize THEN Len(all) - MaxLogSize + 1 ELSE 1, Len(all))

MutRedisThenLog(p) ==          \* a lost connection ends publish with an exception
    LET me == busPub[p] IN
    /\ AtBus(p, "walking") /\ me.i > Len(busLists[me.list])
    /\ GoesTo(p, "idle")
    /\ busLog' = IF busRedis = "closing" THEN busLog ELSE Logged(me.event)
    /\ busHist' = [busHist EXCEPT !.ended = Append(@, me.event)]
    /\ UNCHANGED <<busLists, busCur, busState, busRedis>>

\* All handlers done.  The Redis client, if there is one, is given the event and
\* its errors are swallowed: the event is logged whatever the client does.
RedisThenLog(p) ==
    LET me == busPub[p] IN
    /\ AtBus(p, "walking") /\ me.i > Len(busLists[me.list])
    /\ GoesTo(p, "idle")
    /\ busLog' = Logged(me.event)
    /\ busHist' = [busHist EXCEPT !.ended = Append(@, me.event)]
    /\ UNCHANGED <<busLists, busCur, busState, busRedis>>

BusStep(p) ==
    \/ BusFast(p) \/ BusWaits(p) \/ BusLocked(p) \/ BusConnected(p)
    \/ CallHandler(p) \/ HandlerEnds(p) \/ RedisThenLog(p)

BusNext ==
    \/ \E p \in Publishers : BusStep(p) \/ Publish(p)
    \/ \E h \in Handlers : Subscribe(h) \/ Unsubscribe(h)
    \/ BusDisconnect

----------------------------------------
(* Properties *)

\* A handler subscribed throughout a publication is called as often as it was
\* subscribed, also when others unsubscribe while publish waits for a handler,
\* and no handler is called more often than it was subscribed until the end.
StandingHandlersCalled ==
    \A k \in DOMAIN busHist.ended :
        LET e == busHist.ended[k] IN
        \A h \in Handlers : /\ busHist.standing[e][h] <= busHist.calls[e][h]
                            /\ busHist.calls[e][h] <= busHist.offers[e][h]

\* Whatever handlers, Redis and other publishers do, the log is the latest
\* publications in the order they ended (publish).
LogHoldsLatest ==
    LET n == Len(busHist.ended) IN
    busLog = SubSeq(busHist.ended, IF n > MaxLogSize THEN n - MaxLogSize + 1 ELSE 1, n)

\* Every caller of get_event_bus has the same bus, and it is connected or known
\* to be without Redis before the first caller gets it.  (The bus of the API's own
\* lifespan is another one, which get_event_bus does not know.)
OneBus ==
    \A p \in Publishers : busPub[p].pc \in {"idle", "walking", "awaiting"} =>
        busPub[p].bus = busState.bus /\ busState.bus = 1 /\ busRedis # "pinging"

----------------------------------------
(****************************************************************************)
(* The life of the API process (app.py): the application is created, its    *)
(* lifespan opens resources one after the other, some under a guard, it     *)
(* serves, and the shutdown takes them down step by step although steps     *)
(* fail.                                                                    *)
(****************************************************************************)

CONSTANTS FileProviders   \* data providers the configuration file names

VARIABLES lsStage,      \* where the lifespan is
          lsDone,       \* cleanup steps tried
          lsOpen,       \* resources that are open or running
          lsBroken,     \* what did not start or did not close
          lsProviders,  \* registered data providers
          lsFile        \* the configuration file: "none", "read" or "failed"

lsVars == <<lsStage, lsDone, lsOpen, lsBroken, lsProviders, lsFile>>

DefaultProvider == "yahoo"

\* cleanup_steps in their order, by what they close; close_sentry is the last.
MutCleanupSteps == <<"bus", "bridge", "orderBridge", "manager", "broker", "valkey", "engine", "sentry">>
CleanupSteps == <<"bridge", "orderBridge", "manager", "bus", "broker", "valkey", "engine", "sentry">>
\* What a resource sends to or reads from while it runs.
Uses == [bridge |-> {"bus", "manager"}, orderBridge |-> {"bus", "manager"}]

LifespanInit ==
    /\ lsStage = "created" /\ lsDone = 0 /\ lsOpen = {} /\ lsBroken = {} /\ lsFile = "none"
    /\ lsProviders \in {{}, FileProviders}   \* the registry may have been filled before

\* A step of the start that raises ends the process; nothing is taken down.
Aborts == lsStage' = "aborted" /\ UNCHANGED <<lsDone, lsOpen, lsBroken, lsProviders, lsFile>>

\* _init_observability: creating the engine and starting Sentry may fail, which is
\* logged only.
InitObservability(engine, sentry) ==
    /\ lsStage = "created" /\ lsStage' = "observed"
    /\ lsOpen' = {r \in {"engine", "sentry"} : IF r = "engine" THEN engine ELSE sentry}
    /\ lsBroken' = {"engine", "sentry"} \ lsOpen'
    /\ UNCHANGED <<lsDone, lsProviders, lsFile>>

CheckSecretKey(set) ==
    /\ lsStage = "observed"
    /\ IF set THEN lsStage' = "keyed" /\ UNCHANGED <<lsDone, lsOpen, lsBroken, lsProviders, lsFile>> ELSE Aborts

\* _configure_data_providers: a file that cannot be read to its end leaves what it
\* had registered, and the default adapter joins it; a registry that is not empty
\* is left alone.
ConfigureDataProviders(file, loaded) ==
    IF lsProviders # {} THEN UNCHANGED lsProviders
    ELSE lsProviders' = CASE file = "none" -> {DefaultProvider}
                          [] file = "read" -> FileProviders
                          [] file = "failed" -> loaded \cup {DefaultProvider}
\* get_engine creates the engine unless it is there; it may fail again.
EngineAsked(created) ==
    /\ lsOpen' = lsOpen \cup {"valkey"} \cup (IF created THEN {"engine"} ELSE {})
    /\ lsBroken' = lsBroken \ lsOpen'

\* _init_app_state: a failed sync of the legal documents is logged only, with the
\* engine it asks for; building the login providers or the search index may raise,
\* with the client open.
InitAppState(file, loaded, created) ==
    /\ lsStage = "keyed" /\ lsStage' = "stated"
    /\ EngineAsked(created) /\ lsFile' = file
    /\ ConfigureDataProviders(file, loaded)
    /\ UNCHANGED lsDone
AppStateRaises ==
    /\ lsStage = "keyed" /\ lsStage' = "aborted"
    /\ lsOpen' = lsOpen \cup {"valkey"}
    /\ UNCHANGED <<lsDone, lsBroken, lsProviders, lsFile>>

\* _init_websockets_and_events: the bus falls back to the process when it cannot
\* connect, so that none of this raises; both bridges start after it.  The bus is the
\* application's own: set_event_bus is not called, so get_event_bus makes another.
InitWebsocketsAndEvents ==
    /\ lsStage = "stated" /\ lsStage' = "wired"
    /\ lsOpen' = lsOpen \cup {"manager", "bus", "bridge", "orderBridge"}
    /\ UNCHANGED <<lsDone, lsBroken, lsProviders, lsFile>>
\* _init_taskiq_broker: an outage leaves the API without a broker.
InitTaskiqBroker(up) ==
    /\ lsStage = "wired" /\ lsStage' = "serving"
    /\ lsOpen' = IF up THEN lsOpen \cup {"broker"} ELSE lsOpen
    /\ lsBroken' = IF up THEN lsBroken ELSE lsBroken \cup {"broker"}
    /\ UNCHANGED <<lsDone, lsProviders, lsFile>>

\* A request asks for the engine again.
EngineInRequest ==
    /\ lsStage = "serving" /\ "engine" \notin lsOpen /\ EngineAsked(TRUE)
    /\ UNCHANGED <<lsStage, lsDone, lsProviders, lsFile>>

\* _shutdown: every step is tried, whatever became of the earlier ones; what is not
\* open is skipped.
Closing(r, ok) ==
    /\ ok \/ r \in lsOpen
    /\ lsOpen' = IF ok THEN lsOpen \ {r} ELSE lsOpen
    /\ lsBroken' = IF ok THEN lsBroken ELSE lsBroken \cup {r}
MutShutdownStep(ok) ==              \* a step that raises ends the shutdown
    /\ lsStage \in {"serving", "stopping"} /\ lsDone' = lsDone + 1
    /\ lsStage' = IF ~ok \/ lsDone' = Len(CleanupSteps) THEN "stopped" ELSE "stopping"
    /\ Closing(CleanupSteps[lsDone'], ok)
    /\ UNCHANGED <<lsProviders, lsFile>>
ShutdownStep(ok) ==
    /\ lsStage \in {"serving", "stopping"} /\ lsDone' = lsDone + 1
    /\ lsStage' = IF lsDone' = Len(CleanupSteps) THEN "stopped" ELSE "stopping"
    /\ Closing(CleanupSteps[lsDone'], ok)
    /\ UNCHANGED <<lsProviders, lsFile>>

LifespanNext ==
    \/ \E b \in BOOLEAN : CheckSecretKey(b) \/ InitTaskiqBroker(b) \/ ShutdownStep(b)
    \/ \E b, sentry \in BOOLEAN : InitObservability(b, sentry)
    \/ \E file \in {"none", "read", "failed"}, loaded \in SUBSET FileProviders, b \in BOOLEAN :
          InitAppState(file, loaded, b)
    \/ AppStateRaises \/ InitWebsocketsAndEvents \/ EngineInRequest

----------------------------------------
\* The process serves with its client, sockets, bus and bridges; the engine, Sentry
\* and the broker may be missing, but then their failure was noticed.  It has data
\* providers unless its file names none. The shutdown closes everything but what
\* refuses to close, and until its own stop failed no bridge runs without the bus and
\* the manager it works for (lifespan, _shutdown).
LifespanOrderly ==
    /\ lsStage = "serving" =>
          /\ {"valkey", "manager", "bus", "bridge", "orderBridge"} \subseteq lsOpen
          /\ {"engine", "sentry", "broker"} \subseteq lsOpen \cup lsBroken
          /\ lsFile # "read" \/ FileProviders # {} => lsProviders # {}
    /\ lsStage = "stopped" => lsOpen \subseteq lsBroken
    /\ \A r \in (lsOpen \cap DOMAIN Uses) \ lsBroken : Uses[r] \subseteq lsOpen
=============================================================================
