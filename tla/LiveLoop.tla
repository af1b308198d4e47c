------------------------------ MODULE LiveLoop ------------------------------
(***************************************************************************)
(* The live-trading loop, engine/core/live/loop.py: LiveLoop.submit runs   *)
(* the risk gate (engine/core/oms/risk.py), awaits the broker and records  *)
(* the outcome; LiveLoop.apply_broker_event correlates an event with the   *)
(* order by broker id and applies it (OmsOrder).  The kill-switch it       *)
(* checks and engages is the state of engine/core/live/kill_switch.py.     *)
(*                                                                         *)
(* asyncio interleaves tasks only at an await, so submit is two steps: up  *)
(* to "await broker.submit", and from its outcome to the return.  Between  *)
(* them other submits, event deliveries and the operator run.              *)
(*                                                                         *)
(* The broker is external: it is what BrokerAdapter (core/brokers/base.py) *)
(* lets an adapter do.  It may accept an order and lose the reply, may     *)
(* fill in parts, race a fill with a cancel, expire or reject late, and    *)
(* replay its last event after a reconnect.  The caller is external too:   *)
(* it retries a connection error, and asks for cancels.                    *)
(***************************************************************************)
EXTENDS OmsOrder, Sequences, SequencesExt, FiniteSets

CONSTANTS
    Orders,         \* orders minted by the engine (OMS ids)
    BrokerIds,      \* broker order ids the broker may hand out
    Quantity,       \* [Orders -> positive quantity]
    Prices,         \* prices of fills and reference prices; 0 = no reference price
    MaxQuantity,    \* MaxOrderQuantity.limit
    MaxNotional,    \* MaxOrderNotional.limit
    MaxAttempts,    \* bound: submit calls a caller makes for one order
    MaxEngage,      \* bound: times the kill-switch is engaged
    MaxReplay,      \* bound: events the broker replays per order
    PersisterOutcomes, \* outcomes of a persister call: TRUE stores, FALSE raises
    CancelRejects,  \* whether the broker may reject a cancel
    None            \* absence of an order or a broker id

ASSUME LiveLoopAssumption ==
    /\ Quantity \in [Orders -> Nat \ {0}]
    /\ Prices \subseteq Nat
    /\ MaxQuantity \in Nat \ {0} /\ MaxNotional \in Nat \ {0}
    /\ MaxAttempts \in Nat /\ MaxEngage \in Nat /\ MaxReplay \in Nat
    /\ CancelRejects \in BOOLEAN
    /\ PersisterOutcomes \subseteq BOOLEAN /\ PersisterOutcomes # {}
    /\ None \notin Orders /\ None \notin BrokerIds

VARIABLES
    ks,           \* kill-switch state: "engaged" or "disengaged"
    engagements,  \* how often it was engaged (history)
    call,         \* where the caller's submit of each order is
    attempts,     \* submit calls made so far for each order
    accepted,     \* broker id whose acceptance the awaited call will return
    gate,         \* value of engagements when the order last passed the gate (history)
    byOmsId,      \* LiveLoop._by_oms_id
    brokerToOms,  \* LiveLoop._broker_to_oms
    stored,       \* the last order each persister call managed to store
    broker,       \* the broker's own books, per broker id
    ledger        \* what became of the shares reported per broker id (history)

loopVars == <<byOmsId, brokerToOms, stored>>
callVars == <<call, attempts, accepted, gate>>
killVars == <<ks, engagements>>
vars == <<ks, engagements, call, attempts, accepted, gate, byOmsId,
          brokerToOms, stored, broker, ledger>>

CallStates == {"idle", "awaiting", "connection_error", "auth_error", "returned"}
BrokerStatus == {"none", "working", "filled", "cancelled", "rejected", "expired"}

(* The orders, events, books and histories the variables hold. *)
OrderRecord == [quantity : Nat, status : OrderStatus, filled : Nat, notional : Nat]
Event == [kind : PlainKinds \cup FillKinds, qty : Nat, price : Nat]
Book == [oms : Orders \cup {None}, status : BrokerStatus, executed : Nat,
         events : Seq(Event), next : Nat \ {0}, cancelReq : BOOLEAN,
         gate : Nat, acceptedAt : Nat, underKill : BOOLEAN]
Ledger == [applied : Nat, lost : Nat, refused : Nat, replayed : Nat,
           replays : Nat, gaps : Nat]

ASSUME NoneIsNotAnOrder == None \notin OrderRecord

EmptyBook == [oms |-> None, status |-> "none", executed |-> 0, events |-> <<>>,
              next |-> 1, cancelReq |-> FALSE, gate |-> 0, acceptedAt |-> 0,
              underKill |-> FALSE]
EmptyLedger == [applied |-> 0, lost |-> 0, refused |-> 0, replayed |-> 0,
                replays |-> 0, gaps |-> 0]

Init ==
    /\ ks = "disengaged" /\ engagements = 0
    /\ call = [o \in Orders |-> "idle"]
    /\ attempts = [o \in Orders |-> 0]
    /\ accepted = [o \in Orders |-> None]
    /\ gate = [o \in Orders |-> 0]
    /\ byOmsId = [o \in Orders |-> None]
    /\ brokerToOms = [b \in BrokerIds |-> None]
    /\ stored = [o \in Orders |-> None]
    /\ broker = [b \in BrokerIds |-> EmptyBook]
    /\ ledger = [b \in BrokerIds |-> EmptyLedger]

----------------------------------------
(* The risk gate. *)

(* Mutant: the gate is built without the kill-switch check. *)
MutNoKillSwitchCheck == TRUE

KillSwitchCheck == ks = "disengaged"

MaxOrderQuantityCheck(o) == Quantity[o] <= MaxQuantity

(* Approves silently when there is no positive reference price. *)
MaxOrderNotionalCheck(o, price) == price > 0 => Quantity[o] * price <= MaxNotional

(* RiskGate.evaluate: the first rejecting check wins, so it approves when all do. *)
GateApproves(o, price) ==
    /\ KillSwitchCheck
    /\ MaxOrderQuantityCheck(o)
    /\ MaxOrderNotionalCheck(o, price)

(* Mutant: terminal orders are dropped from the registry. *)
MutTrackForgetsTerminal(o, order) ==
    /\ byOmsId' = [byOmsId EXCEPT ![o] = IF IsTerminal(order.status) THEN None ELSE order]
    /\ \E ok \in PersisterOutcomes : stored' = IF ok THEN [stored EXCEPT ![o] = order] ELSE stored

(* _track: overwrite the registry entry, then call the persister, whose
   failure is logged and swallowed. *)
Track(o, order) ==
    /\ byOmsId' = [byOmsId EXCEPT ![o] = order]
    /\ \E ok \in PersisterOutcomes : stored' = IF ok THEN [stored EXCEPT ![o] = order] ELSE stored

----------------------------------------
(* LiveLoop.submit.  The order the caller passes is the frozen NEW order. *)

Minted(o) == NewOrder(Quantity[o])

MayCall(o) ==
    /\ call[o] \in {"idle", "connection_error"}
    /\ attempts[o] < MaxAttempts

SubmitGateRejects(o) ==
    /\ MayCall(o)
    /\ \E price \in Prices : ~GateApproves(o, price)
    /\ Track(o, ApplyEvent(Minted(o), PlainEvent("reject")))
    /\ call' = [call EXCEPT ![o] = "returned"]
    /\ attempts' = [attempts EXCEPT ![o] = @ + 1]
    /\ UNCHANGED <<killVars, accepted, gate, brokerToOms, broker, ledger>>

SubmitPassesGate(o) ==
    /\ MayCall(o)
    /\ \E price \in Prices : GateApproves(o, price)
    /\ call' = [call EXCEPT ![o] = "awaiting"]
    /\ attempts' = [attempts EXCEPT ![o] = @ + 1]
    /\ accepted' = [accepted EXCEPT ![o] = None]
    /\ gate' = [gate EXCEPT ![o] = engagements]
    /\ UNCHANGED <<killVars, loopVars, broker, ledger>>

(* Mutant: the mapping is written the wrong way round. *)
MutMappingSwapped(o) ==
    /\ call[o] = "awaiting" /\ accepted[o] # None
    /\ Track(o, ApplyEvent(Minted(o), PlainEvent("submit")))
    /\ brokerToOms' = [brokerToOms EXCEPT ![accepted[o]] = accepted[o]]
    /\ call' = [call EXCEPT ![o] = "returned"]
    /\ UNCHANGED <<killVars, attempts, accepted, gate, broker, ledger>>

(* broker.submit returned: SubmitEvent, _track, then the id mapping. *)
SubmitSucceeds(o) ==
    /\ call[o] = "awaiting" /\ accepted[o] # None
    /\ Accepts(Minted(o), PlainEvent("submit"))
    /\ Track(o, ApplyEvent(Minted(o), PlainEvent("submit")))
    /\ brokerToOms' = [brokerToOms EXCEPT ![accepted[o]] = o]
    /\ call' = [call EXCEPT ![o] = "returned"]
    /\ UNCHANGED <<killVars, attempts, accepted, gate, broker, ledger>>

(* BrokerRejectError: the order is tracked as rejected and returned. *)
SubmitBrokerRejects(o) ==
    /\ call[o] = "awaiting" /\ accepted[o] = None
    /\ Track(o, ApplyEvent(Minted(o), PlainEvent("reject")))
    /\ call' = [call EXCEPT ![o] = "returned"]
    /\ UNCHANGED <<killVars, attempts, accepted, gate, brokerToOms, broker, ledger>>

(* BrokerAuthError: engage the kill-switch (a no-op when engaged) and re-raise. *)
SubmitAuthError(o) ==
    /\ call[o] = "awaiting" /\ accepted[o] = None
    /\ ks = "disengaged" => engagements < MaxEngage
    /\ ks' = "engaged"
    /\ engagements' = IF ks = "engaged" THEN engagements ELSE engagements + 1
    /\ call' = [call EXCEPT ![o] = "auth_error"]
    /\ UNCHANGED <<attempts, accepted, gate, loopVars, broker, ledger>>

(* Mutant: an id heard of before the connection broke is mapped at once. *)
MutMapOnConnectionError(o) ==
    /\ call[o] = "awaiting"
    /\ call' = [call EXCEPT ![o] = "connection_error"]
    /\ brokerToOms' = IF accepted[o] = None THEN brokerToOms
                      ELSE [brokerToOms EXCEPT ![accepted[o]] = o]
    /\ UNCHANGED <<killVars, attempts, accepted, gate, byOmsId, stored, broker, ledger>>

(* BrokerConnectionError: re-raised, nothing tracked; the broker may or may
   not have accepted the order before the connection was lost. *)
SubmitConnectionError(o) ==
    /\ call[o] = "awaiting"
    /\ call' = [call EXCEPT ![o] = "connection_error"]
    /\ UNCHANGED <<killVars, attempts, accepted, gate, loopVars, broker, ledger>>

----------------------------------------
(* LiveLoop.apply_broker_event: the consumer takes the broker's next event. *)

NextEvent(b) == broker[b].events[broker[b].next]

EventQty(e) == IF e.kind \in FillKinds THEN e.qty ELSE 0

HasEvent(b) == broker[b].next <= Len(broker[b].events)

Advance(b) == broker' = [broker EXCEPT ![b].next = @ + 1]

WithLost(l, qty) == [l EXCEPT !.lost = @ + qty, !.gaps = @ + 1]

(* No order is mapped to the broker id: UnknownOrderError, the event is gone. *)
ApplyUnknown(b) ==
    /\ HasEvent(b) /\ brokerToOms[b] = None
    /\ Advance(b)
    /\ ledger' = [ledger EXCEPT ![b] = WithLost(ledger[b], EventQty(NextEvent(b)))]
    /\ UNCHANGED <<killVars, callVars, loopVars>>

ApplyBrokerEvent(b) ==
    /\ HasEvent(b) /\ brokerToOms[b] # None
    /\ LET o == brokerToOms[b]
           e == NextEvent(b)
       IN  /\ Accepts(byOmsId[o], e)
           /\ Track(o, ApplyEvent(byOmsId[o], e))
           /\ ledger' = [ledger EXCEPT ![b].applied = @ + EventQty(e)]
    /\ Advance(b)
    /\ UNCHANGED <<killVars, callVars, brokerToOms>>

(* apply_event raises: the order is left as it was and the event is gone. *)
ApplyRefused(b) ==
    /\ HasEvent(b) /\ brokerToOms[b] # None
    /\ ~Accepts(byOmsId[brokerToOms[b]], NextEvent(b))
    /\ Advance(b)
    /\ ledger' = [ledger EXCEPT ![b].refused = @ + EventQty(NextEvent(b))]
    /\ UNCHANGED <<killVars, callVars, loopVars>>

(* The caller asks for a cancel: it records CancelEvent(requested=True) and
   calls broker.cancel; the broker answers with later events. *)
RequestCancel(b) ==
    /\ brokerToOms[b] # None /\ ~broker[b].cancelReq
    /\ LET o == brokerToOms[b]
           e == PlainEvent("cancel_request")
       IN  /\ Accepts(byOmsId[o], e)
           /\ Track(o, ApplyEvent(byOmsId[o], e))
    /\ broker' = [broker EXCEPT ![b].cancelReq = TRUE]
    /\ UNCHANGED <<killVars, callVars, brokerToOms, ledger>>

----------------------------------------
(* The operator and the kill-switch (KillSwitch.tla has it in detail). *)

Engage ==
    /\ ks = "disengaged" /\ engagements < MaxEngage
    /\ ks' = "engaged" /\ engagements' = engagements + 1
    /\ UNCHANGED <<callVars, loopVars, broker, ledger>>

Disengage ==
    /\ ks = "engaged"
    /\ ks' = "disengaged"
    /\ UNCHANGED <<engagements, callVars, loopVars, broker, ledger>>

----------------------------------------
(* The broker. *)

Emit(b, e) == [broker[b] EXCEPT !.events = Append(@, e)]

BrokerAccepts(o, b) ==
    /\ call[o] = "awaiting" /\ accepted[o] = None
    /\ broker[b].status = "none"
    /\ accepted' = [accepted EXCEPT ![o] = b]
    /\ broker' = [broker EXCEPT ![b] =
                    [Emit(b, PlainEvent("ack")) EXCEPT
                        !.oms = o, !.status = "working", !.gate = gate[o],
                        !.acceptedAt = engagements, !.underKill = (ks = "engaged")]]
    /\ UNCHANGED <<killVars, call, attempts, gate, loopVars, ledger>>

(* An execution; only the one that completes the order may be reported as final. *)
BrokerFills(b) ==
    /\ broker[b].status = "working"
    /\ LET left == Quantity[broker[b].oms] - broker[b].executed
       IN  \E q \in 1..left, p \in Prices \ {0}, kind \in FillKinds :
            /\ kind = "fill" => q = left
            /\ broker' = [broker EXCEPT ![b] =
                            [Emit(b, [kind |-> kind, qty |-> q, price |-> p]) EXCEPT
                                !.executed = @ + q,
                                !.status = IF q = left THEN "filled" ELSE @]]
    /\ UNCHANGED <<killVars, callVars, loopVars, ledger>>

(* The broker takes the order off the book: on a cancel (ours or its own),
   at its time in force, or by a late reject before anything traded. *)
BrokerStops(b, kind, status) ==
    /\ broker[b].status = "working"
    /\ kind = "reject" => broker[b].executed = 0 /\ ~broker[b].cancelReq
    /\ broker' = [broker EXCEPT ![b] =
                    [Emit(b, PlainEvent(kind)) EXCEPT !.status = status]]
    /\ UNCHANGED <<killVars, callVars, loopVars, ledger>>

(* A cancel attempt is rejected: RejectEvent is also the event for that, and
   the order keeps working. *)
BrokerRejectsCancel(b) ==
    /\ CancelRejects
    /\ broker[b].status = "working" /\ broker[b].cancelReq
    /\ broker' = [broker EXCEPT ![b] =
                    [Emit(b, PlainEvent("reject")) EXCEPT !.cancelReq = FALSE]]
    /\ UNCHANGED <<killVars, callVars, loopVars, ledger>>

WithReplayed(l, qty) == [l EXCEPT !.replayed = @ + qty, !.replays = @ + 1]

(* A reconnect replays the last delivered event. *)
BrokerReplays(b) ==
    /\ broker[b].next - 1 \in DOMAIN broker[b].events /\ ledger[b].replays < MaxReplay
    /\ broker' = [broker EXCEPT ![b].next = @ - 1]
    /\ ledger' = [ledger EXCEPT ![b] =
                    WithReplayed(ledger[b], EventQty(broker[b].events[broker[b].next - 1]))]
    /\ UNCHANGED <<killVars, callVars, loopVars>>

----------------------------------------
Submit(o) ==
    \/ SubmitGateRejects(o)
    \/ SubmitPassesGate(o)
    \/ SubmitSucceeds(o)
    \/ SubmitBrokerRejects(o)
    \/ SubmitAuthError(o)
    \/ SubmitConnectionError(o)

Consume(b) == ApplyUnknown(b) \/ ApplyBrokerEvent(b) \/ ApplyRefused(b)

BrokerStep(b) ==
    \/ BrokerFills(b)
    \/ BrokerStops(b, "cancel", "cancelled")
    \/ BrokerStops(b, "expire", "expired")
    \/ BrokerStops(b, "reject", "rejected")

Next ==
    \/ \E o \in Orders : Submit(o)
    \/ \E o \in Orders, b \in BrokerIds : BrokerAccepts(o, b)
    \/ \E b \in BrokerIds : Consume(b)
    \/ \E b \in BrokerIds : RequestCancel(b)
    \/ \E b \in BrokerIds : BrokerStep(b)
    \/ \E b \in BrokerIds : BrokerRejectsCancel(b)
    \/ \E b \in BrokerIds : BrokerReplays(b)
    \/ Engage
    \/ Disengage

Spec == Init /\ [][Next]_vars

(* The consumer task keeps draining events; an awaited call ends; a broker
   that was asked to cancel acts on the order. *)
Fairness ==
    /\ \A b \in BrokerIds : WF_vars(Consume(b))
    /\ \A o \in Orders : WF_vars(call[o] = "awaiting" /\ Submit(o))
    /\ \A b \in BrokerIds : WF_vars(broker[b].cancelReq /\ BrokerStep(b))

FairSpec == Spec /\ Fairness

----------------------------------------
(* Properties. *)

(* Every variable of the loop keeps its shape. *)
TypeOK ==
    /\ ks \in {"engaged", "disengaged"}
    /\ engagements \in Nat
    /\ call \in [Orders -> CallStates]
    /\ attempts \in [Orders -> Nat]
    /\ accepted \in [Orders -> BrokerIds \cup {None}]
    /\ gate \in [Orders -> Nat]
    /\ byOmsId \in [Orders -> OrderRecord \cup {None}]
    /\ stored \in [Orders -> OrderRecord \cup {None}]
    /\ brokerToOms \in [BrokerIds -> Orders \cup {None}]
    /\ broker \in [BrokerIds -> Book]
    /\ ledger \in [BrokerIds -> Ledger]

(* loop.py 194-195, 217-222: a broker id leads to the one order it was accepted
   for, that order is tracked, and no two broker ids lead to the same order,
   whatever retries and lost replies came before. *)
CorrelationSound ==
    \A b \in BrokerIds : brokerToOms[b] # None =>
        /\ brokerToOms[b] = broker[b].oms
        /\ byOmsId[brokerToOms[b]] # None
        /\ \A c \in BrokerIds : brokerToOms[c] = brokerToOms[b] => c = b

Reported(b) == [i \in DOMAIN broker[b].events |-> EventQty(broker[b].events[i])]

(* The shares of the events that are still queued. *)
PendingQty(b) ==
    MapThenSumSet(LAMBDA i : Reported(b)[i], broker[b].next..Len(broker[b].events))

(* order.py 192-199: over partial fills and replays the average fill price stays
   between the lowest and the highest price the broker traded at. *)
AverageWithinTraded ==
    \A b \in BrokerIds :
        (brokerToOms[b] # None /\ byOmsId[brokerToOms[b]].filled > 0) =>
            LET o == byOmsId[brokerToOms[b]]
                traded == {e \in ToSet(broker[b].events) : e.kind \in FillKinds}
            IN  /\ \E e \in traded : e.price * o.filled <= o.notional
                /\ \E e \in traded : e.price * o.filled >= o.notional

(* apply_broker_event neither invents nor silently drops shares: what an order
   shows as filled is what its events applied, and every share the broker
   executed or replayed is applied, still queued, lost with UnknownOrderError,
   or refused by the state machine; what it cost stays within what was traded. *)
FillsAccounted ==
    /\ AverageWithinTraded
    /\ \A b \in BrokerIds :
        /\ brokerToOms[b] # None =>
              byOmsId[brokerToOms[b]].filled = ledger[b].applied
        /\ ledger[b].applied + ledger[b].lost + ledger[b].refused + PendingQty(b)
              = broker[b].executed + ledger[b].replayed

(* order.py 123-150: no sequence of broker events, replays included, overfills
   an order, and FILLED means exactly that the quantity is complete. *)
FilledIffComplete ==
    \A o \in Orders : byOmsId[o] # None =>
        /\ 0 <= byOmsId[o].filled /\ byOmsId[o].filled <= Quantity[o]
        /\ byOmsId[o].status = "filled" <=> byOmsId[o].filled = Quantity[o]

(* states.py 54-56, "reverse transitions are intentionally excluded": a tracked
   order that reached a terminal status is never changed again, not by late
   events, a cancel request, a retry or a second submit. *)
TerminalIsFinal ==
    [][\A o \in Orders :
        (byOmsId[o] # None /\ IsTerminal(byOmsId[o].status)) =>
            byOmsId'[o] = byOmsId[o]]_vars

(* states.py 57-103: the only fill event the state machine turns away is one
   that follows a lost or replayed event; a race of fills with cancels alone
   never makes it refuse shares the broker really traded. *)
RefusedOnlyAfterGap ==
    \A b \in BrokerIds : ledger[b].refused > 0 =>
        ledger[b].lost > 0 \/ ledger[b].replays > 0

(* states.py 96: while the broker still works an order, whose events were neither
   lost nor replayed, the OMS must not hold it as terminal. *)
WorkingNotTerminal ==
    \A b \in BrokerIds :
        (brokerToOms[b] # None /\ broker[b].status = "working"
            /\ ledger[b].replays = 0) =>
                ~IsTerminal(byOmsId[brokerToOms[b]].status)

(* kill_switch.py 3-6: an order that the broker accepted while the switch was
   engaged had passed the gate before that engagement; the check-then-await of
   submit lets through what was in flight and nothing later. *)
OnlyInFlightPassKillSwitch ==
    \A b \in BrokerIds : broker[b].underKill => broker[b].gate < broker[b].acceptedAt

(* loop.py 255-265: with the persister failing at will, what it holds is an
   earlier state of the order: never ahead of the registry in fills, and a
   terminal stored order is the registry's. *)
StoredNeverAhead ==
    \A o \in Orders : stored[o] # None =>
        /\ byOmsId[o] # None
        /\ stored[o].filled <= byOmsId[o].filled
        /\ IsTerminal(stored[o].status) => stored[o] = byOmsId[o]

(* The status of the order a broker id leads to. *)
StatusOf(b) ==
    IF brokerToOms[b] = None THEN "new" ELSE byOmsId[brokerToOms[b]].status

(* base.py 105-112, the filled-before-cancel race: an order whose cancel was
   requested leaves CANCEL_REQUESTED for a terminal status, unless the broker
   expired it (no transition for that) or replayed; orders with an event lost
   before the submit returned are left out. *)
CancelResolves ==
    \A b \in BrokerIds :
        (brokerToOms[b] # None /\ broker[b].cancelReq /\ ledger[b].gaps = 0) ~>
            \/ IsTerminal(StatusOf(b))
            \/ broker[b].status = "expired"
            \/ ledger[b].replays > 0

(* kill_switch.py 4-5, "When engaged, the engine must ... attempt to cancel
   resting orders": while the switch stays engaged every tracked order is
   cancelled, asked to be, or ends by itself. *)
KillSwitchCancelsResting ==
    \A b \in BrokerIds :
        (ks = "engaged" /\ brokerToOms[b] # None /\ broker[b].status = "working") ~>
            \/ ks = "disengaged"
            \/ broker[b].cancelReq
            \/ IsTerminal(StatusOf(b))
=============================================================================
