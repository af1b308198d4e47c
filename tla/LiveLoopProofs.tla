--------------------------- MODULE LiveLoopProofs ---------------------------
(***************************************************************************)
(* Proofs about LiveLoop for every set of orders, every number of broker   *)
(* ids, any quantities and prices, and any number of retries, replays and  *)
(* engagements.                                                            *)
(***************************************************************************)
EXTENDS LiveLoop, SumLemmas, TLAPS

----------------------------------------
(* Lemmas about Order.apply_event. *)

(* An order whose filled quantity and status agree. *)
Consistent(r) ==
    /\ r.filled <= r.quantity
    /\ r.status = "filled" <=> r.filled = r.quantity

(* No status is left once it is terminal: apply_event raises for every event. *)
LEMMA TerminalRefuses ==
    ASSUME NEW r \in OrderRecord, NEW e \in Event, IsTerminal(r.status)
    PROVE  ~Accepts(r, e)
  <1>1. r.status \in OrderStatus BY DEF OrderRecord
  <1>2. ValidTransitions[r.status] = {}
    BY <1>1 DEF IsTerminal, Terminal, ValidTransitions, OrderStatus
  <1> QED BY <1>2 DEF Accepts, CanTransition

(* What apply_event returns is an order of the same quantity whose filled
   quantity grew by exactly what the event reports. *)
LEMMA ApplyEventType ==
    ASSUME NEW r \in OrderRecord, NEW e \in Event
    PROVE  /\ ApplyEvent(r, e) \in OrderRecord
           /\ ApplyEvent(r, e).quantity = r.quantity
           /\ ApplyEvent(r, e).status = TargetStatus(r, e)
           /\ ApplyEvent(r, e).filled = r.filled + EventQty(e)
           /\ EventQty(e) \in Nat
  <1>1. /\ r.quantity \in Nat /\ r.filled \in Nat /\ r.notional \in Nat
        /\ r.status \in OrderStatus
        /\ e.kind \in PlainKinds \cup FillKinds /\ e.qty \in Nat /\ e.price \in Nat
    BY DEF OrderRecord, Event
  <1>2. TargetStatus(r, e) \in OrderStatus
    BY <1>1 DEF TargetStatus, OrderStatus, PlainKinds, FillKinds
  <1>3. NewFilled(r, e) = r.filled + EventQty(e) /\ EventQty(e) \in Nat
    BY <1>1 DEF NewFilled, EventQty
  <1>4. e.qty * e.price \in Nat BY <1>1
  <1> DEFINE n == r.notional + (IF e.kind \in FillKinds THEN e.qty * e.price ELSE 0)
             t == TargetStatus(r, e)
             f == NewFilled(r, e)
  <1>5. n \in Nat BY <1>1, <1>4
  <1>6. ApplyEvent(r, e) = [r EXCEPT !.status = t, !.filled = f, !.notional = n] BY DEF ApplyEvent
  <1>7. t \in OrderStatus /\ f \in Nat BY <1>1, <1>2, <1>3
  <1>8. t = TargetStatus(r, e) /\ f = r.filled + EventQty(e) BY <1>3
  <1> HIDE DEF n, t, f
  <1> QED BY <1>3, <1>5, <1>6, <1>7, <1>8 DEF OrderRecord

(* apply_event keeps status and filled quantity in agreement. *)
LEMMA ApplyEventConsistent ==
    ASSUME NEW r \in OrderRecord, NEW e \in Event,
           Consistent(r), Accepts(r, e)
    PROVE  Consistent(ApplyEvent(r, e))
  <1>1. /\ r.quantity \in Nat /\ r.filled \in Nat /\ r.status \in OrderStatus
        /\ e.kind \in PlainKinds \cup FillKinds /\ e.qty \in Nat
    BY DEF OrderRecord, Event
  <1>2. r.status # "filled" /\ r.filled < r.quantity
    BY <1>1, TerminalRefuses DEF Consistent, IsTerminal, Terminal
  <1>3. /\ ApplyEvent(r, e).quantity = r.quantity
        /\ ApplyEvent(r, e).status = TargetStatus(r, e)
        /\ ApplyEvent(r, e).filled = r.filled + EventQty(e)
    BY ApplyEventType
  <1>4. CASE e.kind = "fill"
    BY <1>1, <1>3, <1>4 DEF Accepts, NewFilled, EventQty, FillKinds,
                            TargetStatus, Consistent
  <1>5. CASE e.kind = "partial_fill"
    BY <1>1, <1>3, <1>5 DEF Accepts, GuardFill, NewFilled, EventQty, FillKinds,
                            TargetStatus, Consistent
  <1>6. CASE e.kind \in PlainKinds
   <2>1. EventQty(e) = 0 BY <1>6 DEF EventQty, PlainKinds, FillKinds
   <2>2. TargetStatus(r, e) # "filled" BY <1>6 DEF TargetStatus, PlainKinds
   <2> QED BY <1>1, <1>2, <1>3, <2>1, <2>2 DEF Consistent
  <1> QED BY <1>1, <1>4, <1>5, <1>6 DEF FillKinds

(* The events the loop makes itself are events. *)
LEMMA PlainEventType ==
    ASSUME NEW kind \in PlainKinds
    PROVE  PlainEvent(kind) \in Event /\ PlainEvent(kind).kind = kind
                /\ EventQty(PlainEvent(kind)) = 0
  BY DEF PlainEvent, Event, PlainKinds, FillKinds, EventQty

(* The order the caller mints is consistent, and stays so when it is submitted
   or rejected before it was ever worked. *)
LEMMA MintedOrder ==
    ASSUME NEW o \in Orders, NEW kind \in {"submit", "reject"}
    PROVE  LET r == ApplyEvent(Minted(o), PlainEvent(kind))
           IN  /\ r \in OrderRecord /\ Consistent(r)
               /\ r.quantity = Quantity[o] /\ r.filled = 0
  <1>1. Quantity[o] \in Nat \ {0} BY LiveLoopAssumption
  <1>2. Minted(o) \in OrderRecord /\ Minted(o).quantity = Quantity[o]
            /\ Minted(o).filled = 0 /\ Minted(o).status = "new"
    BY <1>1 DEF Minted, NewOrder, OrderRecord, OrderStatus
  <1>3. kind \in PlainKinds BY DEF PlainKinds
  <1>4. PlainEvent(kind) \in Event /\ EventQty(PlainEvent(kind)) = 0
            /\ PlainEvent(kind).kind = kind
    BY <1>3, PlainEventType
  <1>5. TargetStatus(Minted(o), PlainEvent(kind)) # "filled" BY <1>4 DEF TargetStatus
  <1> QED BY <1>1, <1>2, <1>4, <1>5, ApplyEventType DEF Consistent

----------------------------------------
(* The inductive invariant. *)

(* A tracked order is consistent and keeps the quantity it was minted with. *)
RegistryInv ==
    \A o \in Orders : byOmsId[o] # None =>
        byOmsId[o].quantity = Quantity[o] /\ Consistent(byOmsId[o])

(* Nothing is tracked for an order before its submit returned. *)
UntrackedUntilReturn ==
    \A o \in Orders : call[o] # "returned" => byOmsId[o] = None

(* A mapped broker id is the one the returned submit call got from the broker. *)
MappingInv ==
    \A b \in BrokerIds : brokerToOms[b] # None =>
        /\ call[brokerToOms[b]] = "returned"
        /\ accepted[brokerToOms[b]] = b
        /\ byOmsId[brokerToOms[b]] # None

(* The broker knows the order of every id it handed out. *)
BooksInv ==
    /\ \A o \in Orders : accepted[o] # None =>
          broker[accepted[o]].oms = o /\ broker[accepted[o]].status # "none"
    /\ \A b \in BrokerIds : broker[b].status # "none" => broker[b].oms \in Orders

(* An order shows as filled exactly what was applied for its broker id. *)
AppliedInv ==
    \A b \in BrokerIds :
        ledger[b].applied = IF brokerToOms[b] = None THEN 0
                            ELSE byOmsId[brokerToOms[b]].filled

(* The gate reading of an awaited call is older than a current engagement. *)
KillInv ==
    /\ \A o \in Orders : gate[o] <= engagements
    /\ \A o \in Orders : call[o] = "awaiting" /\ ks = "engaged" => gate[o] < engagements

Inv ==
    /\ TypeOK
    /\ RegistryInv
    /\ UntrackedUntilReturn
    /\ MappingInv
    /\ BooksInv
    /\ AppliedInv
    /\ KillInv
    /\ OnlyInFlightPassKillSwitch
    /\ StoredNeverAhead

(* The inductive invariant holds at the start. *)
LEMMA InitInv == Init => Inv
  <1> SUFFICES ASSUME Init PROVE Inv
    OBVIOUS
  <1> USE LiveLoopAssumption, NoneIsNotAnOrder DEF Init
  <1>1. EmptyBook \in Book /\ EmptyLedger \in Ledger
   <2>1. <<>> \in Seq(Event) OBVIOUS
   <2> QED BY <2>1 DEF EmptyBook, Book, BrokerStatus, EmptyLedger, Ledger
  <1>2. TypeOK BY <1>1 DEF TypeOK, CallStates
  <1>3. RegistryInv /\ UntrackedUntilReturn /\ MappingInv /\ KillInv /\ StoredNeverAhead
    BY DEF RegistryInv, UntrackedUntilReturn, MappingInv, KillInv, StoredNeverAhead
  <1>4. BooksInv /\ AppliedInv /\ OnlyInFlightPassKillSwitch
    BY DEF BooksInv, AppliedInv, OnlyInFlightPassKillSwitch, EmptyBook, EmptyLedger
  <1> QED BY <1>2, <1>3, <1>4 DEF Inv

(* _track writes one registry entry and at most the same entry of the store. *)
LEMMA TrackEffect ==
    ASSUME TypeOK, NEW o \in Orders, NEW r \in OrderRecord, Track(o, r)
    PROVE  /\ byOmsId' \in [Orders -> OrderRecord \cup {None}]
           /\ stored' \in [Orders -> OrderRecord \cup {None}]
           /\ byOmsId'[o] = r /\ r # None
           /\ \A p \in Orders \ {o} : byOmsId'[p] = byOmsId[p] /\ stored'[p] = stored[p]
           /\ stored'[o] \in {r, stored[o]}
  <1>1. /\ byOmsId \in [Orders -> OrderRecord \cup {None}]
        /\ stored \in [Orders -> OrderRecord \cup {None}]
    BY DEF TypeOK
  <1>2. byOmsId' = [byOmsId EXCEPT ![o] = r] BY DEF Track
  <1>3. stored' = stored \/ stored' = [stored EXCEPT ![o] = r] BY DEF Track
  <1> QED BY <1>1, <1>2, <1>3, NoneIsNotAnOrder

(* A submit that returns tracks the order for the first time. *)
LEMMA FirstTrack ==
    ASSUME Inv, NEW o \in Orders, NEW kind \in {"submit", "reject"},
           call[o] # "returned",
           Track(o, ApplyEvent(Minted(o), PlainEvent(kind)))
    PROVE  /\ byOmsId' \in [Orders -> OrderRecord \cup {None}]
           /\ stored' \in [Orders -> OrderRecord \cup {None}]
           /\ byOmsId'[o] # None /\ byOmsId'[o].filled = 0
           /\ \A p \in Orders \ {o} : byOmsId'[p] = byOmsId[p]
           /\ RegistryInv' /\ StoredNeverAhead'
  <1> DEFINE r == ApplyEvent(Minted(o), PlainEvent(kind))
  <1>1. /\ r \in OrderRecord /\ Consistent(r)
        /\ r.quantity = Quantity[o] /\ r.filled = 0
    BY MintedOrder
  <1>2. Track(o, r) OBVIOUS
  <1> HIDE DEF r
  <1>3. /\ byOmsId' \in [Orders -> OrderRecord \cup {None}]
        /\ stored' \in [Orders -> OrderRecord \cup {None}]
        /\ byOmsId'[o] = r /\ r # None
        /\ \A p \in Orders \ {o} : byOmsId'[p] = byOmsId[p] /\ stored'[p] = stored[p]
        /\ stored'[o] \in {r, stored[o]}
    BY <1>1, <1>2, TrackEffect DEF Inv
  <1>4. byOmsId[o] = None /\ stored[o] = None BY DEF Inv, UntrackedUntilReturn, StoredNeverAhead
  <1>5. RegistryInv' BY <1>1, <1>3 DEF Inv, RegistryInv
  <1>6. StoredNeverAhead'
   <2> SUFFICES ASSUME NEW p \in Orders, stored'[p] # None
                PROVE  /\ byOmsId'[p] # None
                       /\ stored'[p].filled <= byOmsId'[p].filled
                       /\ IsTerminal(stored'[p].status) => stored'[p] = byOmsId'[p]
     BY DEF StoredNeverAhead
   <2>1. CASE p = o BY <1>1, <1>3, <1>4, <2>1
   <2>2. CASE p # o BY <1>3, <2>2 DEF Inv, StoredNeverAhead
   <2> QED BY <2>1, <2>2
  <1> QED BY <1>1, <1>3, <1>5, <1>6

(* Applying an accepted event to the order a broker id leads to. *)
LEMMA LaterTrack ==
    ASSUME Inv, NEW b \in BrokerIds, brokerToOms[b] # None, NEW e \in Event,
           Accepts(byOmsId[brokerToOms[b]], e),
           Track(brokerToOms[b], ApplyEvent(byOmsId[brokerToOms[b]], e))
    PROVE  LET o == brokerToOms[b]
           IN  /\ byOmsId' \in [Orders -> OrderRecord \cup {None}]
               /\ stored' \in [Orders -> OrderRecord \cup {None}]
               /\ o \in Orders /\ byOmsId'[o] # None
               /\ byOmsId'[o].filled = byOmsId[o].filled + EventQty(e)
               /\ EventQty(e) \in Nat
               /\ \A p \in Orders \ {o} : byOmsId'[p] = byOmsId[p]
               /\ RegistryInv' /\ StoredNeverAhead'
               /\ ~IsTerminal(byOmsId[o].status)
  <1> DEFINE o == brokerToOms[b]
             old == byOmsId[o]
             r == ApplyEvent(old, e)
  <1>1. o \in Orders /\ old \in OrderRecord BY DEF Inv, TypeOK, MappingInv
  <1>2. Consistent(old) /\ old.quantity = Quantity[o] /\ old.filled \in Nat
    BY <1>1, NoneIsNotAnOrder DEF Inv, RegistryInv, OrderRecord
  <1>3. /\ r \in OrderRecord /\ r.quantity = Quantity[o]
        /\ r.filled = old.filled + EventQty(e) /\ EventQty(e) \in Nat
    BY <1>1, <1>2, ApplyEventType
  <1>4. Consistent(r) BY <1>1, <1>2, ApplyEventConsistent
  <1>5. ~IsTerminal(old.status) BY <1>1, TerminalRefuses
  <1>6. Track(o, r) OBVIOUS
  <1>6a. old = byOmsId[o] /\ brokerToOms[b] = o OBVIOUS
  <1> HIDE DEF r, o, old
  <1>7. /\ byOmsId' \in [Orders -> OrderRecord \cup {None}]
        /\ stored' \in [Orders -> OrderRecord \cup {None}]
        /\ byOmsId'[o] = r /\ r # None
        /\ \A p \in Orders \ {o} : byOmsId'[p] = byOmsId[p] /\ stored'[p] = stored[p]
        /\ stored'[o] \in {r, stored[o]}
    BY <1>1, <1>3, <1>6, TrackEffect DEF Inv
  <1>8. RegistryInv' BY <1>3, <1>4, <1>7 DEF Inv, RegistryInv
  <1>9. StoredNeverAhead'
   <2> SUFFICES ASSUME NEW p \in Orders, stored'[p] # None
                PROVE  /\ byOmsId'[p] # None
                       /\ stored'[p].filled <= byOmsId'[p].filled
                       /\ IsTerminal(stored'[p].status) => stored'[p] = byOmsId'[p]
     BY DEF StoredNeverAhead
   <2>1. CASE p = o /\ stored'[o] = r
    <3>1. r.filled \in Nat BY <1>3 DEF OrderRecord
    <3> QED BY <1>7, <2>1, <3>1
   <2>2. CASE p = o /\ stored'[o] = stored[o]
    <3>1. /\ stored[o] # None /\ stored[o] \in OrderRecord
          /\ stored[o].filled <= old.filled
          /\ IsTerminal(stored[o].status) => stored[o] = old
      BY <1>1, <1>6a, <2>2 DEF Inv, TypeOK, StoredNeverAhead
    <3>2. stored[o].filled \in Nat BY <3>1 DEF OrderRecord
    <3>3. ~IsTerminal(stored[o].status) BY <1>5, <3>1
    <3> QED BY <1>2, <1>3, <1>7, <2>2, <3>1, <3>2, <3>3
   <2>3. CASE p # o BY <1>7, <2>3 DEF Inv, StoredNeverAhead
   <2> QED BY <1>7, <2>1, <2>2, <2>3
  <1> QED BY <1>1, <1>3, <1>5, <1>6a, <1>7, <1>8, <1>9

----------------------------------------
(* One lemma per group of actions: each preserves the invariant. *)

(* A submit refused by the gate or the broker keeps the invariant. *)
LEMMA RejectedSubmitInv ==
    ASSUME Inv, NEW o \in Orders, SubmitGateRejects(o) \/ SubmitBrokerRejects(o)
    PROVE  Inv'
  <1>1. /\ call[o] # "returned"
        /\ Track(o, ApplyEvent(Minted(o), PlainEvent("reject")))
        /\ call' = [call EXCEPT ![o] = "returned"]
        /\ attempts' = attempts \/ attempts' = [attempts EXCEPT ![o] = attempts[o] + 1]
        /\ UNCHANGED <<ks, engagements, accepted, gate, brokerToOms, broker, ledger>>
    BY DEF SubmitGateRejects, SubmitBrokerRejects, MayCall, killVars
  <1>2. /\ byOmsId' \in [Orders -> OrderRecord \cup {None}]
        /\ stored' \in [Orders -> OrderRecord \cup {None}]
        /\ byOmsId'[o] # None /\ byOmsId'[o].filled = 0
        /\ \A p \in Orders \ {o} : byOmsId'[p] = byOmsId[p]
        /\ RegistryInv' /\ StoredNeverAhead'
    BY <1>1, FirstTrack
  <1>3. TypeOK'
   <2>1. attempts \in [Orders -> Nat] /\ call \in [Orders -> CallStates] BY DEF Inv, TypeOK
   <2>2. attempts' \in [Orders -> Nat] BY <1>1, <2>1
   <2>3. call' \in [Orders -> CallStates] BY <1>1, <2>1 DEF CallStates
   <2> QED BY <1>1, <1>2, <2>2, <2>3 DEF Inv, TypeOK
  <1>4. UntrackedUntilReturn' BY <1>1, <1>2 DEF Inv, TypeOK, UntrackedUntilReturn
  <1>5. MappingInv' /\ AppliedInv'
   <2>1. \A b \in BrokerIds : brokerToOms[b] # o BY <1>1, LiveLoopAssumption DEF Inv, MappingInv
   <2> QED BY <1>1, <1>2, <2>1 DEF Inv, TypeOK, MappingInv, AppliedInv
  <1>6. BooksInv' /\ KillInv' /\ OnlyInFlightPassKillSwitch'
    BY <1>1 DEF Inv, TypeOK, BooksInv, KillInv, OnlyInFlightPassKillSwitch
  <1> QED BY <1>2, <1>3, <1>4, <1>5, <1>6 DEF Inv

(* A submit that succeeds keeps the invariant. *)
LEMMA SubmitSucceedsInv ==
    ASSUME Inv, NEW o \in Orders, SubmitSucceeds(o)
    PROVE  Inv'
  <1> DEFINE b == accepted[o]
  <1>1. /\ call[o] = "awaiting" /\ b # None
        /\ Track(o, ApplyEvent(Minted(o), PlainEvent("submit")))
        /\ brokerToOms' = [brokerToOms EXCEPT ![b] = o]
        /\ call' = [call EXCEPT ![o] = "returned"]
        /\ UNCHANGED <<ks, engagements, attempts, accepted, gate, broker, ledger>>
    BY DEF SubmitSucceeds, killVars
  <1>2. /\ byOmsId' \in [Orders -> OrderRecord \cup {None}]
        /\ stored' \in [Orders -> OrderRecord \cup {None}]
        /\ byOmsId'[o] # None /\ byOmsId'[o].filled = 0
        /\ \A p \in Orders \ {o} : byOmsId'[p] = byOmsId[p]
        /\ RegistryInv' /\ StoredNeverAhead'
    BY <1>1, FirstTrack
  <1>3. b \in BrokerIds /\ broker[b].oms = o BY <1>1 DEF Inv, TypeOK, BooksInv
  <1>4. TypeOK' BY <1>1, <1>2, <1>3 DEF Inv, TypeOK, CallStates
  <1>5. UntrackedUntilReturn' BY <1>1, <1>2 DEF Inv, TypeOK, UntrackedUntilReturn
  <1>6. \A c \in BrokerIds : brokerToOms[c] # o BY <1>1, LiveLoopAssumption DEF Inv, MappingInv
  <1>7. brokerToOms[b] = None
   <2>1. CASE brokerToOms[b] # None
    <3>1. brokerToOms[b] \in Orders /\ accepted[brokerToOms[b]] = b
      BY <1>3, <2>1 DEF Inv, TypeOK, MappingInv
    <3>2. broker[b].oms = brokerToOms[b] BY <1>1, <3>1 DEF Inv, BooksInv
    <3> QED BY <1>3, <1>6, <3>2
   <2> QED BY <2>1
  <1>8. MappingInv' BY <1>1, <1>2, <1>3, <1>6 DEF Inv, TypeOK, MappingInv
  <1>9. AppliedInv' BY <1>1, <1>2, <1>3, <1>6, <1>7, LiveLoopAssumption DEF Inv, TypeOK, AppliedInv
  <1>10. BooksInv' /\ KillInv' /\ OnlyInFlightPassKillSwitch'
    BY <1>1 DEF Inv, TypeOK, BooksInv, KillInv, OnlyInFlightPassKillSwitch
  <1> QED BY <1>2, <1>4, <1>5, <1>8, <1>9, <1>10 DEF Inv

(* A submit that passes the gate, or fails on the way, keeps the invariant. *)
LEMMA PassOrFailInv ==
    ASSUME Inv, NEW o \in Orders,
           SubmitPassesGate(o) \/ SubmitAuthError(o) \/ SubmitConnectionError(o)
    PROVE  Inv'
  <1>0. call[o] # "returned" /\ UNCHANGED <<byOmsId, brokerToOms, stored, broker, ledger>>
    BY DEF SubmitPassesGate, SubmitAuthError, SubmitConnectionError, MayCall, loopVars
  <1>1. \A b \in BrokerIds : brokerToOms[b] # o BY <1>0, LiveLoopAssumption DEF Inv, MappingInv
  <1>2. TypeOK'
   <2>1. CASE SubmitPassesGate(o)
     BY <1>0, <2>1 DEF Inv, TypeOK, SubmitPassesGate, CallStates, killVars
   <2>2. CASE SubmitAuthError(o) BY <1>0, <2>2 DEF Inv, TypeOK, SubmitAuthError, CallStates
   <2>3. CASE SubmitConnectionError(o)
     BY <1>0, <2>3 DEF Inv, TypeOK, SubmitConnectionError, CallStates, killVars
   <2> QED BY <2>1, <2>2, <2>3
  <1>3. RegistryInv' /\ StoredNeverAhead' /\ OnlyInFlightPassKillSwitch' /\ AppliedInv'
    BY <1>0 DEF Inv, RegistryInv, StoredNeverAhead, OnlyInFlightPassKillSwitch, AppliedInv
  <1>4. UntrackedUntilReturn' /\ MappingInv'
   <2>1. \A p \in Orders \ {o} : call'[p] = call[p] /\ accepted'[p] = accepted[p]
     BY DEF SubmitPassesGate, SubmitAuthError, SubmitConnectionError, Inv, TypeOK
   <2> QED BY <1>0, <1>1, <2>1 DEF Inv, TypeOK, UntrackedUntilReturn, MappingInv
  <1>5. BooksInv'
   <2>1. accepted' \in {accepted, [accepted EXCEPT ![o] = None]}
     BY DEF SubmitPassesGate, SubmitAuthError, SubmitConnectionError
   <2> QED BY <1>0, <2>1 DEF Inv, TypeOK, BooksInv
  <1>6. KillInv'
   <2>1. CASE SubmitPassesGate(o)
    <3>1. ks = "disengaged" /\ ks' = ks /\ engagements' = engagements
      BY <2>1 DEF SubmitPassesGate, GateApproves, KillSwitchCheck, killVars
    <3> QED BY <2>1, <3>1 DEF Inv, TypeOK, KillInv, SubmitPassesGate
   <2>2. CASE SubmitAuthError(o) BY <2>2 DEF Inv, TypeOK, KillInv, SubmitAuthError
   <2>3. CASE SubmitConnectionError(o)
     BY <2>3 DEF Inv, TypeOK, KillInv, SubmitConnectionError, killVars
   <2> QED BY <2>1, <2>2, <2>3
  <1> QED BY <1>2, <1>3, <1>4, <1>5, <1>6 DEF Inv

(* The next event of a broker is an event, of a number of shares. *)
LEMMA NextEventType ==
    ASSUME Inv, NEW b \in BrokerIds, HasEvent(b)
    PROVE  NextEvent(b) \in Event /\ EventQty(NextEvent(b)) \in Nat
  <1>1. broker[b].events \in Seq(Event) /\ broker[b].next \in Nat \ {0} BY DEF Inv, TypeOK, Book
  <1>2. broker[b].next \in 1..Len(broker[b].events) BY <1>1 DEF HasEvent
  <1>3. NextEvent(b) \in Event BY <1>1, <1>2 DEF NextEvent
  <1> QED BY <1>3 DEF EventQty, Event

(* A book that changes in other ways than its owner, its history fields and
   whether it is open does not disturb what the invariant says of the broker. *)
LEMMA BookMoves ==
    ASSUME Inv, NEW b \in BrokerIds, NEW k \in Book,
           broker' = [broker EXCEPT ![b] = k],
           k.oms = broker[b].oms, k.gate = broker[b].gate,
           k.acceptedAt = broker[b].acceptedAt, k.underKill = broker[b].underKill,
           k.status = "none" <=> broker[b].status = "none"
    PROVE  /\ broker' \in [BrokerIds -> Book]
           /\ \A c \in BrokerIds :
                /\ broker'[c].oms = broker[c].oms
                /\ broker'[c].status = "none" <=> broker[c].status = "none"
           /\ OnlyInFlightPassKillSwitch'
           /\ accepted' = accepted => BooksInv'
  <1>1. broker \in [BrokerIds -> Book] BY DEF Inv, TypeOK
  <1>2. broker' \in [BrokerIds -> Book] BY <1>1
  <1>3. \A c \in BrokerIds : c # b => broker'[c] = broker[c] BY <1>1
  <1>4. broker'[b] = k BY <1>1
  <1>5. \A c \in BrokerIds :
            /\ broker'[c].oms = broker[c].oms
            /\ broker'[c].status = "none" <=> broker[c].status = "none"
            /\ broker'[c].gate = broker[c].gate
            /\ broker'[c].acceptedAt = broker[c].acceptedAt
            /\ broker'[c].underKill = broker[c].underKill
    BY <1>3, <1>4
  <1>6. OnlyInFlightPassKillSwitch' BY <1>5 DEF Inv, OnlyInFlightPassKillSwitch
  <1>7. ASSUME accepted' = accepted PROVE BooksInv' BY <1>5, <1>7 DEF Inv, TypeOK, BooksInv
  <1> QED BY <1>2, <1>5, <1>6, <1>7

(* Steps that change only the broker's books and the history of its events. *)
LEMMA BrokerOnlyInv ==
    ASSUME Inv, NEW b \in BrokerIds, NEW k \in Book, NEW l \in Ledger,
           broker' = [broker EXCEPT ![b] = k],
           ledger' = [ledger EXCEPT ![b] = l], l.applied = ledger[b].applied,
           k.oms = broker[b].oms, k.gate = broker[b].gate,
           k.acceptedAt = broker[b].acceptedAt, k.underKill = broker[b].underKill,
           k.status = "none" <=> broker[b].status = "none",
           UNCHANGED <<killVars, callVars, loopVars>>
    PROVE  Inv'
  <1>1. UNCHANGED <<ks, engagements, call, attempts, accepted, gate,
                    byOmsId, brokerToOms, stored>>
    BY DEF killVars, callVars, loopVars
  <1>2. broker' \in [BrokerIds -> Book] /\ OnlyInFlightPassKillSwitch' /\ BooksInv'
    BY <1>1, BookMoves
  <1>3. /\ ledger' \in [BrokerIds -> Ledger]
        /\ \A c \in BrokerIds : ledger'[c].applied = ledger[c].applied
    BY DEF Inv, TypeOK
  <1>4. TypeOK' BY <1>1, <1>2, <1>3 DEF Inv, TypeOK
  <1>5. RegistryInv' /\ UntrackedUntilReturn' /\ MappingInv' /\ KillInv' /\ StoredNeverAhead'
    BY <1>1 DEF Inv, RegistryInv, UntrackedUntilReturn, MappingInv, KillInv, StoredNeverAhead
  <1>6. AppliedInv' BY <1>1, <1>3 DEF Inv, AppliedInv
  <1> QED BY <1>2, <1>4, <1>5, <1>6 DEF Inv

(* Lost and replayed shares are recorded beside the applied ones. *)
LEMMA LedgerHistory ==
    ASSUME NEW l \in Ledger, NEW qty \in Nat
    PROVE  /\ WithLost(l, qty) \in Ledger /\ WithLost(l, qty).applied = l.applied
           /\ WithReplayed(l, qty) \in Ledger /\ WithReplayed(l, qty).applied = l.applied
  <1> DEFINE l1 == [l EXCEPT !.lost = @ + qty]
             l2 == [l EXCEPT !.replayed = @ + qty]
  <1>1. l1 \in Ledger /\ l1.applied = l.applied /\ l2 \in Ledger /\ l2.applied = l.applied
    BY DEF Ledger
  <1>2. WithLost(l, qty) = [l1 EXCEPT !.gaps = @ + 1] BY DEF WithLost
  <1>3. WithReplayed(l, qty) = [l2 EXCEPT !.replays = @ + 1] BY DEF WithReplayed
  <1> HIDE DEF l1, l2
  <1>4. WithLost(l, qty) \in Ledger /\ WithLost(l, qty).applied = l.applied BY <1>1, <1>2 DEF Ledger
  <1>5. WithReplayed(l, qty) \in Ledger /\ WithReplayed(l, qty).applied = l.applied
    BY <1>1, <1>3 DEF Ledger
  <1> QED BY <1>4, <1>5

(* An event of an unknown order, or that the state machine refuses, keeps the invariant. *)
LEMMA DroppedEventInv ==
    ASSUME Inv, NEW b \in BrokerIds, ApplyUnknown(b) \/ ApplyRefused(b)
    PROVE  Inv'
  <1> DEFINE q == EventQty(NextEvent(b))
             k == [broker[b] EXCEPT !.next = broker[b].next + 1]
  <1>1. HasEvent(b) /\ UNCHANGED <<killVars, callVars, loopVars>>
            /\ broker' = [broker EXCEPT ![b] = k]
    BY DEF ApplyUnknown, ApplyRefused, Advance
  <1>2. q \in Nat /\ broker[b] \in Book /\ ledger[b] \in Ledger
    BY <1>1, NextEventType DEF Inv, TypeOK
  <1>3. /\ k \in Book /\ k.oms = broker[b].oms /\ k.gate = broker[b].gate
        /\ k.acceptedAt = broker[b].acceptedAt /\ k.underKill = broker[b].underKill
        /\ k.status = broker[b].status
    BY <1>2, SMTT(30) DEF Book
  <1>4. \E l \in Ledger : /\ ledger' = [ledger EXCEPT ![b] = l]
                          /\ l.applied = ledger[b].applied
   <2> HIDE DEF q, k
   <2>1. CASE ApplyUnknown(b)
    <3>1. ledger' = [ledger EXCEPT ![b] = WithLost(ledger[b], q)] BY <2>1 DEF ApplyUnknown, q
    <3> QED BY <1>2, <3>1, LedgerHistory
   <2>2. CASE ApplyRefused(b)
    <3> DEFINE l == [ledger[b] EXCEPT !.refused = ledger[b].refused + q]
    <3>1. ledger' = [ledger EXCEPT ![b] = l] BY <2>2 DEF ApplyRefused, q
    <3>2. l \in Ledger /\ l.applied = ledger[b].applied BY <1>2 DEF Ledger
    <3> QED BY <3>1, <3>2
   <2> QED BY <2>1, <2>2
  <1> HIDE DEF q, k
  <1> QED BY <1>1, <1>3, <1>4, BrokerOnlyInv

(* An event applied keeps the invariant. *)
LEMMA AppliedEventInv ==
    ASSUME Inv, NEW b \in BrokerIds, ApplyBrokerEvent(b)
    PROVE  Inv'
  <1> DEFINE o == brokerToOms[b]
             e == NextEvent(b)
             k == [broker[b] EXCEPT !.next = broker[b].next + 1]
             l == [ledger[b] EXCEPT !.applied = ledger[b].applied + EventQty(e)]
  <1>1. /\ HasEvent(b) /\ o # None /\ Accepts(byOmsId[o], e)
        /\ Track(o, ApplyEvent(byOmsId[o], e))
        /\ ledger' = [ledger EXCEPT ![b] = l]
        /\ broker' = [broker EXCEPT ![b] = k]
        /\ UNCHANGED <<ks, engagements, call, attempts, accepted, gate, brokerToOms>>
    BY DEF ApplyBrokerEvent, Advance, killVars, callVars
  <1>2. e \in Event /\ broker[b] \in Book /\ ledger[b] \in Ledger
    BY <1>1, NextEventType DEF Inv, TypeOK
  <1>3. /\ byOmsId' \in [Orders -> OrderRecord \cup {None}]
        /\ stored' \in [Orders -> OrderRecord \cup {None}]
        /\ o \in Orders /\ byOmsId'[o] # None
        /\ byOmsId'[o].filled = byOmsId[o].filled + EventQty(e)
        /\ EventQty(e) \in Nat
        /\ \A p \in Orders \ {o} : byOmsId'[p] = byOmsId[p]
        /\ RegistryInv' /\ StoredNeverAhead'
    BY <1>1, <1>2, LaterTrack
  <1>4. /\ k \in Book /\ k.oms = broker[b].oms /\ k.gate = broker[b].gate
        /\ k.acceptedAt = broker[b].acceptedAt /\ k.underKill = broker[b].underKill
        /\ k.status = broker[b].status
    BY <1>2 DEF Book
  <1>5. l \in Ledger /\ l.applied = ledger[b].applied + EventQty(e) BY <1>2, <1>3 DEF Ledger
  <1>6. /\ broker' \in [BrokerIds -> Book] /\ OnlyInFlightPassKillSwitch' /\ BooksInv'
   <2> HIDE DEF k
   <2> QED BY <1>1, <1>4, BookMoves
  <1>7. /\ ledger' \in [BrokerIds -> Ledger]
        /\ ledger'[b].applied = ledger[b].applied + EventQty(e)
        /\ \A c \in BrokerIds \ {b} : ledger'[c] = ledger[c]
   <2> HIDE DEF l
   <2> QED BY <1>1, <1>5 DEF Inv, TypeOK
  <1>8. TypeOK' BY <1>1, <1>3, <1>6, <1>7 DEF Inv, TypeOK
  <1>9. UntrackedUntilReturn' /\ MappingInv' /\ KillInv'
   <2>1. MappingInv' /\ KillInv' BY <1>1, <1>3 DEF Inv, TypeOK, MappingInv, KillInv
   <2>2. call[o] = "returned" BY <1>1 DEF Inv, MappingInv
   <2>3. UntrackedUntilReturn' BY <1>1, <1>3, <2>2 DEF Inv, UntrackedUntilReturn
   <2> QED BY <2>1, <2>3
  <1>10. \A c \in BrokerIds : brokerToOms[c] = o => c = b BY <1>1 DEF Inv, MappingInv
  <1>11. AppliedInv'
   <2> SUFFICES ASSUME NEW c \in BrokerIds
                PROVE  ledger'[c].applied = IF brokerToOms[c] = None THEN 0
                                            ELSE byOmsId'[brokerToOms[c]].filled
     BY <1>1 DEF AppliedInv
   <2>1. CASE c = b BY <1>1, <1>3, <1>7, <2>1 DEF Inv, AppliedInv
   <2>2. CASE c # b
    <3>1. brokerToOms[c] = None \/ brokerToOms[c] \in Orders \ {o} BY <1>10, <2>2 DEF Inv, TypeOK
    <3> QED BY <1>3, <1>7, <2>2, <3>1 DEF Inv, AppliedInv
   <2> QED BY <2>1, <2>2
  <1> QED BY <1>3, <1>6, <1>8, <1>9, <1>11 DEF Inv

(* A cancel request keeps the invariant. *)
LEMMA RequestCancelInv ==
    ASSUME Inv, NEW b \in BrokerIds, RequestCancel(b)
    PROVE  Inv'
  <1> DEFINE o == brokerToOms[b]
             e == PlainEvent("cancel_request")
             k == [broker[b] EXCEPT !.cancelReq = TRUE]
  <1>1. /\ o # None /\ Accepts(byOmsId[o], e)
        /\ Track(o, ApplyEvent(byOmsId[o], e))
        /\ broker' = [broker EXCEPT ![b] = k]
        /\ UNCHANGED <<ks, engagements, call, attempts, accepted, gate,
                       brokerToOms, ledger>>
    BY DEF RequestCancel, killVars, callVars
  <1>2. e \in Event /\ EventQty(e) = 0 /\ broker[b] \in Book
    BY PlainEventType DEF PlainKinds, Inv, TypeOK
  <1>3. /\ byOmsId' \in [Orders -> OrderRecord \cup {None}]
        /\ stored' \in [Orders -> OrderRecord \cup {None}]
        /\ o \in Orders /\ byOmsId'[o] # None
        /\ byOmsId'[o].filled = byOmsId[o].filled + EventQty(e)
        /\ \A p \in Orders \ {o} : byOmsId'[p] = byOmsId[p]
        /\ RegistryInv' /\ StoredNeverAhead'
   <2> HIDE DEF e
   <2> QED BY <1>1, <1>2, LaterTrack
  <1>4. /\ k \in Book /\ k.oms = broker[b].oms /\ k.gate = broker[b].gate
        /\ k.acceptedAt = broker[b].acceptedAt /\ k.underKill = broker[b].underKill
        /\ k.status = broker[b].status
    BY <1>2 DEF Book
  <1>5. /\ broker' \in [BrokerIds -> Book] /\ OnlyInFlightPassKillSwitch' /\ BooksInv'
   <2> HIDE DEF k
   <2> QED BY <1>1, <1>4, BookMoves
  <1>6. TypeOK' BY <1>1, <1>3, <1>5 DEF Inv, TypeOK
  <1>7. UntrackedUntilReturn' /\ MappingInv' /\ KillInv'
   <2>1. MappingInv' /\ KillInv' BY <1>1, <1>3 DEF Inv, TypeOK, MappingInv, KillInv
   <2>2. call[o] = "returned" BY <1>1 DEF Inv, MappingInv
   <2>3. UntrackedUntilReturn' BY <1>1, <1>3, <2>2 DEF Inv, UntrackedUntilReturn
   <2> QED BY <2>1, <2>3
  <1>8. \A p \in Orders : byOmsId[p] # None => byOmsId'[p].filled = byOmsId[p].filled
   <2>1. byOmsId[o] \in OrderRecord BY <1>1, <1>3 DEF Inv, TypeOK, MappingInv
   <2>2. byOmsId[o].filled \in Nat BY <2>1 DEF OrderRecord
   <2> QED BY <1>2, <1>3, <2>2
  <1>9. AppliedInv' BY <1>1, <1>8 DEF Inv, TypeOK, MappingInv, AppliedInv
  <1> QED BY <1>3, <1>5, <1>6, <1>7, <1>9 DEF Inv

(* The kill switch keeps the invariant. *)
LEMMA KillSwitchInv ==
    ASSUME Inv, Engage \/ Disengage
    PROVE  Inv'
  <1>1. UNCHANGED <<call, attempts, accepted, gate, byOmsId, brokerToOms,
                    stored, broker, ledger>>
    BY DEF Engage, Disengage, callVars, loopVars
  <1>2. TypeOK' /\ KillInv' BY <1>1 DEF Inv, TypeOK, KillInv, Engage, Disengage
  <1> QED
    BY <1>1, <1>2 DEF Inv, RegistryInv, UntrackedUntilReturn, MappingInv, BooksInv,
           AppliedInv, OnlyInFlightPassKillSwitch, StoredNeverAhead

(* What Emit does to a book. *)
LEMMA EmitType ==
    ASSUME Inv, NEW b \in BrokerIds, NEW e \in Event
    PROVE  /\ Emit(b, e) \in Book
           /\ Emit(b, e).oms = broker[b].oms /\ Emit(b, e).gate = broker[b].gate
           /\ Emit(b, e).acceptedAt = broker[b].acceptedAt
           /\ Emit(b, e).underKill = broker[b].underKill
           /\ Emit(b, e).status = broker[b].status
           /\ Emit(b, e).executed = broker[b].executed
  <1>1. broker[b] \in Book BY DEF Inv, TypeOK
  <1>2. Append(broker[b].events, e) \in Seq(Event) BY <1>1 DEF Book
  <1>3. Emit(b, e) = [broker[b] EXCEPT !.events = Append(broker[b].events, e)] BY DEF Emit
  <1> QED BY <1>1, <1>2, <1>3 DEF Book

(* A broker that accepts an order keeps the invariant. *)
LEMMA BrokerAcceptsInv ==
    ASSUME Inv, NEW o \in Orders, NEW b \in BrokerIds, BrokerAccepts(o, b)
    PROVE  Inv'
  <1> DEFINE m == Emit(b, PlainEvent("ack"))
             k == [m EXCEPT !.oms = o, !.status = "working", !.gate = gate[o],
                            !.acceptedAt = engagements, !.underKill = (ks = "engaged")]
  <1>1. /\ call[o] = "awaiting" /\ accepted[o] = None /\ broker[b].status = "none"
        /\ accepted' = [accepted EXCEPT ![o] = b]
        /\ broker' = [broker EXCEPT ![b] = k]
        /\ UNCHANGED <<ks, engagements, call, attempts, gate, byOmsId,
                       brokerToOms, stored, ledger>>
    BY DEF BrokerAccepts, killVars, loopVars
  <1>2. m \in Book
   <2>1. PlainEvent("ack") \in Event BY PlainEventType DEF PlainKinds
   <2> QED BY <2>1, EmitType
  <1>3. /\ k \in Book /\ k.oms = o /\ k.status = "working" /\ k.gate = gate[o]
        /\ k.acceptedAt = engagements /\ k.underKill = (ks = "engaged")
   <2> HIDE DEF m
   <2>1. gate[o] \in Nat /\ engagements \in Nat BY DEF Inv, TypeOK
   <2> QED BY <1>2, <2>1 DEF Book, BrokerStatus
  <1> HIDE DEF k, m
  <1>4. /\ broker' \in [BrokerIds -> Book] /\ broker'[b] = k
        /\ \A c \in BrokerIds \ {b} : broker'[c] = broker[c]
    BY <1>1, <1>3 DEF Inv, TypeOK
  <1>5. /\ accepted' \in [Orders -> BrokerIds \cup {None}] /\ accepted'[o] = b
        /\ \A p \in Orders \ {o} : accepted'[p] = accepted[p]
    BY <1>1 DEF Inv, TypeOK
  <1>6. TypeOK' BY <1>1, <1>4, <1>5 DEF Inv, TypeOK
  <1>7. RegistryInv' /\ UntrackedUntilReturn' /\ KillInv' /\ AppliedInv' /\ StoredNeverAhead'
    BY <1>1 DEF Inv, RegistryInv, UntrackedUntilReturn, KillInv, AppliedInv, StoredNeverAhead
  <1>8. MappingInv'
   <2>1. \A c \in BrokerIds : brokerToOms[c] # o BY <1>1, LiveLoopAssumption DEF Inv, MappingInv
   <2> QED BY <1>1, <1>5, <2>1 DEF Inv, TypeOK, MappingInv
  <1>9. BooksInv'
   <2>1. \A p \in Orders \ {o} : accepted[p] # b BY <1>1, LiveLoopAssumption DEF Inv, BooksInv
   <2> QED BY <1>3, <1>4, <1>5, <2>1 DEF Inv, TypeOK, BooksInv
  <1>10. OnlyInFlightPassKillSwitch'
    BY <1>1, <1>3, <1>4, ZenonT(60) DEF Inv, TypeOK, KillInv, OnlyInFlightPassKillSwitch
  <1> QED BY <1>6, <1>7, <1>8, <1>9, <1>10 DEF Inv

(* A fill at the broker keeps the invariant. *)
LEMMA BrokerFillsInv ==
    ASSUME Inv, NEW b \in BrokerIds, BrokerFills(b)
    PROVE  Inv'
  <1>1. broker[b].status = "working" /\ UNCHANGED <<killVars, callVars, loopVars, ledger>>
    BY DEF BrokerFills
  <1> DEFINE left == Quantity[broker[b].oms] - broker[b].executed
  <1>2. PICK q \in 1..left, p \in Prices \ {0}, kind \in FillKinds :
            broker' = [broker EXCEPT ![b] =
                         [Emit(b, [kind |-> kind, qty |-> q, price |-> p]) EXCEPT
                             !.executed = @ + q,
                             !.status = IF q = left THEN "filled" ELSE @]]
    BY DEF BrokerFills
  <1>3. broker[b] \in Book /\ ledger[b] \in Ledger /\ broker[b].oms \in Orders
    BY <1>1 DEF Inv, TypeOK, BooksInv
  <1>4. broker[b].executed \in Nat /\ Quantity[broker[b].oms] \in Nat
    BY <1>3, LiveLoopAssumption DEF Book
  <1>5. q \in Nat /\ p \in Nat BY <1>4, LiveLoopAssumption
  <1> DEFINE e == [kind |-> kind, qty |-> q, price |-> p]
             m == Emit(b, e)
             k == [m EXCEPT !.executed = @ + q,
                            !.status = IF q = left THEN "filled" ELSE @]
             st == IF q = left THEN "filled" ELSE m.status
  <1>6. e \in Event BY <1>5 DEF Event
  <1>7. /\ m \in Book /\ m.oms = broker[b].oms /\ m.gate = broker[b].gate
        /\ m.acceptedAt = broker[b].acceptedAt /\ m.underKill = broker[b].underKill
        /\ m.status = "working"
   <2> HIDE DEF e
   <2> QED BY <1>1, <1>6, EmitType
  <1>8. broker' = [broker EXCEPT ![b] = k] BY <1>2
  <1>9. k = [[m EXCEPT !.executed = m.executed + q] EXCEPT !.status = st]
   <2> HIDE DEF m
   <2> QED BY <1>7 DEF Book
  <1>10. st \in {"filled", "working"} BY <1>7
  <1> DEFINE k1 == [m EXCEPT !.executed = m.executed + q]
  <1>10a. k = [k1 EXCEPT !.status = st] BY <1>9
  <1> HIDE DEF m, st, k
  <1>10b. /\ k1 \in Book /\ k1.oms = m.oms /\ k1.gate = m.gate
          /\ k1.acceptedAt = m.acceptedAt /\ k1.underKill = m.underKill
    BY <1>5, <1>7, SMTT(30) DEF Book
  <1> HIDE DEF k1
  <1>11. /\ k \in Book /\ k.oms = broker[b].oms /\ k.gate = broker[b].gate
         /\ k.acceptedAt = broker[b].acceptedAt /\ k.underKill = broker[b].underKill
         /\ k.status # "none"
    BY <1>7, <1>10, <1>10a, <1>10b DEF Book, BrokerStatus
  <1>12. ledger' = [ledger EXCEPT ![b] = ledger[b]] BY <1>1 DEF Inv, TypeOK
  <1> QED BY <1>1, <1>3, <1>8, <1>11, <1>12, BrokerOnlyInv

(* An order ended by its broker keeps the invariant. *)
LEMMA BrokerEndsInv ==
    ASSUME Inv, NEW b \in BrokerIds,
           \/ BrokerStops(b, "cancel", "cancelled")
           \/ BrokerStops(b, "expire", "expired")
           \/ BrokerStops(b, "reject", "rejected")
           \/ BrokerRejectsCancel(b)
    PROVE  Inv'
  <1>1. broker[b].status = "working" /\ UNCHANGED <<killVars, callVars, loopVars, ledger>>
    BY DEF BrokerStops, BrokerRejectsCancel
  <1>2. ledger' = [ledger EXCEPT ![b] = ledger[b]] /\ ledger[b] \in Ledger BY <1>1 DEF Inv, TypeOK
  <1>3. ASSUME NEW kind \in {"cancel", "expire", "reject"}
        PROVE  LET m == Emit(b, PlainEvent(kind))
               IN  /\ m \in Book /\ m.oms = broker[b].oms /\ m.gate = broker[b].gate
                   /\ m.acceptedAt = broker[b].acceptedAt
                   /\ m.underKill = broker[b].underKill /\ m.status = "working"
   <2>1. PlainEvent(kind) \in Event BY PlainEventType DEF PlainKinds
   <2> QED BY <1>1, <2>1, EmitType
  <1> DEFINE OnlyBookMoves ==
        \E k \in Book : /\ broker' = [broker EXCEPT ![b] = k]
                        /\ k.oms = broker[b].oms /\ k.gate = broker[b].gate
                        /\ k.acceptedAt = broker[b].acceptedAt
                        /\ k.underKill = broker[b].underKill
                        /\ k.status # "none"
  <1>4. OnlyBookMoves
   <2>1. ASSUME NEW kind \in {"cancel", "expire", "reject"},
                NEW status \in {"cancelled", "expired", "rejected"},
                BrokerStops(b, kind, status)
         PROVE  OnlyBookMoves
    <3> DEFINE m == Emit(b, PlainEvent(kind))
               k == [m EXCEPT !.status = status]
    <3>1. broker' = [broker EXCEPT ![b] = k] BY <2>1 DEF BrokerStops
    <3>2. k \in Book /\ k.oms = m.oms /\ k.gate = m.gate /\ k.status # "none"
            /\ k.acceptedAt = m.acceptedAt /\ k.underKill = m.underKill
     <4>1. m \in Book BY <1>3
     <4> HIDE DEF m
     <4> QED BY <4>1 DEF Book, BrokerStatus
    <3> HIDE DEF k
    <3> QED BY <1>3, <3>1, <3>2
   <2>2. CASE BrokerRejectsCancel(b)
    <3> DEFINE m == Emit(b, PlainEvent("reject"))
               k == [m EXCEPT !.cancelReq = FALSE]
    <3>1. broker' = [broker EXCEPT ![b] = k] BY <2>2 DEF BrokerRejectsCancel
    <3>2. m \in Book /\ m.status = "working" BY <1>3
    <3>3. k \in Book /\ k.oms = m.oms /\ k.gate = m.gate /\ k.status # "none"
            /\ k.acceptedAt = m.acceptedAt /\ k.underKill = m.underKill
     <4> HIDE DEF m
     <4> QED BY <3>2 DEF Book, BrokerStatus
    <3> HIDE DEF k
    <3> QED BY <1>3, <3>1, <3>3
   <2> QED BY <2>1, <2>2
  <1> QED BY <1>1, <1>2, <1>4, BrokerOnlyInv, ZenonT(60)

(* Events sent again keep the invariant. *)
LEMMA BrokerReplaysInv ==
    ASSUME Inv, NEW b \in BrokerIds, BrokerReplays(b)
    PROVE  Inv'
  <1> DEFINE q == EventQty(broker[b].events[broker[b].next - 1])
             k == [broker[b] EXCEPT !.next = broker[b].next - 1]
  <1>1. /\ broker[b].next - 1 \in DOMAIN broker[b].events
        /\ UNCHANGED <<killVars, callVars, loopVars>>
        /\ broker' = [broker EXCEPT ![b] = k]
        /\ ledger' = [ledger EXCEPT ![b] = WithReplayed(ledger[b], q)]
    BY DEF BrokerReplays
  <1>2. broker[b] \in Book /\ ledger[b] \in Ledger BY DEF Inv, TypeOK
  <1>3. /\ broker[b].events \in Seq(Event) /\ broker[b].next \in Nat
        /\ broker[b].next - 1 \in 1..Len(broker[b].events)
    BY <1>1, <1>2 DEF Book
  <1>4. q \in Nat
   <2>1. broker[b].events[broker[b].next - 1] \in Event BY <1>3
   <2> QED BY <2>1 DEF EventQty, Event
  <1>5. /\ k \in Book /\ k.oms = broker[b].oms /\ k.gate = broker[b].gate
        /\ k.acceptedAt = broker[b].acceptedAt /\ k.underKill = broker[b].underKill
        /\ k.status = broker[b].status
    BY <1>2, <1>3 DEF Book
  <1> HIDE DEF k, q
  <1> QED BY <1>1, <1>2, <1>4, <1>5, LedgerHistory, BrokerOnlyInv

----------------------------------------
(* The theorems. *)

(* Every step keeps the inductive invariant. *)
LEMMA InvNext == Inv /\ [Next]_vars => Inv'
  <1> SUFFICES ASSUME Inv, [Next]_vars PROVE Inv'
    OBVIOUS
  <1>1. ASSUME NEW o \in Orders, Submit(o) PROVE Inv'
    BY <1>1, RejectedSubmitInv, SubmitSucceedsInv, PassOrFailInv DEF Submit
  <1>2. ASSUME NEW o \in Orders, NEW b \in BrokerIds, BrokerAccepts(o, b) PROVE Inv'
    BY <1>2, BrokerAcceptsInv
  <1>3. ASSUME NEW b \in BrokerIds, Consume(b) PROVE Inv'
    BY <1>3, DroppedEventInv, AppliedEventInv DEF Consume
  <1>4. ASSUME NEW b \in BrokerIds, RequestCancel(b) PROVE Inv' BY <1>4, RequestCancelInv
  <1>5. ASSUME NEW b \in BrokerIds, BrokerStep(b) \/ BrokerRejectsCancel(b) PROVE Inv'
    BY <1>5, BrokerFillsInv, BrokerEndsInv DEF BrokerStep
  <1>6. ASSUME NEW b \in BrokerIds, BrokerReplays(b) PROVE Inv' BY <1>6, BrokerReplaysInv
  <1>7. CASE Engage \/ Disengage BY <1>7, KillSwitchInv
  <1>8. CASE UNCHANGED vars
   <2>1. UNCHANGED <<ks, engagements, call, attempts, accepted, gate, byOmsId,
                     brokerToOms, stored, broker, ledger>>
     BY <1>8 DEF vars
   <2> QED
     BY <2>1 DEF Inv, TypeOK, RegistryInv, UntrackedUntilReturn, MappingInv, BooksInv,
            AppliedInv, KillInv, OnlyInFlightPassKillSwitch, StoredNeverAhead
  <1> QED BY <1>1, <1>2, <1>3, <1>4, <1>5, <1>6, <1>7, <1>8 DEF Next

(* The inductive invariant of the live loop holds throughout: what its other theorems rest
   on. *)
THEOREM Invariance == Spec => []Inv
  BY InitInv, InvNext, PTL DEF Spec

(* Every variable of the loop keeps its shape in every behaviour. *)
THEOREM TypeCorrect == Spec => []TypeOK
  <1>1. Inv => TypeOK BY DEF Inv
  <1> QED BY <1>1, Invariance, PTL

(* loop.py 194-195, 217-222: whatever is retried, lost or replayed, a broker id
   leads to the one tracked order the broker accepted it for. *)
THEOREM CorrelationIsSound == Spec => []CorrelationSound
  <1>1. Inv => CorrelationSound
   <2> SUFFICES ASSUME Inv, NEW b \in BrokerIds, brokerToOms[b] # None
                PROVE  /\ brokerToOms[b] = broker[b].oms
                       /\ byOmsId[brokerToOms[b]] # None
                       /\ \A c \in BrokerIds : brokerToOms[c] = brokerToOms[b] => c = b
     BY DEF CorrelationSound
   <2>1. brokerToOms[b] \in Orders /\ accepted[brokerToOms[b]] = b BY DEF Inv, TypeOK, MappingInv
   <2>2. brokerToOms[b] = broker[b].oms BY <2>1, LiveLoopAssumption DEF Inv, BooksInv
   <2> QED BY <2>1, <2>2 DEF Inv, MappingInv
  <1> QED BY <1>1, Invariance, PTL

(* order.py 123-150: no sequence of broker events overfills an order, and FILLED
   means exactly that the quantity is complete. *)
THEOREM NeverOverfilled == Spec => []FilledIffComplete
  <1>1. Inv => FilledIffComplete
   <2> SUFFICES ASSUME Inv, NEW o \in Orders, byOmsId[o] # None
                PROVE  /\ 0 <= byOmsId[o].filled /\ byOmsId[o].filled <= Quantity[o]
                       /\ byOmsId[o].status = "filled" <=> byOmsId[o].filled = Quantity[o]
     BY DEF FilledIffComplete
   <2>1. byOmsId[o].filled \in Nat BY DEF Inv, TypeOK, OrderRecord
   <2> QED BY <2>1 DEF Inv, RegistryInv, Consistent
  <1> QED BY <1>1, Invariance, PTL

(* kill_switch.py 3-6: only an order that passed the gate before the engagement
   reaches the broker during it. *)
THEOREM KillSwitchStopsTheRest == Spec => []OnlyInFlightPassKillSwitch
  <1>1. Inv => OnlyInFlightPassKillSwitch BY DEF Inv
  <1> QED BY <1>1, Invariance, PTL

(* loop.py 255-265: a persister that fails at will never holds an order ahead of
   the registry, and a terminal stored order is final. *)
THEOREM StoreIsNeverAhead == Spec => []StoredNeverAhead
  <1>1. Inv => StoredNeverAhead BY DEF Inv
  <1> QED BY <1>1, Invariance, PTL

(* states.py 54-56: a tracked order in a terminal status is never changed again. *)
THEOREM TerminalStays == Spec => TerminalIsFinal
  <1> DEFINE Step == \A o \in Orders :
                       (byOmsId[o] # None /\ IsTerminal(byOmsId[o].status)) =>
                            byOmsId'[o] = byOmsId[o]
  <1>1. Inv /\ [Next]_vars => [Step]_vars
   <2> SUFFICES ASSUME Inv, Next, NEW o \in Orders, byOmsId[o] # None,
                       IsTerminal(byOmsId[o].status)
                PROVE  byOmsId'[o] = byOmsId[o]
     OBVIOUS
   <2>0. call[o] = "returned" BY DEF Inv, UntrackedUntilReturn
   <2>1. ASSUME NEW p \in Orders, Submit(p) PROVE byOmsId'[o] = byOmsId[o]
    <3>1. CASE UNCHANGED byOmsId BY <3>1
    <3>2. ASSUME NEW kind \in {"submit", "reject"}, call[p] # "returned",
                 Track(p, ApplyEvent(Minted(p), PlainEvent(kind)))
          PROVE  byOmsId'[o] = byOmsId[o]
      BY <2>0, <3>2, FirstTrack
    <3> QED
      BY <2>1, <3>1, <3>2 DEF Submit, SubmitGateRejects, SubmitPassesGate, MayCall,
         SubmitSucceeds, SubmitBrokerRejects, SubmitAuthError, SubmitConnectionError,
         loopVars
   <2>2. ASSUME NEW b \in BrokerIds, NEW e \in Event, brokerToOms[b] # None,
                Accepts(byOmsId[brokerToOms[b]], e),
                Track(brokerToOms[b], ApplyEvent(byOmsId[brokerToOms[b]], e))
         PROVE  byOmsId'[o] = byOmsId[o]
     BY <2>2, LaterTrack
   <2>3. ASSUME NEW b \in BrokerIds, Consume(b) PROVE byOmsId'[o] = byOmsId[o]
    <3>1. CASE ApplyBrokerEvent(b)
     <4>1. NextEvent(b) \in Event BY <3>1, NextEventType DEF ApplyBrokerEvent
     <4> QED BY <2>2, <3>1, <4>1 DEF ApplyBrokerEvent
    <3>2. CASE ApplyUnknown(b) \/ ApplyRefused(b) BY <3>2 DEF ApplyUnknown, ApplyRefused, loopVars
    <3> QED BY <2>3, <3>1, <3>2 DEF Consume
   <2>4. ASSUME NEW b \in BrokerIds, RequestCancel(b) PROVE byOmsId'[o] = byOmsId[o]
    <3>1. PlainEvent("cancel_request") \in Event BY PlainEventType DEF PlainKinds
    <3> QED BY <2>2, <2>4, <3>1 DEF RequestCancel
   <2>5. CASE \/ \E p \in Orders, b \in BrokerIds : BrokerAccepts(p, b)
              \/ \E b \in BrokerIds : \/ BrokerStep(b)
                                      \/ BrokerRejectsCancel(b)
                                      \/ BrokerReplays(b)
              \/ Engage \/ Disengage
     BY <2>5 DEF BrokerAccepts, BrokerStep, BrokerFills, BrokerStops,
        BrokerRejectsCancel, BrokerReplays, Engage, Disengage, loopVars
   <2> QED BY <2>1, <2>3, <2>4, <2>5 DEF Next
  <1>2. Spec => [][Step]_vars BY <1>1, Invariance, PTL DEF Spec
  <1> QED BY <1>2 DEF TerminalIsFinal

----------------------------------------
(* What a step does to the books, the ledger and the order of one broker id. *)

SameMapping(b) == brokerToOms'[b] = brokerToOms[b]

SameOrder(b) ==
    /\ SameMapping(b)
    /\ brokerToOms[b] # None => byOmsId'[brokerToOms[b]] = byOmsId[brokerToOms[b]]

SameTerms(b) ==
    /\ broker'[b].events = broker[b].events /\ broker'[b].executed = broker[b].executed
    /\ broker'[b].status = broker[b].status /\ broker'[b].oms = broker[b].oms

SameBook(b) == SameTerms(b) /\ broker'[b].next = broker[b].next

SameLedger(b) == ledger'[b] = ledger[b]

Idle(b) == SameBook(b) /\ SameLedger(b) /\ SameOrder(b)

(* The submit of o returned and mapped b. *)
Maps(b, o) ==
    /\ SameBook(b) /\ SameLedger(b)
    /\ brokerToOms[b] = None /\ brokerToOms'[b] = o
    /\ byOmsId'[o] = ApplyEvent(Minted(o), PlainEvent("submit"))

(* The order of b moves by an event that it accepts. *)
Moves(b, e) ==
    /\ SameMapping(b) /\ brokerToOms[b] # None
    /\ Accepts(byOmsId[brokerToOms[b]], e)
    /\ byOmsId'[brokerToOms[b]] = ApplyEvent(byOmsId[brokerToOms[b]], e)

AsksCancel(b) == SameBook(b) /\ SameLedger(b) /\ Moves(b, PlainEvent("cancel_request"))

(* The broker reports e: an acceptance, a trade, the end of the order, or a
   rejected cancel. *)
Left(b) == Quantity[broker[b].oms] - broker[b].executed

Opens(b, e) ==
    /\ broker[b].status = "none" /\ broker'[b].status = "working"
    /\ e.kind = "ack" /\ broker'[b].oms \in Orders

Trades(b, e) ==
    /\ broker[b].status = "working" /\ broker'[b].oms = broker[b].oms
    /\ e.kind \in FillKinds /\ e.qty \in 1..Left(b)
    /\ e.kind = "fill" => e.qty = Left(b)
    /\ broker'[b].status = IF e.qty = Left(b) THEN "filled" ELSE "working"

Ends(b, e) ==
    /\ broker[b].status = "working" /\ broker'[b].oms = broker[b].oms
    /\ e.kind \in {"cancel", "expire", "reject"}
    /\ broker'[b].status \notin {"none", "working"}

KeepsWorking(b, e) ==
    /\ CancelRejects
    /\ broker[b].status = "working" /\ broker'[b].oms = broker[b].oms
    /\ e.kind = "reject" /\ broker'[b].status = "working"

Tells(b, e) ==
    /\ SameLedger(b) /\ SameOrder(b)
    /\ broker'[b].events = Append(broker[b].events, e)
    /\ broker'[b].next = broker[b].next
    /\ broker'[b].executed = broker[b].executed + EventQty(e)
    /\ Opens(b, e) \/ Trades(b, e) \/ Ends(b, e) \/ KeepsWorking(b, e)

(* The consumer takes the next event. *)
Takes(b) ==
    /\ HasEvent(b) /\ SameTerms(b)
    /\ broker'[b].next = broker[b].next + 1

Loses(b) ==
    /\ Takes(b) /\ SameOrder(b) /\ brokerToOms[b] = None
    /\ ledger'[b] = WithLost(ledger[b], EventQty(NextEvent(b)))

Applies(b) ==
    /\ Takes(b) /\ Moves(b, NextEvent(b))
    /\ ledger'[b] = [ledger[b] EXCEPT !.applied = @ + EventQty(NextEvent(b))]

Refuses(b) ==
    /\ Takes(b) /\ SameOrder(b) /\ brokerToOms[b] # None
    /\ ~Accepts(byOmsId[brokerToOms[b]], NextEvent(b))
    /\ ledger'[b] = [ledger[b] EXCEPT !.refused = @ + EventQty(NextEvent(b))]

(* The broker replays the last event. *)
Rewinds(b) ==
    /\ SameTerms(b) /\ SameOrder(b)
    /\ broker[b].next - 1 \in DOMAIN broker[b].events
    /\ broker'[b].next = broker[b].next - 1
    /\ ledger'[b] = WithReplayed(ledger[b], EventQty(broker[b].events[broker[b].next - 1]))

StepOf(b) ==
    \/ Idle(b)
    \/ \E o \in Orders : Maps(b, o)
    \/ AsksCancel(b)
    \/ \E e \in Event : Tells(b, e)
    \/ Loses(b) \/ Applies(b) \/ Refuses(b)
    \/ Rewinds(b)

(* Tracking the order of one broker id leaves the orders of the others alone. *)
LEMMA OthersKept ==
    ASSUME Inv, NEW c \in BrokerIds, brokerToOms[c] # None, NEW r \in OrderRecord,
           Track(brokerToOms[c], r), brokerToOms' = brokerToOms
    PROVE  /\ byOmsId'[brokerToOms[c]] = r
           /\ \A b \in BrokerIds \ {c} : SameOrder(b)
  <1> DEFINE o == brokerToOms[c]
  <1>1. o \in Orders BY DEF Inv, TypeOK
  <1>2. o = brokerToOms[c] OBVIOUS
  <1>3. Track(o, r) OBVIOUS
  <1> HIDE DEF o
  <1>4. byOmsId'[o] = r /\ \A p \in Orders \ {o} : byOmsId'[p] = byOmsId[p]
    BY <1>1, <1>3, TrackEffect DEF Inv
  <1>5. ASSUME NEW b \in BrokerIds \ {c}, brokerToOms[b] # None
        PROVE  brokerToOms[b] \in Orders \ {o}
   <2>1. brokerToOms[b] \in Orders /\ accepted[brokerToOms[b]] = b
     BY <1>5 DEF Inv, TypeOK, MappingInv
   <2>2. accepted[o] = c BY <1>2 DEF Inv, MappingInv
   <2> QED BY <2>1, <2>2
  <1> QED BY <1>2, <1>4, <1>5 DEF SameOrder, SameMapping

(* What a submit is for one broker order. *)
LEMMA SubmitStepOf ==
    ASSUME Inv, NEW o \in Orders, Submit(o), NEW b \in BrokerIds
    PROVE  StepOf(b)
  <1>1. call[o] # "returned" /\ broker' = broker /\ ledger' = ledger
    BY DEF Submit, SubmitGateRejects, SubmitPassesGate, MayCall, SubmitSucceeds,
       SubmitBrokerRejects, SubmitAuthError, SubmitConnectionError
  <1>2. SameBook(b) /\ SameLedger(b) BY <1>1 DEF SameBook, SameTerms, SameLedger
  <1>3. \A c \in BrokerIds : brokerToOms[c] # None => brokerToOms[c] \in Orders \ {o}
    BY <1>1 DEF Inv, TypeOK, MappingInv
  <1>4. CASE UNCHANGED <<byOmsId, brokerToOms>>
    BY <1>2, <1>4 DEF StepOf, Idle, SameOrder, SameMapping
  <1>5. CASE SubmitGateRejects(o) \/ SubmitBrokerRejects(o)
   <2>1. brokerToOms' = brokerToOms /\ Track(o, ApplyEvent(Minted(o), PlainEvent("reject")))
     BY <1>5 DEF SubmitGateRejects, SubmitBrokerRejects
   <2>2. \A p \in Orders \ {o} : byOmsId'[p] = byOmsId[p] BY <1>1, <2>1, FirstTrack
   <2> QED BY <1>2, <1>3, <2>1, <2>2 DEF StepOf, Idle, SameOrder, SameMapping
  <1>6. CASE SubmitSucceeds(o)
   <2> DEFINE r == ApplyEvent(Minted(o), PlainEvent("submit"))
   <2>1. /\ Track(o, r) /\ accepted[o] # None
         /\ brokerToOms' = [brokerToOms EXCEPT ![accepted[o]] = o]
     BY <1>6 DEF SubmitSucceeds
   <2>2. r \in OrderRecord BY MintedOrder
   <2>3. byOmsId'[o] = r /\ \A p \in Orders \ {o} : byOmsId'[p] = byOmsId[p]
    <3> HIDE DEF r
    <3> QED BY <2>1, <2>2, TrackEffect DEF Inv
   <2>4. CASE b # accepted[o]
    <3>1. brokerToOms'[b] = brokerToOms[b] BY <2>1, <2>4 DEF Inv, TypeOK
    <3> QED BY <1>2, <1>3, <2>3, <3>1 DEF StepOf, Idle, SameOrder, SameMapping
   <2>5. CASE b = accepted[o]
    <3>1. brokerToOms'[b] = o BY <2>1, <2>5 DEF Inv, TypeOK
    <3>2. broker[b].oms = o BY <2>1, <2>5 DEF Inv, BooksInv
    <3>3. brokerToOms[b] = None
     <4>1. ASSUME brokerToOms[b] # None PROVE FALSE
      <5>1. brokerToOms[b] \in Orders /\ accepted[brokerToOms[b]] = b
        BY <4>1 DEF Inv, TypeOK, MappingInv
      <5>2. broker[b].oms = brokerToOms[b] BY <5>1, LiveLoopAssumption DEF Inv, BooksInv
      <5> QED BY <1>3, <3>2, <4>1, <5>2
     <4> QED BY <4>1
    <3>4. Maps(b, o) BY <1>2, <2>3, <3>1, <3>3 DEF Maps
    <3> QED BY <3>4 DEF StepOf
   <2> QED BY <2>4, <2>5
  <1>7. CASE SubmitPassesGate(o) \/ SubmitAuthError(o) \/ SubmitConnectionError(o)
    BY <1>4, <1>7 DEF SubmitPassesGate, SubmitAuthError, SubmitConnectionError, loopVars
  <1> QED BY <1>5, <1>6, <1>7 DEF Submit

(* Changing one book leaves the other broker ids idle, when the orders are. *)
LEMMA OtherBooks ==
    ASSUME Inv, NEW c \in BrokerIds, NEW k, NEW l,
           broker' = [broker EXCEPT ![c] = k],
           ledger' = [ledger EXCEPT ![c] = l],
           \A b \in BrokerIds \ {c} : SameOrder(b)
    PROVE  /\ broker'[c] = k /\ ledger'[c] = l
           /\ \A b \in BrokerIds \ {c} : StepOf(b)
  <1>1. broker \in [BrokerIds -> Book] /\ ledger \in [BrokerIds -> Ledger] BY DEF Inv, TypeOK
  <1>2. \A b \in BrokerIds \ {c} : broker'[b] = broker[b] /\ ledger'[b] = ledger[b] BY <1>1
  <1> QED BY <1>1, <1>2 DEF StepOf, Idle, SameBook, SameTerms, SameLedger

(* What an acceptance is for one broker order. *)
LEMMA AcceptStepOf ==
    ASSUME Inv, NEW o \in Orders, NEW c \in BrokerIds, BrokerAccepts(o, c),
           NEW b \in BrokerIds
    PROVE  StepOf(b)
  <1> DEFINE e == PlainEvent("ack")
             m == Emit(c, e)
             k == [m EXCEPT !.oms = o, !.status = "working", !.gate = gate[o],
                            !.acceptedAt = engagements, !.underKill = (ks = "engaged")]
  <1>1. /\ broker[c].status = "none" /\ broker' = [broker EXCEPT ![c] = k]
        /\ UNCHANGED <<byOmsId, brokerToOms, ledger>>
    BY DEF BrokerAccepts, loopVars
  <1>2. e \in Event /\ e.kind = "ack" /\ EventQty(e) = 0 BY PlainEventType DEF PlainKinds
  <1>3. /\ m \in Book /\ m.events = Append(broker[c].events, e)
        /\ m.next = broker[c].next /\ m.executed = broker[c].executed
   <2>1. broker[c] \in Book BY DEF Inv, TypeOK
   <2> HIDE DEF e
   <2> QED BY <1>2, <2>1, EmitType DEF Emit, Book
  <1>4. /\ k.events = m.events /\ k.next = m.next /\ k.executed = m.executed
        /\ k.status = "working" /\ k.oms = o
   <2> HIDE DEF m
   <2> QED BY <1>3 DEF Book
  <1> HIDE DEF k, m, e
  <1>5. \A d \in BrokerIds : SameOrder(d) BY <1>1 DEF SameOrder, SameMapping
  <1>6. ledger' = [ledger EXCEPT ![c] = ledger[c]] BY <1>1 DEF Inv, TypeOK
  <1>7. /\ broker'[c] = k /\ ledger'[c] = ledger[c]
        /\ \A d \in BrokerIds \ {c} : StepOf(d)
    BY <1>1, <1>5, <1>6, OtherBooks
  <1>8. broker[c].executed \in Nat BY DEF Inv, TypeOK, Book
  <1>9. Tells(c, e) BY <1>1, <1>2, <1>3, <1>4, <1>5, <1>7, <1>8 DEF Tells, SameLedger, Opens
  <1>10. StepOf(c) BY <1>2, <1>9 DEF StepOf
  <1> QED BY <1>7, <1>10

(* What a fill is for one broker order. *)
LEMMA FillStepOf ==
    ASSUME Inv, NEW c \in BrokerIds, BrokerFills(c), NEW b \in BrokerIds
    PROVE  StepOf(b)
  <1>1. broker[c].status = "working" /\ UNCHANGED <<byOmsId, brokerToOms, ledger>>
    BY DEF BrokerFills, loopVars
  <1>2. PICK q \in 1..Left(c), p \in Prices \ {0}, kind \in FillKinds :
            /\ kind = "fill" => q = Left(c)
            /\ broker' = [broker EXCEPT ![c] =
                           [Emit(c, [kind |-> kind, qty |-> q, price |-> p]) EXCEPT
                               !.executed = @ + q,
                               !.status = IF q = Left(c) THEN "filled" ELSE @]]
    BY DEF BrokerFills, Left
  <1>3. broker[c] \in Book /\ broker[c].oms \in Orders BY <1>1 DEF Inv, TypeOK, BooksInv
  <1>4. /\ broker[c].executed \in Nat /\ Quantity[broker[c].oms] \in Nat
        /\ Left(c) \in Int
    BY <1>3, LiveLoopAssumption DEF Book, Left
  <1>5. q \in Nat /\ p \in Nat BY <1>4, LiveLoopAssumption
  <1> DEFINE e == [kind |-> kind, qty |-> q, price |-> p]
             m == Emit(c, e)
             st == IF q = Left(c) THEN "filled" ELSE m.status
             k1 == [m EXCEPT !.executed = m.executed + q]
             k == [k1 EXCEPT !.status = st]
  <1>6. e \in Event /\ e.kind = kind /\ e.qty = q /\ EventQty(e) = q BY <1>5 DEF Event, EventQty
  <1>7. /\ m \in Book /\ m.events = Append(broker[c].events, e) /\ m.oms = broker[c].oms
        /\ m.next = broker[c].next /\ m.executed = broker[c].executed
        /\ m.status = "working"
   <2> HIDE DEF e
   <2> QED BY <1>1, <1>3, <1>6, EmitType DEF Emit, Book
  <1>8. broker' = [broker EXCEPT ![c] = k]
   <2>1. broker' = [broker EXCEPT ![c] =
                      [m EXCEPT !.executed = @ + q,
                                !.status = IF q = Left(c) THEN "filled" ELSE @]]
     BY <1>2
   <2>2. [m EXCEPT !.executed = @ + q, !.status = IF q = Left(c) THEN "filled" ELSE @] = k
    <3> HIDE DEF m
    <3> QED BY <1>7 DEF Book
   <2> HIDE DEF k, m
   <2> QED BY <2>1, <2>2
  <1>9. /\ k1 \in Book /\ k1.events = m.events /\ k1.next = m.next /\ k1.oms = m.oms
        /\ k1.executed = m.executed + q
   <2>1. m \in Book /\ m.executed + q \in Nat BY <1>4, <1>5, <1>7
   <2> HIDE DEF m
   <2> QED BY <2>1 DEF Book
  <1>10. st = IF q = Left(c) THEN "filled" ELSE "working" BY <1>7
  <1> HIDE DEF m, st, k1, e
  <1>11. /\ k.events = m.events /\ k.next = m.next /\ k.oms = m.oms
         /\ k.executed = m.executed + q /\ k.status = st
    BY <1>9 DEF Book
  <1> HIDE DEF k
  <1>12. \A d \in BrokerIds : SameOrder(d) BY <1>1 DEF SameOrder, SameMapping
  <1>13. ledger' = [ledger EXCEPT ![c] = ledger[c]] BY <1>1 DEF Inv, TypeOK
  <1>14. /\ broker'[c] = k /\ ledger'[c] = ledger[c]
         /\ \A d \in BrokerIds \ {c} : StepOf(d)
    BY <1>8, <1>12, <1>13, OtherBooks
  <1>15. Trades(c, e) BY <1>1, <1>2, <1>6, <1>7, <1>10, <1>11, <1>14 DEF Trades
  <1>16. Tells(c, e) BY <1>6, <1>7, <1>11, <1>12, <1>14, <1>15 DEF Tells, SameLedger
  <1>17. StepOf(c) BY <1>6, <1>16 DEF StepOf
  <1> QED BY <1>14, <1>17

(* What an end at the broker is for one broker order. *)
LEMMA EndStepOf ==
    ASSUME Inv, NEW c \in BrokerIds,
           \/ BrokerStops(c, "cancel", "cancelled")
           \/ BrokerStops(c, "expire", "expired")
           \/ BrokerStops(c, "reject", "rejected")
           \/ BrokerRejectsCancel(c),
           NEW b \in BrokerIds
    PROVE  StepOf(b)
  <1>1. broker[c].status = "working" /\ UNCHANGED <<byOmsId, brokerToOms, ledger>>
    BY DEF BrokerStops, BrokerRejectsCancel, loopVars
  <1>2. broker[c] \in Book /\ broker[c].executed \in Nat BY DEF Inv, TypeOK, Book
  <1>3. ASSUME NEW kind \in {"cancel", "expire", "reject"}
        PROVE  LET e == PlainEvent(kind)
                   m == Emit(c, e)
               IN  /\ e \in Event /\ e.kind = kind /\ EventQty(e) = 0
                   /\ m \in Book /\ m.events = Append(broker[c].events, e)
                   /\ m.next = broker[c].next /\ m.executed = broker[c].executed
                   /\ m.oms = broker[c].oms /\ m.status = "working"
   <2>1. PlainEvent(kind) \in Event /\ PlainEvent(kind).kind = kind
            /\ EventQty(PlainEvent(kind)) = 0
     BY PlainEventType DEF PlainKinds
   <2> QED BY <1>1, <1>2, <2>1, EmitType DEF Emit, Book
  <1> DEFINE Reports ==
        \E e \in Event, k \in Book :
            /\ broker' = [broker EXCEPT ![c] = k]
            /\ EventQty(e) = 0 /\ k.events = Append(broker[c].events, e)
            /\ k.next = broker[c].next /\ k.executed = broker[c].executed
            /\ k.oms = broker[c].oms
            /\ \/ /\ e.kind \in {"cancel", "expire", "reject"}
                  /\ k.status \notin {"none", "working"}
               \/ CancelRejects /\ e.kind = "reject" /\ k.status = "working"
  <1>4. Reports
   <2>1. ASSUME NEW kind \in {"cancel", "expire", "reject"},
                NEW status \in {"cancelled", "expired", "rejected"},
                BrokerStops(c, kind, status)
         PROVE  Reports
    <3> DEFINE m == Emit(c, PlainEvent(kind))
               k == [m EXCEPT !.status = status]
    <3>1. broker' = [broker EXCEPT ![c] = k] BY <2>1 DEF BrokerStops
    <3>2. /\ k \in Book /\ k.events = m.events /\ k.next = m.next /\ k.oms = m.oms
          /\ k.executed = m.executed /\ k.status = status
     <4>1. m \in Book BY <1>3
     <4> HIDE DEF m
     <4> QED BY <4>1 DEF Book, BrokerStatus
    <3> HIDE DEF k
    <3> QED BY <1>3, <3>1, <3>2
   <2>2. CASE BrokerRejectsCancel(c)
    <3> DEFINE m == Emit(c, PlainEvent("reject"))
               k == [m EXCEPT !.cancelReq = FALSE]
    <3>1. broker' = [broker EXCEPT ![c] = k] /\ CancelRejects BY <2>2 DEF BrokerRejectsCancel
    <3>2. m \in Book /\ m.status = "working" BY <1>3
    <3>3. /\ k \in Book /\ k.events = m.events /\ k.next = m.next /\ k.oms = m.oms
          /\ k.executed = m.executed /\ k.status = "working"
     <4> HIDE DEF m
     <4> QED BY <3>2 DEF Book, BrokerStatus
    <3> HIDE DEF k
    <3> QED BY <1>3, <3>1, <3>3
   <2> QED BY <2>1, <2>2
  <1>5. PICK e \in Event, k \in Book :
            /\ broker' = [broker EXCEPT ![c] = k]
            /\ EventQty(e) = 0 /\ k.events = Append(broker[c].events, e)
            /\ k.next = broker[c].next /\ k.executed = broker[c].executed
            /\ k.oms = broker[c].oms
            /\ \/ /\ e.kind \in {"cancel", "expire", "reject"}
                  /\ k.status \notin {"none", "working"}
               \/ CancelRejects /\ e.kind = "reject" /\ k.status = "working"
    BY <1>4
  <1>6. \A d \in BrokerIds : SameOrder(d) BY <1>1 DEF SameOrder, SameMapping
  <1>7. ledger' = [ledger EXCEPT ![c] = ledger[c]] BY <1>1 DEF Inv, TypeOK
  <1>8. /\ broker'[c] = k /\ ledger'[c] = ledger[c]
        /\ \A d \in BrokerIds \ {c} : StepOf(d)
    BY <1>5, <1>6, <1>7, OtherBooks
  <1>9. Ends(c, e) \/ KeepsWorking(c, e) BY <1>1, <1>5, <1>8 DEF Ends, KeepsWorking
  <1>10. Tells(c, e) BY <1>2, <1>5, <1>6, <1>8, <1>9 DEF Tells, SameLedger
  <1>11. StepOf(c) BY <1>10 DEF StepOf
  <1> QED BY <1>8, <1>11

(* What the event taken by the loop is for one broker order. *)
LEMMA TakeStepOf ==
    ASSUME Inv, NEW c \in BrokerIds, Consume(c), NEW b \in BrokerIds
    PROVE  StepOf(b)
  <1> DEFINE e == NextEvent(c)
             k == [broker[c] EXCEPT !.next = broker[c].next + 1]
  <1>1. HasEvent(c) /\ broker' = [broker EXCEPT ![c] = k]
    BY DEF Consume, ApplyUnknown, ApplyBrokerEvent, ApplyRefused, Advance
  <1>2. e \in Event /\ broker[c] \in Book BY <1>1, NextEventType DEF Inv, TypeOK
  <1>3. /\ k.events = broker[c].events /\ k.executed = broker[c].executed
        /\ k.status = broker[c].status /\ k.oms = broker[c].oms
        /\ k.next = broker[c].next + 1
    BY <1>2 DEF Book
  <1>4. broker'[c] = k BY <1>1 DEF Inv, TypeOK
  <1>5. Takes(c) BY <1>1, <1>3, <1>4 DEF Takes, SameTerms
  <1> HIDE DEF k
  <1>6. CASE ApplyUnknown(c)
   <2>1. /\ brokerToOms[c] = None /\ UNCHANGED <<byOmsId, brokerToOms>>
         /\ ledger' = [ledger EXCEPT ![c] = WithLost(ledger[c], EventQty(e))]
     BY <1>6 DEF ApplyUnknown, loopVars
   <2>2. \A d \in BrokerIds : SameOrder(d) BY <2>1 DEF SameOrder, SameMapping
   <2>3. /\ ledger'[c] = WithLost(ledger[c], EventQty(e))
         /\ \A d \in BrokerIds \ {c} : StepOf(d)
     BY <1>1, <2>1, <2>2, OtherBooks
   <2>4. StepOf(c) BY <1>5, <2>1, <2>2, <2>3 DEF StepOf, Loses
   <2> QED BY <2>3, <2>4
  <1>7. CASE ApplyRefused(c)
   <2>1. /\ brokerToOms[c] # None /\ UNCHANGED <<byOmsId, brokerToOms>>
         /\ ~Accepts(byOmsId[brokerToOms[c]], e)
         /\ ledger' = [ledger EXCEPT ![c].refused = @ + EventQty(e)]
     BY <1>7 DEF ApplyRefused, loopVars
   <2>2. \A d \in BrokerIds : SameOrder(d) BY <2>1 DEF SameOrder, SameMapping
   <2>3. ledger' = [ledger EXCEPT ![c] = [ledger[c] EXCEPT !.refused = @ + EventQty(e)]]
     BY <2>1 DEF Inv, TypeOK
   <2>4. /\ ledger'[c] = [ledger[c] EXCEPT !.refused = @ + EventQty(e)]
         /\ \A d \in BrokerIds \ {c} : StepOf(d)
     BY <1>1, <2>2, <2>3, OtherBooks
   <2>5. StepOf(c) BY <1>5, <2>1, <2>2, <2>4 DEF StepOf, Refuses
   <2> QED BY <2>4, <2>5
  <1>8. CASE ApplyBrokerEvent(c)
   <2> DEFINE o == brokerToOms[c]
              r == ApplyEvent(byOmsId[o], e)
   <2>1. /\ o # None /\ brokerToOms' = brokerToOms
         /\ Accepts(byOmsId[o], e) /\ Track(o, r)
         /\ ledger' = [ledger EXCEPT ![c].applied = @ + EventQty(e)]
     BY <1>8 DEF ApplyBrokerEvent
   <2>2. byOmsId[o] \in OrderRecord BY <2>1 DEF Inv, TypeOK, MappingInv
   <2>3. r \in OrderRecord BY <1>2, <2>2, ApplyEventType
   <2> HIDE DEF r, e
   <2>4. byOmsId'[o] = r /\ \A d \in BrokerIds \ {c} : SameOrder(d) BY <2>1, <2>3, OthersKept
   <2>5. ledger' = [ledger EXCEPT ![c] = [ledger[c] EXCEPT !.applied = @ + EventQty(e)]]
     BY <2>1 DEF Inv, TypeOK
   <2>6. /\ ledger'[c] = [ledger[c] EXCEPT !.applied = @ + EventQty(e)]
         /\ \A d \in BrokerIds \ {c} : StepOf(d)
     BY <1>1, <2>4, <2>5, OtherBooks
   <2>7. Moves(c, e) BY <2>1, <2>4 DEF Moves, SameMapping, r
   <2>8. StepOf(c) BY <1>5, <2>6, <2>7 DEF StepOf, Applies, e
   <2> QED BY <2>6, <2>8
  <1> QED BY <1>6, <1>7, <1>8 DEF Consume

(* What a cancel request is for one broker order. *)
LEMMA CancelStepOf ==
    ASSUME Inv, NEW c \in BrokerIds, RequestCancel(c), NEW b \in BrokerIds
    PROVE  StepOf(b)
  <1> DEFINE o == brokerToOms[c]
             e == PlainEvent("cancel_request")
             r == ApplyEvent(byOmsId[o], e)
             k == [broker[c] EXCEPT !.cancelReq = TRUE]
  <1>1. /\ o # None /\ brokerToOms' = brokerToOms /\ ledger' = ledger
        /\ Accepts(byOmsId[o], e) /\ Track(o, r)
        /\ broker' = [broker EXCEPT ![c] = k]
    BY DEF RequestCancel
  <1>2. e \in Event /\ broker[c] \in Book BY PlainEventType DEF PlainKinds, Inv, TypeOK
  <1>3. /\ k.events = broker[c].events /\ k.executed = broker[c].executed
        /\ k.status = broker[c].status /\ k.oms = broker[c].oms
        /\ k.next = broker[c].next
    BY <1>2 DEF Book
  <1>4. byOmsId[o] \in OrderRecord BY <1>1 DEF Inv, TypeOK, MappingInv
  <1>5. r \in OrderRecord BY <1>2, <1>4, ApplyEventType
  <1> HIDE DEF r, e, k
  <1>6. byOmsId'[o] = r /\ \A d \in BrokerIds \ {c} : SameOrder(d) BY <1>1, <1>5, OthersKept
  <1>7. ledger' = [ledger EXCEPT ![c] = ledger[c]] BY <1>1 DEF Inv, TypeOK
  <1>8. /\ broker'[c] = k /\ ledger'[c] = ledger[c]
        /\ \A d \in BrokerIds \ {c} : StepOf(d)
    BY <1>1, <1>6, <1>7, OtherBooks
  <1>9. Moves(c, e) BY <1>1, <1>6 DEF Moves, SameMapping, r
  <1>10. StepOf(c) BY <1>3, <1>8, <1>9 DEF StepOf, AsksCancel, SameBook, SameTerms, SameLedger, e
  <1> QED BY <1>8, <1>10

(* What a replay is for one broker order. *)
LEMMA ReplayStepOf ==
    ASSUME Inv, NEW c \in BrokerIds, BrokerReplays(c), NEW b \in BrokerIds
    PROVE  StepOf(b)
  <1> DEFINE q == EventQty(broker[c].events[broker[c].next - 1])
             k == [broker[c] EXCEPT !.next = broker[c].next - 1]
  <1>1. /\ broker[c].next - 1 \in DOMAIN broker[c].events
        /\ UNCHANGED <<byOmsId, brokerToOms>>
        /\ broker' = [broker EXCEPT ![c] = k]
        /\ ledger' = [ledger EXCEPT ![c] = WithReplayed(ledger[c], q)]
    BY DEF BrokerReplays, loopVars
  <1>2. broker[c] \in Book BY DEF Inv, TypeOK
  <1>3. /\ k.events = broker[c].events /\ k.executed = broker[c].executed
        /\ k.status = broker[c].status /\ k.oms = broker[c].oms
        /\ k.next = broker[c].next - 1
    BY <1>2 DEF Book
  <1> HIDE DEF k, q
  <1>4. \A d \in BrokerIds : SameOrder(d) BY <1>1 DEF SameOrder, SameMapping
  <1>5. /\ broker'[c] = k /\ ledger'[c] = WithReplayed(ledger[c], q)
        /\ \A d \in BrokerIds \ {c} : StepOf(d)
    BY <1>1, <1>4, OtherBooks
  <1>6. StepOf(c) BY <1>1, <1>3, <1>4, <1>5 DEF StepOf, Rewinds, SameTerms, q
  <1> QED BY <1>5, <1>6

(* Every step is one of the cases, for every broker id. *)
LEMMA EveryStep ==
    ASSUME Inv, [Next]_vars, NEW b \in BrokerIds
    PROVE  StepOf(b)
  <1>1. CASE UNCHANGED <<broker, ledger, byOmsId, brokerToOms>>
    BY <1>1 DEF StepOf, Idle, SameBook, SameTerms, SameLedger, SameOrder, SameMapping
  <1>2. CASE Engage \/ Disengage \/ UNCHANGED vars
    BY <1>1, <1>2 DEF Engage, Disengage, loopVars, vars
  <1>3. CASE Next
    BY <1>2, <1>3, SubmitStepOf, AcceptStepOf, FillStepOf, EndStepOf, TakeStepOf,
       CancelStepOf, ReplayStepOf DEF Next, BrokerStep
  <1> QED BY <1>2, <1>3

----------------------------------------
(* The shares of queued events. *)

Queued(s, n) == SumOn([i \in DOMAIN s |-> EventQty(s[i])], n..Len(s))

PendingMatches ==
    \A b \in BrokerIds : PendingQty(b) = Queued(broker[b].events, broker[b].next)

(* The shares pending are those of the events not yet taken. *)
LEMMA PendingIsQueued == PendingMatches /\ PendingMatches'
  <1>1. PendingMatches BY DEF PendingMatches, PendingQty, Queued, Reported, SumOn
  <1> QED BY <1>1, PTL

(* An event is of a number of shares. *)
LEMMA EventQtyNat == \A e \in Event : EventQty(e) \in Nat
  BY DEF EventQty, Event

(* The shares queued from a place on are a number. *)
LEMMA QueuedNat ==
    ASSUME NEW s \in Seq(Event), NEW n \in Nat \ {0}
    PROVE  Queued(s, n) \in Nat
  <1> DEFINE f == [i \in DOMAIN s |-> EventQty(s[i])]
  <1>1. n..Len(s) \subseteq DOMAIN s /\ IsFiniteSet(n..Len(s)) BY FS_Interval
  <1>2. \A i \in n..Len(s) : f[i] \in Nat BY <1>1, EventQtyNat
  <1> HIDE DEF f
  <1>3. SumOn(f, n..Len(s)) \in Nat BY <1>1, <1>2, SumNat
  <1> QED BY <1>3 DEF Queued, f

(* A new event adds its shares to the queue. *)
LEMMA QueuedAppend ==
    ASSUME NEW s \in Seq(Event), NEW n \in 1..(Len(s) + 1), NEW e \in Event
    PROVE  Queued(Append(s, e), n) = Queued(s, n) + EventQty(e)
  <1> DEFINE z == Len(s) + 1
             f == [i \in DOMAIN s |-> EventQty(s[i])]
             t == Append(s, e)
             g == [i \in DOMAIN t |-> EventQty(t[i])]
             Q == n..Len(s)
  <1>1. /\ t \in Seq(Event) /\ Len(t) = z /\ t[z] = e
        /\ \A i \in 1..Len(s) : t[i] = s[i]
    OBVIOUS
  <1>2. /\ Q \subseteq 1..Len(s) /\ IsFiniteSet(Q) /\ z \notin Q
        /\ n..Len(t) = Q \cup {z} /\ DOMAIN s = 1..Len(s) /\ DOMAIN t = 1..z
   <2>1. Len(s) \in Nat /\ DOMAIN s = 1..Len(s) /\ DOMAIN t = 1..z BY <1>1
   <2>2. IsFiniteSet(Q) BY <2>1, FS_Interval
   <2>3. Q \subseteq 1..Len(s) /\ z \notin Q /\ n..z = Q \cup {z} BY <2>1
   <2> QED BY <1>1, <2>1, <2>2, <2>3
  <1> HIDE DEF t, z
  <1>3. \A i \in Q \cup {z} : g[i] = EventQty(t[i]) /\ t[i] \in Event BY <1>1, <1>2 DEF z
  <1>4. \A i \in Q \cup {z} : g[i] \in Int BY <1>3, EventQtyNat
  <1>5. \A i \in Q : f[i] = g[i] BY <1>1, <1>2, <1>3
  <1> HIDE DEF f, g, Q
  <1>6. SumOn(g, Q \cup {z}) = SumOn(g, Q) + g[z] BY <1>2, <1>4, SumAdd
  <1>7. SumOn(f, Q) = SumOn(g, Q) BY <1>2, <1>5, SumSame
  <1>8. Queued(s, n) = SumOn(f, Q) BY DEF Queued, f, Q
  <1>9. Queued(t, n) = SumOn(g, Q \cup {z}) BY <1>2 DEF Queued, g
  <1> QED BY <1>1, <1>3, <1>6, <1>7, <1>8, <1>9 DEF t

(* Taking the next event removes its shares; replaying it puts them back. *)
LEMMA QueuedTake ==
    ASSUME NEW s \in Seq(Event), NEW n \in 1..Len(s)
    PROVE  Queued(s, n) = EventQty(s[n]) + Queued(s, n + 1)
  <1> DEFINE f == [i \in DOMAIN s |-> EventQty(s[i])]
             Q == n..Len(s)
  <1>1. /\ Q \subseteq DOMAIN s /\ IsFiniteSet(Q) /\ n \in Q
        /\ Q \ {n} = (n + 1)..Len(s)
   <2>1. Len(s) \in Nat /\ DOMAIN s = 1..Len(s) OBVIOUS
   <2>2. IsFiniteSet(Q) BY <2>1, FS_Interval
   <2>3. Q \subseteq DOMAIN s /\ n \in Q /\ Q \ {n} = (n + 1)..Len(s) BY <2>1
   <2> QED BY <2>2, <2>3
  <1>2. \A i \in Q : f[i] = EventQty(s[i]) /\ s[i] \in Event BY <1>1
  <1>3. \A i \in Q : f[i] \in Int BY <1>2, EventQtyNat
  <1> HIDE DEF f, Q
  <1>4. SumOn(f, Q) = f[n] + SumOn(f, Q \ {n}) BY <1>1, <1>3, SumSplit
  <1>5. Queued(s, n) = SumOn(f, Q) /\ Queued(s, n + 1) = SumOn(f, Q \ {n}) BY <1>1 DEF Queued, f, Q
  <1> QED BY <1>1, <1>2, <1>4, <1>5

(* An emptied queue holds no shares. *)
LEMMA QueuedNone ==
    ASSUME NEW s \in Seq(Event), NEW n \in Nat, n > Len(s)
    PROVE  Queued(s, n) = 0
  <1>1. n..Len(s) = {} OBVIOUS
  <1> QED BY <1>1, SumEmpty DEF Queued

----------------------------------------
(* Every share the broker reports is accounted for. *)

InBounds(b) ==
    /\ broker[b].next <= Len(broker[b].events) + 1
    /\ broker[b].status = "none" => broker[b].executed = 0
    /\ broker[b].status # "none" => broker[b].executed <= Quantity[broker[b].oms]

Balanced(b) ==
    ledger[b].applied + ledger[b].lost + ledger[b].refused + PendingQty(b)
        = broker[b].executed + ledger[b].replayed

SharesOf(b) == InBounds(b) /\ Balanced(b)

SharesInv == \A b \in BrokerIds : SharesOf(b)

(* The shares a ledger has entered as applied, lost or refused. *)
Entered(l) == l.applied + l.lost + l.refused

(* The fields of the book and the ledger of a broker id. *)
FieldTypes(b) ==
    /\ broker[b].events \in Seq(Event) /\ broker[b].next \in Nat \ {0}
    /\ broker[b].executed \in Nat /\ Len(broker[b].events) \in Nat
    /\ ledger[b].applied \in Nat /\ ledger[b].lost \in Nat
    /\ ledger[b].refused \in Nat /\ ledger[b].replayed \in Nat
    /\ ledger[b].replays \in Nat /\ ledger[b] \in Ledger
    /\ PendingQty(b) \in Nat /\ Entered(ledger[b]) \in Nat

FieldsTyped == TypeOK => \A b \in BrokerIds : FieldTypes(b)

(* The fields of the records, before and after a step. *)
LEMMA Fields == FieldsTyped /\ FieldsTyped'
  <1>1. FieldsTyped
   <2> SUFFICES ASSUME TypeOK, NEW b \in BrokerIds PROVE FieldTypes(b)
     BY DEF FieldsTyped
   <2>1. broker[b] \in Book /\ ledger[b] \in Ledger BY DEF TypeOK
   <2>2. /\ broker[b].events \in Seq(Event) /\ broker[b].next \in Nat \ {0}
         /\ broker[b].executed \in Nat
     BY <2>1 DEF Book
   <2>3. PendingQty(b) \in Nat BY <2>2, PendingIsQueued, QueuedNat DEF PendingMatches
   <2>4. /\ ledger[b].applied \in Nat /\ ledger[b].lost \in Nat
         /\ ledger[b].refused \in Nat /\ ledger[b].replayed \in Nat
         /\ ledger[b].replays \in Nat
     BY <2>1 DEF Ledger
   <2>5. Entered(ledger[b]) \in Nat BY <2>4 DEF Entered
   <2> QED BY <2>1, <2>2, <2>3, <2>4, <2>5 DEF FieldTypes
  <1> QED BY <1>1, PTL

(* Taking an event enters its shares; a replay adds to what was replayed. *)
Enters(m, l, q) ==
    /\ Entered(m) = Entered(l) + q
    /\ m.replayed = l.replayed /\ m.replays = l.replays

Returns(m, l, q) ==
    /\ Entered(m) = Entered(l)
    /\ m.replayed = l.replayed + q /\ m.replays = l.replays + 1

(* What each entry of the ledger adds and returns. *)
LEMMA LedgerEntries ==
    ASSUME NEW l \in Ledger, NEW q \in Nat
    PROVE  /\ Enters(WithLost(l, q), l, q)
           /\ Enters([l EXCEPT !.applied = @ + q], l, q)
           /\ Enters([l EXCEPT !.refused = @ + q], l, q)
           /\ Returns(WithReplayed(l, q), l, q)
  <1>1. /\ l.applied \in Nat /\ l.lost \in Nat /\ l.refused \in Nat
        /\ l.replayed \in Nat /\ l.replays \in Nat /\ l.gaps \in Nat
    BY DEF Ledger
  <1>2. Enters(WithLost(l, q), l, q) BY <1>1 DEF Enters, Entered, WithLost, Ledger
  <1>3. Enters([l EXCEPT !.applied = @ + q], l, q) BY <1>1 DEF Enters, Entered, Ledger
  <1>4. Enters([l EXCEPT !.refused = @ + q], l, q) BY <1>1 DEF Enters, Entered, Ledger
  <1>5. Returns(WithReplayed(l, q), l, q) BY <1>1 DEF Returns, Entered, WithReplayed, Ledger
  <1> QED BY <1>2, <1>3, <1>4, <1>5

(* What a step does to the queue. *)
LEMMA QueueMoves ==
    ASSUME TypeOK, TypeOK', NEW b \in BrokerIds, SharesOf(b)
    PROVE  /\ SameBook(b) => PendingQty(b)' = PendingQty(b)
           /\ \A e \in Event :
                 Tells(b, e) => PendingQty(b)' = PendingQty(b) + EventQty(e)
           /\ Takes(b) => /\ NextEvent(b) \in Event
                          /\ PendingQty(b) = EventQty(NextEvent(b)) + PendingQty(b)'
           /\ Rewinds(b) => LET e == broker[b].events[broker[b].next - 1]
                            IN  e \in Event /\ PendingQty(b)' = EventQty(e) + PendingQty(b)
  <1> DEFINE s == broker[b].events
             n == broker[b].next
  <1>1. s \in Seq(Event) /\ n \in Nat \ {0} /\ n <= Len(s) + 1 /\ Len(s) \in Nat
    BY Fields DEF SharesOf, InBounds, FieldsTyped, FieldTypes
  <1>2. PendingQty(b) = Queued(s, n) BY PendingIsQueued DEF PendingMatches
  <1>3. PendingQty(b)' = Queued(broker'[b].events, broker'[b].next)
    BY PendingIsQueued DEF PendingMatches
  <1>4. SameBook(b) => PendingQty(b)' = PendingQty(b) BY <1>2, <1>3 DEF SameBook, SameTerms
  <1>5. ASSUME NEW e \in Event, Tells(b, e)
        PROVE  PendingQty(b)' = PendingQty(b) + EventQty(e)
   <2>1. n \in 1..(Len(s) + 1) BY <1>1
   <2>2. Queued(Append(s, e), n) = Queued(s, n) + EventQty(e) BY <1>1, <2>1, QueuedAppend
   <2> QED BY <1>2, <1>3, <1>5, <2>2 DEF Tells
  <1>6. ASSUME Takes(b)
        PROVE  /\ NextEvent(b) \in Event
               /\ PendingQty(b) = EventQty(NextEvent(b)) + PendingQty(b)'
   <2>1. n \in 1..Len(s) BY <1>1, <1>6 DEF Takes, HasEvent
   <2>2. Queued(s, n) = EventQty(s[n]) + Queued(s, n + 1) BY <1>1, <2>1, QueuedTake
   <2>3. s[n] \in Event BY <1>1, <2>1
   <2> QED BY <1>2, <1>3, <1>6, <2>2, <2>3 DEF Takes, SameTerms, NextEvent
  <1>7. ASSUME Rewinds(b)
        PROVE  LET e == broker[b].events[broker[b].next - 1]
               IN  e \in Event /\ PendingQty(b)' = EventQty(e) + PendingQty(b)
   <2>1. n - 1 \in 1..Len(s) BY <1>1, <1>7 DEF Rewinds
   <2>2. Queued(s, n - 1) = EventQty(s[n - 1]) + Queued(s, (n - 1) + 1) BY <1>1, <2>1, QueuedTake
   <2>3. s[n - 1] \in Event /\ (n - 1) + 1 = n BY <1>1, <2>1
   <2> QED BY <1>2, <1>3, <1>7, <2>2, <2>3 DEF Rewinds, SameTerms
  <1> QED BY <1>4, <1>5, <1>6, <1>7

(* The shares of a broker order stay accounted for. *)
LEMMA SharesStep ==
    ASSUME TypeOK, TypeOK', BooksInv, NEW b \in BrokerIds, SharesOf(b), StepOf(b)
    PROVE  SharesOf(b)'
  <1>1. /\ broker[b].events \in Seq(Event) /\ broker[b].next \in Nat \ {0}
        /\ broker[b].executed \in Nat /\ Len(broker[b].events) \in Nat
        /\ ledger[b].applied \in Nat /\ ledger[b].lost \in Nat
        /\ ledger[b].refused \in Nat /\ ledger[b].replayed \in Nat
        /\ ledger[b] \in Ledger /\ PendingQty(b) \in Nat
        /\ Entered(ledger[b]) \in Nat
    BY Fields DEF FieldsTyped, FieldTypes
  <1>2. PendingQty(b)' \in Nat /\ Entered(ledger'[b]) \in Nat BY Fields DEF FieldsTyped, FieldTypes
  <1>3. CASE SameBook(b) /\ SameLedger(b)
   <2>1. PendingQty(b)' = PendingQty(b) BY <1>3, QueueMoves
   <2> QED BY <1>3, <2>1 DEF SharesOf, InBounds, Balanced, SameBook, SameTerms, SameLedger
  <1>4. ASSUME NEW e \in Event, Tells(b, e)
        PROVE  SharesOf(b)'
   <2>1. PendingQty(b)' = PendingQty(b) + EventQty(e) /\ EventQty(e) \in Nat
     BY <1>4, QueueMoves, EventQtyNat
   <2>2. /\ broker'[b].events = Append(broker[b].events, e)
         /\ broker'[b].next = broker[b].next
         /\ broker'[b].executed = broker[b].executed + EventQty(e)
         /\ ledger'[b] = ledger[b]
     BY <1>4 DEF Tells, SameLedger
   <2>3. Len(broker'[b].events) = Len(broker[b].events) + 1 BY <1>1, <2>2
   <2>4. /\ broker'[b].status # "none"
         /\ broker'[b].executed <= Quantity[broker'[b].oms]
    <3>1. CASE Opens(b, e)
     <4>1. EventQty(e) = 0 BY <3>1 DEF Opens, EventQty, FillKinds
     <4>2. Quantity[broker'[b].oms] \in Nat BY <3>1, LiveLoopAssumption DEF Opens
     <4> QED BY <2>2, <3>1, <4>1, <4>2 DEF SharesOf, InBounds, Opens
    <3>2. CASE Trades(b, e)
     <4>1. broker[b].oms \in Orders /\ Quantity[broker[b].oms] \in Nat
       BY <3>2, LiveLoopAssumption DEF Trades, BooksInv
     <4>2. EventQty(e) = e.qty /\ e.qty \in 1..Left(b) BY <3>2 DEF Trades, EventQty
     <4> QED BY <1>1, <2>1, <2>2, <3>2, <4>1, <4>2 DEF Trades, Left
    <3>3. CASE Ends(b, e) \/ KeepsWorking(b, e)
     <4>1. EventQty(e) = 0 BY <3>3 DEF Ends, KeepsWorking, EventQty, FillKinds
     <4> QED BY <1>1, <2>2, <3>3, <4>1 DEF SharesOf, InBounds, Ends, KeepsWorking
    <3> QED BY <1>4, <3>1, <3>2, <3>3 DEF Tells
   <2>5. InBounds(b)' BY <1>1, <2>2, <2>3, <2>4 DEF SharesOf, InBounds
   <2>6. Balanced(b)'
    <3>1. /\ ledger[b].applied \in Nat /\ ledger[b].lost \in Nat
          /\ ledger[b].refused \in Nat /\ ledger[b].replayed \in Nat
          /\ broker[b].executed \in Nat /\ PendingQty(b) \in Nat
      BY <1>1
    <3>2. ledger[b].applied + ledger[b].lost + ledger[b].refused + PendingQty(b)
              = broker[b].executed + ledger[b].replayed
      BY DEF SharesOf, Balanced
    <3>3. ledger[b].applied + ledger[b].lost + ledger[b].refused
              + (PendingQty(b) + EventQty(e))
              = (broker[b].executed + EventQty(e)) + ledger[b].replayed
      BY <2>1, <3>1, <3>2
    <3> QED BY <2>1, <2>2, <3>3 DEF Balanced
   <2> QED BY <2>5, <2>6 DEF SharesOf
  <1>5. ASSUME Loses(b) \/ Applies(b) \/ Refuses(b)
        PROVE  SharesOf(b)'
   <2>1. /\ Takes(b) /\ HasEvent(b) /\ SameTerms(b)
         /\ broker'[b].next = broker[b].next + 1
     BY <1>5 DEF Loses, Applies, Refuses, Takes
   <2> DEFINE q == EventQty(NextEvent(b))
   <2>2. PendingQty(b) = q + PendingQty(b)' /\ q \in Nat BY <2>1, QueueMoves, EventQtyNat
   <2> HIDE DEF q
   <2>3. Enters(ledger'[b], ledger[b], q)
     BY <1>1, <1>5, <2>2, LedgerEntries DEF Loses, Applies, Refuses, q
   <2>4. InBounds(b)' BY <1>1, <2>1 DEF SharesOf, InBounds, SameTerms, HasEvent
   <2>5. Balanced(b)'
    <3>1. /\ Entered(ledger[b]) \in Nat /\ Entered(ledger'[b]) \in Nat
          /\ ledger[b].replayed \in Nat /\ broker[b].executed \in Nat
          /\ PendingQty(b) \in Nat /\ PendingQty(b)' \in Nat
      BY <1>1, <1>2
    <3>2. Entered(ledger[b]) + PendingQty(b) = broker[b].executed + ledger[b].replayed
      BY DEF SharesOf, Balanced, Entered
    <3>3. /\ Entered(ledger'[b]) = Entered(ledger[b]) + q
          /\ ledger'[b].replayed = ledger[b].replayed
          /\ broker'[b].executed = broker[b].executed
      BY <2>1, <2>3 DEF Enters, SameTerms
    <3>4. Entered(ledger'[b]) + PendingQty(b)'
              = broker'[b].executed + ledger'[b].replayed
      BY <2>2, <3>1, <3>2, <3>3
    <3> QED BY <3>4 DEF Balanced, Entered
   <2> QED BY <2>4, <2>5 DEF SharesOf
  <1>6. ASSUME Rewinds(b)
        PROVE  SharesOf(b)'
   <2> DEFINE q == EventQty(broker[b].events[broker[b].next - 1])
   <2>1. PendingQty(b)' = q + PendingQty(b) /\ q \in Nat BY <1>6, QueueMoves, EventQtyNat
   <2> HIDE DEF q
   <2>2. Returns(ledger'[b], ledger[b], q) BY <1>1, <1>6, <2>1, LedgerEntries DEF Rewinds, q
   <2>3. SameTerms(b) /\ broker'[b].next = broker[b].next - 1 BY <1>6 DEF Rewinds
   <2>4. InBounds(b)' BY <1>1, <2>3 DEF SharesOf, InBounds, SameTerms
   <2>5. Balanced(b)'
    <3>1. /\ Entered(ledger[b]) \in Nat /\ Entered(ledger'[b]) \in Nat
          /\ ledger[b].replayed \in Nat /\ broker[b].executed \in Nat
          /\ PendingQty(b) \in Nat /\ PendingQty(b)' \in Nat
      BY <1>1, <1>2
    <3>2. Entered(ledger[b]) + PendingQty(b) = broker[b].executed + ledger[b].replayed
      BY DEF SharesOf, Balanced, Entered
    <3>3. /\ Entered(ledger'[b]) = Entered(ledger[b])
          /\ ledger'[b].replayed = ledger[b].replayed + q
          /\ broker'[b].executed = broker[b].executed
      BY <2>2, <2>3 DEF Returns, SameTerms
    <3>4. Entered(ledger'[b]) + PendingQty(b)'
              = broker'[b].executed + ledger'[b].replayed
      BY <2>1, <3>1, <3>2, <3>3
    <3> QED BY <3>4 DEF Balanced, Entered
   <2> QED BY <2>4, <2>5 DEF SharesOf
  <1> QED BY <1>3, <1>4, <1>5, <1>6 DEF StepOf, Idle, Maps, AsksCancel

----------------------------------------
(* The average fill price. *)

Traded(s) == {e \in ToSet(s) : e.kind \in FillKinds}

(* What an order paid is nothing before its first share, and lies between two
   prices its broker traded at from then on. *)
CostWithin(r, s) ==
    /\ r.filled = 0 => r.notional = 0
    /\ r.filled > 0 => /\ \E e \in Traded(s) : e.price * r.filled <= r.notional
                       /\ \E e \in Traded(s) : e.price * r.filled >= r.notional

CostOf(b) ==
    brokerToOms[b] # None => CostWithin(byOmsId[brokerToOms[b]], broker[b].events)

CostInv == \A b \in BrokerIds : CostOf(b)

(* The lower of two prices stays below the average, the higher above it. *)
LEMMA PriceBetween ==
    ASSUME NEW a \in Nat, NEW p \in Nat, NEW f \in Nat, NEW q \in Nat, NEW n \in Nat
    PROVE  /\ a * f <= n => a * (f + q) <= n + q * p \/ p * (f + q) <= n + q * p
           /\ a * f >= n => a * (f + q) >= n + q * p \/ p * (f + q) >= n + q * p
  <1>1. a * (f + q) = a * f + a * q /\ p * (f + q) = p * f + q * p OBVIOUS
  <1>2. /\ a <= p => a * q <= q * p /\ a * f <= p * f
        /\ p <= a => q * p <= a * q /\ p * f <= a * f
    OBVIOUS
  <1>3. /\ a * f \in Nat /\ a * q \in Nat /\ p * f \in Nat /\ q * p \in Nat
        /\ a <= p \/ p <= a
    OBVIOUS
  <1> DEFINE af == a * f
             aq == a * q
             pf == p * f
             qp == q * p
             afq == a * (f + q)
             pfq == p * (f + q)
  <1>4. /\ afq = af + aq /\ pfq = pf + qp
        /\ a <= p => aq <= qp /\ af <= pf
        /\ p <= a => qp <= aq /\ pf <= af
        /\ af \in Nat /\ aq \in Nat /\ pf \in Nat /\ qp \in Nat
    BY <1>1, <1>2, <1>3
  <1> SUFFICES /\ af <= n => afq <= n + qp \/ pfq <= n + qp
               /\ af >= n => afq >= n + qp \/ pfq >= n + qp
    OBVIOUS
  <1> HIDE DEF af, aq, pf, qp, afq, pfq
  <1> QED BY <1>3, <1>4

(* What apply_event adds to the cost. *)
LEMMA ApplyEventCost ==
    ASSUME NEW r \in OrderRecord, NEW e \in Event
    PROVE  ApplyEvent(r, e).notional
              = r.notional + (IF e.kind \in FillKinds THEN e.qty * e.price ELSE 0)
  BY DEF ApplyEvent, OrderRecord

(* A later event leaves the bound on the cost standing. *)
LEMMA CostGrows ==
    ASSUME NEW r, NEW s \in Seq(Event), NEW e \in Event, CostWithin(r, s)
    PROVE  CostWithin(r, Append(s, e))
  <1> DEFINE t == Append(s, e)
  <1>1. \A i \in DOMAIN s : i \in DOMAIN t /\ t[i] = s[i] OBVIOUS
  <1> HIDE DEF t
  <1>2. Traded(s) \subseteq Traded(t) BY <1>1 DEF Traded, ToSet
  <1> QED BY <1>2 DEF CostWithin, t

(* An event applied adds no cost but its own. *)
LEMMA CostApplied ==
    ASSUME NEW r \in OrderRecord, NEW s \in Seq(Event), NEW e \in Event,
           CostWithin(r, s), e \in ToSet(s) \/ e.kind \in PlainKinds
    PROVE  CostWithin(ApplyEvent(r, e), s)
  <1> DEFINE x == ApplyEvent(r, e)
  <1>1. /\ x.filled = r.filled + EventQty(e)
        /\ x.notional = r.notional + (IF e.kind \in FillKinds THEN e.qty * e.price ELSE 0)
    BY ApplyEventType, ApplyEventCost
  <1>2. /\ r.filled \in Nat /\ r.notional \in Nat
        /\ e.kind \in PlainKinds \cup FillKinds /\ e.qty \in Nat /\ e.price \in Nat
    BY DEF OrderRecord, Event
  <1> HIDE DEF x
  <1>3. CASE e.kind \notin FillKinds
   <2>1. x.filled = r.filled /\ x.notional = r.notional BY <1>1, <1>2, <1>3 DEF EventQty
   <2> QED BY <2>1 DEF CostWithin, x
  <1>4. CASE e.kind \in FillKinds
   <2> DEFINE f == r.filled
              n == r.notional
              q == e.qty
              p == e.price
   <2>1. x.filled = f + q /\ x.notional = n + q * p BY <1>1, <1>4 DEF EventQty
   <2>2. e \in Traded(s) BY <1>4 DEF Traded, PlainKinds, FillKinds
   <2>3. \A y \in Traded(s) : y.price \in Nat
    <3>1. ToSet(s) \subseteq Event BY DEF ToSet
    <3> QED BY <3>1 DEF Traded, Event
   <2>4. CASE q = 0
    <3>1. q * p = 0 /\ f + q = f /\ n + q * p = n BY <1>2, <2>4
    <3> QED BY <2>1, <3>1 DEF CostWithin, x
   <2>5. CASE q # 0 /\ f = 0
    <3>1. n = 0 /\ p * (f + q) = q * p /\ n + q * p = q * p /\ f + q > 0 /\ q * p \in Nat
      BY <1>2, <2>5 DEF CostWithin
    <3> HIDE DEF f, q, p, n
    <3>2. e.price * x.filled = x.notional /\ x.notional \in Nat BY <2>1, <3>1 DEF p
    <3> QED BY <2>1, <2>2, <3>1, <3>2 DEF CostWithin, x
   <2>6. CASE q # 0 /\ f # 0
    <3>1. PICK lo \in Traded(s) : lo.price * f <= n
      BY <1>2, <2>6 DEF CostWithin
    <3>2. PICK hi \in Traded(s) : hi.price * f >= n
      BY <1>2, <2>6 DEF CostWithin
    <3>3. /\ f \in Nat /\ n \in Nat /\ q \in Nat /\ p \in Nat
          /\ lo.price \in Nat /\ hi.price \in Nat
      BY <1>2, <2>3
    <3> HIDE DEF f, n, q, p
    <3>4. lo.price * (f + q) <= n + q * p \/ p * (f + q) <= n + q * p BY <3>1, <3>3, PriceBetween
    <3>5. hi.price * (f + q) >= n + q * p \/ p * (f + q) >= n + q * p BY <3>2, <3>3, PriceBetween
    <3>6. \E y \in Traded(s) : y.price * x.filled <= x.notional BY <2>1, <2>2, <3>4 DEF p
    <3>7. \E y \in Traded(s) : y.price * x.filled >= x.notional BY <2>1, <2>2, <3>5 DEF p
    <3>8. x.filled # 0 BY <2>1, <2>6, <3>3
    <3> QED BY <3>6, <3>7, <3>8 DEF CostWithin, x
   <2> QED BY <2>4, <2>5, <2>6
  <1> QED BY <1>3, <1>4

(* The cost of an order stays within that of its fills. *)
LEMMA CostStep ==
    ASSUME Inv, NEW b \in BrokerIds, CostOf(b), StepOf(b)
    PROVE  CostOf(b)'
  <1> DEFINE s == broker[b].events
  <1>1. s \in Seq(Event) /\ broker[b].next \in Nat \ {0} BY Fields DEF Inv, FieldsTyped, FieldTypes
  <1>2. brokerToOms[b] # None => byOmsId[brokerToOms[b]] \in OrderRecord
    BY DEF Inv, TypeOK, MappingInv
  <1>3. ASSUME SameOrder(b), broker'[b].events = s
        PROVE  CostOf(b)'
    BY <1>3 DEF CostOf, SameOrder, SameMapping
  <1>4. ASSUME NEW e \in Event, Tells(b, e)
        PROVE  CostOf(b)'
   <2>1. SameOrder(b) /\ broker'[b].events = Append(s, e) BY <1>4 DEF Tells
   <2> QED BY <1>1, <2>1, CostGrows DEF CostOf, SameOrder, SameMapping
  <1>5. ASSUME NEW e \in Event, Moves(b, e), broker'[b].events = s,
               e \in ToSet(s) \/ e.kind \in PlainKinds
        PROVE  CostOf(b)'
    BY <1>1, <1>2, <1>5, CostApplied DEF CostOf, Moves, SameMapping
  <1>6. ASSUME NEW o \in Orders, Maps(b, o)
        PROVE  CostOf(b)'
   <2> DEFINE e == PlainEvent("submit")
              r == ApplyEvent(Minted(o), e)
   <2>1. Minted(o) \in OrderRecord /\ Minted(o).notional = 0
    <3>1. Quantity[o] \in Nat BY LiveLoopAssumption
    <3> QED BY <3>1 DEF Minted, NewOrder, OrderRecord, OrderStatus
   <2>2. e \in Event /\ e.kind = "submit" BY PlainEventType DEF PlainKinds
   <2>3. r.filled = 0 /\ r \in OrderRecord BY MintedOrder
   <2>4. r.notional = 0
    <3> HIDE DEF e
    <3> QED BY <2>1, <2>2, ApplyEventCost DEF FillKinds
   <2> HIDE DEF r
   <2>5. byOmsId'[o] = r /\ brokerToOms'[b] = o BY <1>6 DEF Maps, r
   <2> QED BY <2>3, <2>4, <2>5 DEF CostOf, CostWithin
  <1>7. CASE Idle(b) \/ Loses(b) \/ Refuses(b) \/ Rewinds(b)
    BY <1>3, <1>7 DEF Idle, Loses, Refuses, Rewinds, SameBook, SameTerms, Takes
  <1>8. CASE AsksCancel(b)
   <2>1. PlainEvent("cancel_request") \in Event
             /\ PlainEvent("cancel_request").kind \in PlainKinds
     BY PlainEventType DEF PlainKinds
   <2> QED BY <1>5, <1>8, <2>1 DEF AsksCancel, SameBook, SameTerms
  <1>9. CASE Applies(b)
   <2>1. NextEvent(b) \in Event BY <1>9, NextEventType DEF Applies, Takes
   <2>2. NextEvent(b) \in ToSet(s)
    <3>1. broker[b].next \in DOMAIN s BY <1>1, <1>9 DEF Applies, Takes, HasEvent
    <3> QED BY <3>1 DEF ToSet, NextEvent
   <2> QED BY <1>5, <1>9, <2>1, <2>2 DEF Applies, Takes, SameTerms
  <1> QED BY <1>4, <1>6, <1>7, <1>8, <1>9 DEF StepOf

FlowInv == Inv /\ SharesInv /\ CostInv

(* The accounts are empty at the start. *)
LEMMA InitFlow == Init => FlowInv
  <1> SUFFICES ASSUME Init PROVE FlowInv
    OBVIOUS
  <1>1. Inv BY InitInv
  <1>2. ASSUME NEW b \in BrokerIds
        PROVE  SharesOf(b) /\ CostOf(b)
   <2>1. /\ broker[b] = EmptyBook /\ ledger[b] = EmptyLedger /\ brokerToOms[b] = None
     BY DEF Init
   <2>2. /\ broker[b].next = 1 /\ broker[b].events = <<>> /\ broker[b].executed = 0
         /\ broker[b].status = "none"
         /\ ledger[b].applied = 0 /\ ledger[b].lost = 0 /\ ledger[b].refused = 0
         /\ ledger[b].replayed = 0
     BY <2>1 DEF EmptyBook, EmptyLedger
   <2>3. PendingQty(b) = 0
    <3>1. <<>> \in Seq(Event) /\ 1 \in Nat /\ 1 > Len(<<>>) OBVIOUS
    <3>2. Queued(<<>>, 1) = 0 BY <3>1, QueuedNone
    <3> QED BY <2>2, <3>2, PendingIsQueued DEF PendingMatches
   <2> QED BY <2>1, <2>2, <2>3 DEF SharesOf, InBounds, Balanced, CostOf
  <1> QED BY <1>1, <1>2 DEF FlowInv, SharesInv, CostInv

(* Every step keeps the accounts. *)
LEMMA FlowNext == FlowInv /\ [Next]_vars => FlowInv'
  <1> SUFFICES ASSUME FlowInv, [Next]_vars PROVE FlowInv'
    OBVIOUS
  <1>1. Inv /\ Inv' BY InvNext DEF FlowInv
  <1>2. \A b \in BrokerIds : StepOf(b) BY <1>1, EveryStep
  <1>3. TypeOK /\ TypeOK' /\ BooksInv BY <1>1 DEF Inv
  <1>4. SharesInv' BY <1>2, <1>3, SharesStep DEF FlowInv, SharesInv
  <1>5. CostInv' BY <1>1, <1>2, CostStep DEF FlowInv, CostInv
  <1> QED BY <1>1, <1>4, <1>5 DEF FlowInv

(* loop.py 202-222, order.py 123-199: every share the broker executed or
   replayed is applied, queued, lost or refused, an order shows what was applied,
   and its average price lies within the prices traded. *)
THEOREM SharesAreAccounted == Spec => []FillsAccounted
  <1>1. FlowInv => FillsAccounted
   <2> SUFFICES ASSUME FlowInv PROVE FillsAccounted
     OBVIOUS
   <2>1. ASSUME NEW b \in BrokerIds, brokerToOms[b] # None,
                byOmsId[brokerToOms[b]].filled > 0
         PROVE  LET o == byOmsId[brokerToOms[b]]
                    traded == {e \in ToSet(broker[b].events) : e.kind \in FillKinds}
                IN  /\ \E e \in traded : e.price * o.filled <= o.notional
                    /\ \E e \in traded : e.price * o.filled >= o.notional
     BY <2>1 DEF FlowInv, CostInv, CostOf, CostWithin, Traded
   <2>2. AverageWithinTraded BY <2>1 DEF AverageWithinTraded
   <2>3. \A b \in BrokerIds :
            brokerToOms[b] # None => byOmsId[brokerToOms[b]].filled = ledger[b].applied
     BY DEF FlowInv, Inv, AppliedInv
   <2>4. \A b \in BrokerIds : Balanced(b) BY DEF FlowInv, SharesInv, SharesOf
   <2> QED BY <2>2, <2>3, <2>4 DEF FillsAccounted, Balanced
  <1> QED BY <1>1, InitFlow, FlowNext, PTL DEF Spec

----------------------------------------
(* Refused fills.  A broker that does not reject cancels ends an order with its
   last event: a final fill, a cancel, an expiry or a late reject. *)

Closed(b) == broker[b].status \notin {"none", "working"}

EndsOrder(b, i) ==
    /\ i = Len(broker[b].events) /\ Closed(b)
    /\ \/ broker[b].events[i].kind \in {"cancel", "expire", "reject"}
       \/ /\ broker[b].events[i].kind = "fill"
          /\ broker[b].executed = Quantity[broker[b].oms]

OrderlyBook(b) ==
    \A i \in DOMAIN broker[b].events :
        broker[b].events[i].kind \in {"ack", "partial_fill"} \/ EndsOrder(b, i)

Gapless(b) == ledger[b].lost = 0 /\ ledger[b].replays = 0

(* Without a lost or replayed event nothing was refused so far, and an order in a
   terminal status has no further event to come. *)
Exhausted(b) == broker[b].next > Len(broker[b].events) /\ Closed(b)

GapOf(b) ==
    /\ ledger[b].replays = 0 => ledger[b].replayed = 0
    /\ Gapless(b) => ledger[b].refused = 0
    /\ (Gapless(b) /\ brokerToOms[b] # None) =>
          LET status == byOmsId[brokerToOms[b]].status
          IN  /\ status # "new"
              /\ IsTerminal(status) => status = "filled" \/ Exhausted(b)

(* When brokers reject no cancel, what is no acknowledgement and no partial fill ends its
   order. *)
LEMMA OrderlyStep ==
    ASSUME Inv, ~CancelRejects, NEW b \in BrokerIds, SharesOf(b), OrderlyBook(b),
           StepOf(b)
    PROVE  OrderlyBook(b)'
  <1>1. broker[b].events \in Seq(Event) BY Fields DEF Inv, FieldsTyped, FieldTypes
  <1>2. CASE SameTerms(b) BY <1>2 DEF OrderlyBook, EndsOrder, Closed, SameTerms
  <1>3. ASSUME NEW e \in Event, Tells(b, e)
        PROVE  OrderlyBook(b)'
   <2> DEFINE s == broker[b].events
   <2>0. PICK z \in Nat : z = Len(s) + 1
     BY <1>1
   <2>1. ~Closed(b) BY <1>3 DEF Tells, Opens, Trades, Ends, KeepsWorking, Closed
   <2>2. \A i \in DOMAIN s : s[i].kind \in {"ack", "partial_fill"}
     BY <2>1 DEF OrderlyBook, EndsOrder
   <2>3. broker'[b].events = Append(s, e) BY <1>3 DEF Tells
   <2>4. /\ DOMAIN broker'[b].events = (DOMAIN s) \cup {z}
         /\ Len(broker'[b].events) = z /\ broker'[b].events[z] = e
         /\ \A i \in DOMAIN s : broker'[b].events[i] = s[i]
     BY <1>1, <2>0, <2>3
   <2>5. e.kind \in {"ack", "partial_fill"} \/ EndsOrder(b, z)'
    <3>1. CASE Opens(b, e) BY <3>1 DEF Opens
    <3>2. CASE Trades(b, e)
     <4>1. CASE e.kind = "partial_fill" BY <4>1
     <4>2. CASE e.kind = "fill"
      <5>1. broker[b].oms \in Orders BY <3>2 DEF Trades, Inv, BooksInv
      <5>2. broker[b].executed \in Nat /\ Quantity[broker[b].oms] \in Nat
        BY <5>1, Fields, LiveLoopAssumption DEF Inv, FieldsTyped, FieldTypes
      <5>3. /\ e.qty = Quantity[broker[b].oms] - broker[b].executed
            /\ broker'[b].oms = broker[b].oms /\ broker'[b].status = "filled"
            /\ broker'[b].executed = broker[b].executed + e.qty
        BY <1>3, <3>2, <4>2 DEF Trades, Tells, EventQty, FillKinds, Left
      <5>4. broker'[b].executed = Quantity[broker'[b].oms] BY <5>2, <5>3
      <5> QED BY <2>4, <4>2, <5>3, <5>4 DEF EndsOrder, Closed
     <4> QED BY <3>2, <4>1, <4>2 DEF Trades, FillKinds
    <3>3. CASE Ends(b, e) BY <2>4, <3>3 DEF Ends, EndsOrder, Closed
    <3> QED BY <1>3, <3>1, <3>2, <3>3 DEF Tells, KeepsWorking
   <2> HIDE DEF s
   <2>6. ASSUME NEW i \in DOMAIN broker'[b].events
         PROVE  broker'[b].events[i].kind \in {"ack", "partial_fill"} \/ EndsOrder(b, i)'
    <3>1. CASE i \in DOMAIN s BY <2>2, <2>4, <3>1
    <3>2. CASE i = z BY <2>4, <2>5, <3>2
    <3> QED BY <2>4, <2>6, <3>1, <3>2
   <2> QED BY <2>6 DEF OrderlyBook
  <1> QED
    BY <1>2, <1>3 DEF StepOf, Idle, Maps, AsksCancel, SameBook, Loses, Applies, Refuses,
                      Takes, Rewinds

(* An event the order refuses, with none lost or replayed before, is no fill. *)
LEMMA RefusedIsNoFill ==
    ASSUME Inv, NEW b \in BrokerIds, SharesOf(b), OrderlyBook(b), GapOf(b),
           Gapless(b), brokerToOms[b] # None, HasEvent(b),
           ~Accepts(byOmsId[brokerToOms[b]], NextEvent(b))
    PROVE  EventQty(NextEvent(b)) = 0
  <1> DEFINE o == brokerToOms[b]
             r == byOmsId[o]
             e == NextEvent(b)
             q == EventQty(e)
             n == broker[b].next
             s == broker[b].events
  <1> SUFFICES ASSUME q # 0 PROVE FALSE
    OBVIOUS
  <1>1. /\ o \in Orders /\ r \in OrderRecord /\ Consistent(r)
        /\ r.quantity = Quantity[o] /\ accepted[o] = b
    BY DEF Inv, TypeOK, MappingInv, RegistryInv
  <1>2. broker[b].oms = o /\ broker[b].status # "none" BY <1>1, LiveLoopAssumption DEF Inv, BooksInv
  <1>3. /\ s \in Seq(Event) /\ n \in Nat \ {0} /\ Len(s) \in Nat
        /\ n \in 1..Len(s) /\ broker[b].executed \in Nat /\ PendingQty(b) \in Nat
    BY Fields DEF Inv, FieldsTyped, FieldTypes, HasEvent
  <1>4. e \in Event /\ q \in Nat /\ e = s[n] BY NextEventType DEF NextEvent
  <1>5. e.kind \in FillKinds /\ e.qty = q BY <1>4 DEF EventQty
  <1>6. /\ r.filled \in Nat /\ Quantity[o] \in Nat /\ r.status \in OrderStatus
    BY <1>1, LiveLoopAssumption DEF OrderRecord
  <1>7. /\ PendingQty(b) = q + Queued(s, n + 1)
        /\ Queued(s, n + 1) \in Nat
   <2>1. PendingQty(b) = Queued(s, n) BY PendingIsQueued DEF PendingMatches
   <2>2. Queued(s, n) = EventQty(s[n]) + Queued(s, n + 1) BY <1>3, QueuedTake
   <2>3. Queued(s, n + 1) \in Nat BY <1>3, QueuedNat
   <2> QED BY <1>4, <2>1, <2>2, <2>3
  <1>8. r.filled + PendingQty(b) = broker[b].executed
   <2>1. /\ ledger[b].lost = 0 /\ ledger[b].refused = 0 /\ ledger[b].replayed = 0
         /\ ledger[b].applied = r.filled
     BY DEF GapOf, Gapless, Inv, AppliedInv
   <2>2. Balanced(b) BY DEF SharesOf
   <2>3. r.filled + 0 + 0 + PendingQty(b) = broker[b].executed + 0 BY <2>1, <2>2 DEF Balanced
   <2> QED BY <1>3, <1>6, <2>3
  <1>9. broker[b].executed <= Quantity[o] BY <1>2 DEF SharesOf, InBounds
  <1>10. r.filled + q <= Quantity[o] /\ r.filled < Quantity[o]
   <2> HIDE DEF q, r, n, s
   <2> QED BY <1>3, <1>4, <1>6, <1>7, <1>8, <1>9, SMTT(30)
  <1>11. e.kind = "fill" => r.filled + q = Quantity[o]
   <2> SUFFICES ASSUME e.kind = "fill" PROVE r.filled + q = Quantity[o]
     OBVIOUS
   <2>1. n \in DOMAIN s BY <1>3
   <2>2. EndsOrder(b, n) BY <1>4, <2>1 DEF OrderlyBook
   <2>3. n = Len(s) /\ broker[b].executed = Quantity[o] BY <1>2, <1>4, <2>2 DEF EndsOrder
   <2>4. Queued(s, n + 1) = 0
    <3>1. n + 1 \in Nat /\ n + 1 > Len(s) BY <1>3, <2>3
    <3> QED BY <1>3, <3>1, QueuedNone
   <2> HIDE DEF q, r, n, s
   <2> QED BY <1>3, <1>4, <1>6, <1>7, <1>8, <2>3, <2>4
  <1>12. r.status \in {"submitted", "acknowledged", "partially_filled", "cancel_requested"}
   <2>1. r.status # "new" /\ (IsTerminal(r.status) => r.status = "filled" \/ Exhausted(b))
     BY DEF GapOf
   <2>2. ~Exhausted(b) BY <1>3 DEF Exhausted, HasEvent
   <2>3. r.status # "filled" BY <1>1, <1>6, <1>10 DEF Consistent
   <2> QED BY <1>6, <2>1, <2>2, <2>3 DEF OrderStatus, IsTerminal, Terminal
  <1>13. NewFilled(r, e) = r.filled + q BY <1>5 DEF NewFilled
  <1>14. TargetStatus(r, e) \in {"partially_filled", "filled"} BY <1>5 DEF TargetStatus, FillKinds
  <1>15. CanTransition(r.status, TargetStatus(r, e))
   <2> DEFINE t == TargetStatus(r, e)
   <2> HIDE DEF t
   <2>1. t \in {"partially_filled", "filled"} BY <1>14 DEF t
   <2>2. t \in ValidTransitions[r.status] BY <1>6, <1>12, <2>1 DEF ValidTransitions
   <2> QED BY <2>2 DEF CanTransition, t
  <1>16. Accepts(r, e)
   <2>1. GuardFill(r, e) BY <1>1, <1>10, <1>13 DEF GuardFill
   <2>2. e.kind = "fill" => NewFilled(r, e) = r.quantity BY <1>1, <1>11, <1>13
   <2> QED BY <1>15, <2>1, <2>2 DEF Accepts
  <1> QED BY <1>16

(* No step of a broker id breaks what holds without gaps. *)
LEMMA GapStep ==
    ASSUME Inv, NEW b \in BrokerIds, SharesOf(b), OrderlyBook(b), GapOf(b), StepOf(b)
    PROVE  GapOf(b)'
  <1>1. /\ broker[b].events \in Seq(Event) /\ broker[b].next \in Nat \ {0}
        /\ Len(broker[b].events) \in Nat
        /\ ledger[b] \in Ledger /\ ledger[b].lost \in Nat /\ ledger[b].replays \in Nat
        /\ ledger[b].refused \in Nat /\ ledger[b].replayed \in Nat
    BY Fields DEF Inv, FieldsTyped, FieldTypes
  <1>2. ASSUME SameLedger(b), SameOrder(b),
               Exhausted(b) => Exhausted(b)'
        PROVE  GapOf(b)'
    BY <1>2 DEF GapOf, Gapless, SameLedger, SameOrder, SameMapping
  <1>3. CASE Idle(b) BY <1>2, <1>3 DEF Idle, SameBook, SameTerms, Exhausted, Closed
  <1>4. ASSUME NEW o \in Orders, Maps(b, o)
        PROVE  GapOf(b)'
   <2>1. byOmsId'[o] = ApplyEvent(Minted(o), PlainEvent("submit")) /\ brokerToOms'[b] = o
     BY <1>4 DEF Maps
   <2>2. ApplyEvent(Minted(o), PlainEvent("submit")).status = "submitted"
    <3>1. Minted(o) \in OrderRecord
     <4>1. Quantity[o] \in Nat BY LiveLoopAssumption
     <4> QED BY <4>1 DEF Minted, NewOrder, OrderRecord, OrderStatus
    <3>2. PlainEvent("submit") \in Event /\ PlainEvent("submit").kind = "submit"
      BY PlainEventType DEF PlainKinds
    <3> QED BY <3>1, <3>2, ApplyEventType DEF TargetStatus
   <2> QED BY <1>4, <2>1, <2>2 DEF GapOf, Gapless, Maps, SameLedger, IsTerminal, Terminal
  <1>5. ASSUME NEW e \in Event, Tells(b, e)
        PROVE  GapOf(b)'
   <2>1. ~Exhausted(b) BY <1>5 DEF Tells, Opens, Trades, Ends, KeepsWorking, Exhausted, Closed
   <2> QED BY <1>2, <1>5, <2>1 DEF Tells
  <1>6. ASSUME NEW e \in Event, Moves(b, e)
        PROVE  /\ brokerToOms'[b] = brokerToOms[b]
               /\ byOmsId'[brokerToOms[b]].status
                    = TargetStatus(byOmsId[brokerToOms[b]], e)
   <2>1. byOmsId[brokerToOms[b]] \in OrderRecord BY <1>6 DEF Inv, TypeOK, MappingInv, Moves
   <2> QED BY <1>6, <2>1, ApplyEventType DEF Moves, SameMapping
  <1>7. CASE AsksCancel(b)
   <2>1. PlainEvent("cancel_request") \in Event
            /\ PlainEvent("cancel_request").kind = "cancel_request"
     BY PlainEventType DEF PlainKinds
   <2>2. byOmsId'[brokerToOms'[b]].status = "cancel_requested"
     BY <1>6, <1>7, <2>1 DEF AsksCancel, TargetStatus
   <2> QED BY <1>7, <2>2 DEF GapOf, Gapless, AsksCancel, SameLedger, IsTerminal, Terminal
  <1>8. ASSUME Takes(b)
        PROVE  /\ NextEvent(b) \in Event /\ EventQty(NextEvent(b)) \in Nat
               /\ Exhausted(b)' <=> broker[b].next = Len(broker[b].events) /\ Closed(b)
               /\ ~Exhausted(b)
               /\ broker[b].next \in DOMAIN broker[b].events
   <2>1. NextEvent(b) \in Event BY <1>8, NextEventType DEF Takes
   <2> QED BY <1>1, <1>8, <2>1, EventQtyNat, SMTT(30) DEF Takes, SameTerms, HasEvent, Exhausted, Closed
  <1>9. CASE Loses(b)
   <2> DEFINE q == EventQty(NextEvent(b))
   <2>1. q \in Nat BY <1>8, <1>9 DEF Loses
   <2> HIDE DEF q
   <2>2. ledger'[b] = WithLost(ledger[b], q) BY <1>9 DEF Loses, q
   <2>3. /\ ledger'[b].lost = ledger[b].lost + q
         /\ ledger'[b].refused = ledger[b].refused
         /\ ledger'[b].replays = ledger[b].replays
         /\ ledger'[b].replayed = ledger[b].replayed
     BY <1>1, <2>2 DEF WithLost, Ledger
   <2>4. Gapless(b)' => Gapless(b) BY <1>1, <2>1, <2>3 DEF Gapless
   <2> QED BY <1>9, <2>3, <2>4 DEF GapOf, Loses, SameOrder, SameMapping
  <1>10. CASE Applies(b)
   <2> DEFINE e == NextEvent(b)
              o == brokerToOms[b]
   <2>0. e \in Event /\ EventQty(e) \in Nat /\ broker[b].next \in DOMAIN broker[b].events
     BY <1>8, <1>10 DEF Applies
   <2>1. ledger'[b] = [ledger[b] EXCEPT !.applied = @ + EventQty(e)] BY <1>10 DEF Applies
   <2>2. /\ ledger'[b].lost = ledger[b].lost
         /\ ledger'[b].refused = ledger[b].refused
         /\ ledger'[b].replays = ledger[b].replays
         /\ ledger'[b].replayed = ledger[b].replayed
     BY <1>1, <2>1 DEF Ledger
   <2>3. byOmsId'[brokerToOms'[b]].status = TargetStatus(byOmsId[o], e)
     BY <1>6, <1>10, <2>0 DEF Applies
   <2>4. e = broker[b].events[broker[b].next] BY DEF NextEvent
   <2>5. e.kind \in {"ack", "partial_fill"} \/ EndsOrder(b, broker[b].next)
     BY <2>0, <2>4 DEF OrderlyBook
   <2>6. \/ e.kind \in {"ack", "partial_fill", "fill"}
         \/ e.kind \in {"cancel", "expire", "reject"} /\ Exhausted(b)'
     BY <1>8, <1>10, <2>4, <2>5 DEF EndsOrder, Applies
   <2> DEFINE t == TargetStatus(byOmsId[o], e)
   <2>7. t # "new" /\ (IsTerminal(t) => t = "filled" \/ Exhausted(b)')
     BY <2>6 DEF TargetStatus, IsTerminal, Terminal
   <2> HIDE DEF t, e
   <2>8. (Gapless(b) <=> Gapless(b)') BY <2>2 DEF Gapless
   <2> QED BY <2>2, <2>3, <2>7, <2>8 DEF GapOf, t, e
  <1>11. CASE Refuses(b)
   <2> DEFINE q == EventQty(NextEvent(b))
   <2>1. q \in Nat /\ ~Exhausted(b) BY <1>8, <1>11 DEF Refuses
   <2>2. Gapless(b) => q = 0 BY <1>11, RefusedIsNoFill DEF Refuses, Takes
   <2> HIDE DEF q
   <2>3. ledger'[b] = [ledger[b] EXCEPT !.refused = @ + q] BY <1>11 DEF Refuses, q
   <2>4. /\ ledger'[b].lost = ledger[b].lost
         /\ ledger'[b].refused = ledger[b].refused + q
         /\ ledger'[b].replays = ledger[b].replays
         /\ ledger'[b].replayed = ledger[b].replayed
     BY <1>1, <2>3 DEF Ledger
   <2>5. (Gapless(b) <=> Gapless(b)') BY <2>4 DEF Gapless
   <2> QED BY <1>1, <1>11, <2>1, <2>2, <2>4, <2>5 DEF GapOf, Refuses, SameOrder, SameMapping
  <1>12. CASE Rewinds(b)
   <2> DEFINE q == EventQty(broker[b].events[broker[b].next - 1])
   <2>1. q \in Nat BY <1>1, <1>12, EventQtyNat DEF Rewinds
   <2> HIDE DEF q
   <2>2. ledger'[b] = WithReplayed(ledger[b], q) BY <1>12 DEF Rewinds, q
   <2>3. ledger'[b].replays = ledger[b].replays + 1
    <3>1. Returns(WithReplayed(ledger[b], q), ledger[b], q) BY <1>1, <2>1, LedgerEntries
    <3> QED BY <2>2, <3>1 DEF Returns
   <2>4. ledger'[b].replays # 0 BY <1>1, <2>3
   <2> QED BY <2>4 DEF GapOf, Gapless
  <1> QED BY <1>3, <1>4, <1>5, <1>7, <1>9, <1>10, <1>11, <1>12 DEF StepOf

GapInv == \A b \in BrokerIds : OrderlyBook(b) /\ GapOf(b)

(* states.py 57-103: when the broker does not reject cancels, a fill the state
   machine refuses follows a lost or a replayed event. *)
THEOREM RefusalsFollowGaps ==
    ASSUME ~CancelRejects
    PROVE  Spec => []RefusedOnlyAfterGap
  <1>1. Init => FlowInv /\ GapInv
   <2> SUFFICES ASSUME Init, NEW b \in BrokerIds PROVE OrderlyBook(b) /\ GapOf(b)
     BY InitFlow DEF GapInv
   <2>1. /\ broker[b] = EmptyBook /\ ledger[b] = EmptyLedger /\ brokerToOms[b] = None
     BY DEF Init
   <2>2. broker[b].events = <<>> /\ ledger[b].refused = 0 /\ ledger[b].replayed = 0
     BY <2>1 DEF EmptyBook, EmptyLedger
   <2> QED BY <2>1, <2>2 DEF OrderlyBook, GapOf
  <1>2. FlowInv /\ GapInv /\ [Next]_vars => (FlowInv /\ GapInv)'
   <2> SUFFICES ASSUME FlowInv, GapInv, [Next]_vars PROVE GapInv'
     BY FlowNext
   <2>1. Inv /\ \A b \in BrokerIds : StepOf(b) BY EveryStep DEF FlowInv
   <2>2. \A b \in BrokerIds : SharesOf(b) BY DEF FlowInv, SharesInv
   <2> QED BY <2>1, <2>2, OrderlyStep, GapStep DEF GapInv
  <1>3. FlowInv /\ GapInv => RefusedOnlyAfterGap
   <2> SUFFICES ASSUME FlowInv, GapInv, NEW b \in BrokerIds, ledger[b].refused > 0
                PROVE  ledger[b].lost > 0 \/ ledger[b].replays > 0
     BY DEF RefusedOnlyAfterGap
   <2>1. ledger[b].lost \in Nat /\ ledger[b].replays \in Nat /\ ledger[b].refused \in Nat
     BY Fields DEF FlowInv, Inv, FieldsTyped, FieldTypes
   <2>2. ~Gapless(b) BY <2>1 DEF GapInv, GapOf
   <2> QED BY <2>1, <2>2 DEF Gapless
  <1> QED BY <1>1, <1>2, <1>3, PTL DEF Spec
=============================================================================
