-------------------------- MODULE BackgroundProofs --------------------------
(***************************************************************************)
(* Proofs about what runs in the background, for any number of threads,    *)
(* tasks, connections and jobs: the threaded kill-switch implements the    *)
(* atomic one and tells its observers of every transition; rooms and       *)
(* channels stay in step with the connections; a paper session accounts    *)
(* for every signal; delivery rows and results of backtests tell the       *)
(* truth.  Each component has an invariant that its own steps keep; the    *)
(* theorems at the end are about the behaviours of module MCBackground,    *)
(* in which one component is at work and the others rest.                  *)
(***************************************************************************)
EXTENDS MCBackground, SumLemmas, SequenceTheorems

----------------------------------------
(* The kill-switch. *)

Inside == {"engaging", "disengaging", "engaged", "disengaged"}

(* The part of the type invariant the proofs need. *)
Shape ==
    /\ state \in States
    /\ engagements \in Nat /\ serial \in Nat
    /\ lock \in Threads \cup {None}
    /\ pc \in [Threads -> PCs]
    /\ arg \in [Threads -> Reasons \cup {None}]
    /\ snap \in [Threads -> SnapshotType]
    /\ seen \in [Observers -> Seq(SnapshotType)]
    /\ engaged_at \in Nat \cup {None} /\ reason \in Reasons \cup {None}
    /\ observers \in Seq(Observers)
    /\ todo \in [Threads -> Seq(Observers)]

(* A thread is between the writes of a transition exactly while it holds the lock. *)
LockInv == \A t \in Threads : pc[t] \in Inside <=> lock = t

(* The fields agree whenever the lock is free or the holder wrote them all. *)
FieldsInv ==
    /\ lock = None => Whole(CurrentSnapshot)
    /\ \A t \in Threads :
        /\ pc[t] = "engaging" => state = "engaged" /\ arg[t] # None
        /\ pc[t] = "disengaging" => state = "disengaged"
        /\ pc[t] \in {"engaged", "disengaged"} => Whole(CurrentSnapshot)

Inv == Shape /\ LockInv /\ FieldsInv /\ SnapshotsAreWhole

(* What the fields hold is a snapshot. *)
LEMMA CurrentSnapshotType == Shape => CurrentSnapshot \in SnapshotType
  BY DEF Shape, CurrentSnapshot, SnapshotType

(* The inductive invariant holds at the start. *)
LEMMA InitInv == Init => Inv
  <1> SUFFICES ASSUME Init PROVE Inv
    OBVIOUS
  <1>1. NoSnapshot \in SnapshotType /\ Whole(NoSnapshot)
    BY DEF NoSnapshot, SnapshotType, States, Whole
  <1>2. <<>> \in Seq(SnapshotType) /\ <<>> \in Seq(Observers) /\ DOMAIN <<>> = {} OBVIOUS
  <1>3. observers \in Seq(Observers) BY KillSwitchAssumption DEF Init
  <1>4. Shape BY <1>1, <1>2, <1>3 DEF Init, Shape, States, PCs
  <1>5. LockInv /\ FieldsInv
    BY KillSwitchAssumption DEF Init, LockInv, FieldsInv, Inside, Whole, CurrentSnapshot
  <1>6. SnapshotsAreWhole BY <1>1, <1>2 DEF Init, SnapshotsAreWhole
  <1> QED BY <1>4, <1>5, <1>6 DEF Inv

----------------------------------------
(* Each step preserves the invariant. *)

(* The writes made under the lock keep the invariant. *)
LEMMA LockedWrites ==
    ASSUME Inv, NEW t \in Threads,
           \/ \E r \in Reasons : EngageState(t, r)
           \/ DisengageState(t) \/ EngageFields(t) \/ DisengageFields(t)
    PROVE  Inv'
  <1>1. UNCHANGED <<observers, snap, todo, seen>>
    BY DEF EngageState, DisengageState, EngageFields, DisengageFields
  <1>2. SnapshotsAreWhole' BY <1>1 DEF Inv, SnapshotsAreWhole
  <1>3. ASSUME NEW r \in Reasons, EngageState(t, r) PROVE Inv'
   <2>1. Shape' BY <1>1, <1>3 DEF Inv, Shape, EngageState, Goto, States, PCs
   <2>2. LockInv' BY <1>3, KillSwitchAssumption DEF Inv, Shape, LockInv, EngageState, Goto, Inside
   <2>3. FieldsInv'
     BY <1>3, KillSwitchAssumption
        DEF Inv, Shape, LockInv, FieldsInv, EngageState, Goto, Inside
   <2> QED BY <1>2, <2>1, <2>2, <2>3 DEF Inv
  <1>4. CASE DisengageState(t)
   <2>1. Shape' BY <1>1, <1>4 DEF Inv, Shape, DisengageState, Goto, States, PCs
   <2>2. LockInv'
     BY <1>4, KillSwitchAssumption DEF Inv, Shape, LockInv, DisengageState, Goto, Inside
   <2>3. FieldsInv'
     BY <1>4, KillSwitchAssumption
        DEF Inv, Shape, LockInv, FieldsInv, DisengageState, Goto, Inside
   <2> QED BY <1>2, <2>1, <2>2, <2>3 DEF Inv
  <1>5. CASE EngageFields(t) \/ DisengageFields(t)
   <2>1. /\ pc[t] \in {"engaging", "disengaging"}
         /\ pc' = [pc EXCEPT ![t] = IF pc[t] = "engaging" THEN "engaged" ELSE "disengaged"]
         /\ engaged_at' = IF pc[t] = "engaging" THEN serial ELSE None
         /\ reason' = IF pc[t] = "engaging" THEN arg[t] ELSE None
         /\ UNCHANGED <<state, lock, arg, engagements, serial>>
     BY <1>5 DEF EngageFields, DisengageFields, Goto, history
   <2>2. Shape' BY <1>1, <2>1 DEF Inv, Shape, PCs
   <2>3. LockInv' BY <2>1 DEF Inv, Shape, LockInv, Inside
   <2>4. Whole(CurrentSnapshot)'
     BY <2>1, KillSwitchAssumption DEF Inv, Shape, FieldsInv, Whole, CurrentSnapshot
   <2>5. \A u \in Threads : u # t => pc[u] \notin Inside
     BY <2>1, KillSwitchAssumption DEF Inv, LockInv, Inside
   <2>6. FieldsInv' BY <2>1, <2>4, <2>5 DEF Inv, Shape, FieldsInv, Inside
   <2> QED BY <1>2, <2>2, <2>3, <2>6 DEF Inv
  <1> QED BY <1>3, <1>4, <1>5

(* A snapshot and the release of the lock keep the invariant. *)
LEMMA SnapshotTaken ==
    ASSUME Inv, NEW t \in Threads, Release(t) \/ Snapshot(t)
    PROVE  Inv'
  <1>1. /\ snap' = [snap EXCEPT ![t] = CurrentSnapshot]
        /\ UNCHANGED <<state, engaged_at, reason, observers, arg, todo,
                       engagements, serial, seen>>
        /\ lock' = None
        /\ pc' = [pc EXCEPT ![t] = IF pc[t] = "idle" THEN "reading" ELSE "notify"]
        /\ \/ pc[t] \in {"engaged", "disengaged"}
           \/ pc[t] = "idle" /\ lock = None
    BY DEF Release, Snapshot, Goto, fields, history
  <1>2. CurrentSnapshot \in SnapshotType BY CurrentSnapshotType DEF Inv
  <1>3. Whole(CurrentSnapshot) BY <1>1 DEF Inv, FieldsInv
  <1>4. Shape' BY <1>1, <1>2 DEF Inv, Shape, PCs
  <1>5. \A u \in Threads : u # t => pc[u] \notin Inside
    BY <1>1, KillSwitchAssumption DEF Inv, LockInv, Inside
  <1>6. LockInv' BY <1>1, <1>5, KillSwitchAssumption DEF Inv, Shape, LockInv, Inside
  <1>7. Whole(CurrentSnapshot)' BY <1>1, <1>3 DEF Whole, CurrentSnapshot
  <1>8. FieldsInv' BY <1>1, <1>5, <1>7 DEF Inv, Shape, FieldsInv, Inside
  <1>9. SnapshotsAreWhole' BY <1>1, <1>3 DEF Inv, Shape, SnapshotsAreWhole
  <1> QED BY <1>4, <1>6, <1>8, <1>9 DEF Inv

(* Changing and copying the observers keeps the invariant. *)
LEMMA NotifyAndLists ==
    ASSUME Inv, NEW t \in Threads,
           \/ CopyObservers(t) \/ NotifyDone(t) \/ SnapshotDone(t)
           \/ \E obs \in Observers : AddObserver(t, obs) \/ RemoveObserver(t, obs)
    PROVE  Inv'
  <1>1. UNCHANGED <<state, engaged_at, reason, lock, engagements, serial, seen>>
    BY DEF CopyObservers, NotifyDone, SnapshotDone, AddObserver, RemoveObserver,
           fields, history
  <1>2. /\ pc' \in [Threads -> PCs]
        /\ \A u \in Threads : pc[u] \in Inside <=> pc'[u] \in Inside
        /\ \A u \in Threads : pc[u] \in Inside => pc'[u] = pc[u] /\ arg'[u] = arg[u]
    BY DEF CopyObservers, NotifyDone, SnapshotDone, AddObserver, RemoveObserver,
           Goto, Inside, Inv, Shape, PCs
  <1>3. /\ arg' \in [Threads -> Reasons \cup {None}]
        /\ snap' \in [Threads -> SnapshotType]
        /\ \A u \in Threads : Whole(snap'[u])
   <2>1. NoSnapshot \in SnapshotType /\ Whole(NoSnapshot)
     BY DEF NoSnapshot, SnapshotType, States, Whole
   <2>2. /\ arg' = arg \/ arg' = [arg EXCEPT ![t] = None]
         /\ snap' = snap \/ snap' = [snap EXCEPT ![t] = NoSnapshot]
     BY DEF CopyObservers, NotifyDone, SnapshotDone, AddObserver, RemoveObserver
   <2> QED BY <2>1, <2>2 DEF Inv, Shape, SnapshotsAreWhole
  <1>4. observers' \in Seq(Observers) /\ todo' \in [Threads -> Seq(Observers)]
   <2>1. ASSUME NEW obs \in Observers, NEW i \in DOMAIN observers
         PROVE  /\ Append(observers, obs) \in Seq(Observers)
                /\ RemoveAt(observers, i) \in Seq(Observers)
    <3>1. observers \in Seq(Observers) /\ i \in 1..Len(observers) BY DEF Inv, Shape
    <3>2. /\ SubSeq(observers, 1, i - 1) \in Seq(Observers)
          /\ SubSeq(observers, i + 1, Len(observers)) \in Seq(Observers)
      BY <3>1
    <3> QED BY <3>1, <3>2 DEF RemoveAt
   <2>2. ASSUME NEW obs \in Observers
         PROVE  Append(observers, obs) \in Seq(Observers)
     BY DEF Inv, Shape
   <2> QED
     BY <2>1, <2>2 DEF CopyObservers, NotifyDone, SnapshotDone, AddObserver,
        RemoveObserver, Inv, Shape
  <1>5. Shape' BY <1>1, <1>2, <1>3, <1>4 DEF Inv, Shape
  <1>6. LockInv' BY <1>1, <1>2 DEF Inv, LockInv
  <1>7. Whole(CurrentSnapshot) <=> Whole(CurrentSnapshot)' BY <1>1 DEF Whole, CurrentSnapshot
  <1>8. FieldsInv' BY <1>1, <1>2, <1>7 DEF Inv, FieldsInv, Inside
  <1>9. SnapshotsAreWhole' BY <1>1, <1>3 DEF Inv, SnapshotsAreWhole
  <1> QED BY <1>5, <1>6, <1>8, <1>9 DEF Inv

(* Calling an observer keeps the invariant. *)
LEMMA ObserverCalled ==
    ASSUME Inv, NEW t \in Threads, CallObserver(t)
    PROVE  Inv'
  <1> DEFINE obs == Head(todo[t])
  <1>1. /\ todo[t] # <<>>
        /\ seen' = [seen EXCEPT ![obs] = Append(seen[obs], snap[t])]
        /\ todo' = [todo EXCEPT ![t] = Tail(todo[t])]
        /\ UNCHANGED <<state, engaged_at, reason, observers, lock, pc, arg, snap,
                       engagements, serial>>
    BY DEF CallObserver, fields, history
  <1>2. todo[t] \in Seq(Observers) /\ snap[t] \in SnapshotType BY DEF Inv, Shape
  <1>3. obs \in Observers /\ Tail(todo[t]) \in Seq(Observers) BY <1>1, <1>2
  <1>4. seen[obs] \in Seq(SnapshotType) BY <1>3 DEF Inv, Shape
  <1> HIDE DEF obs
  <1>5. Append(seen[obs], snap[t]) \in Seq(SnapshotType) BY <1>2, <1>4
  <1>6. Shape' BY <1>1, <1>3, <1>5 DEF Inv, Shape
  <1>7. LockInv' /\ FieldsInv' BY <1>1 DEF Inv, LockInv, FieldsInv, Whole, CurrentSnapshot
  <1>8. \A i \in DOMAIN Append(seen[obs], snap[t]) : Whole(Append(seen[obs], snap[t])[i])
   <2> SUFFICES ASSUME NEW i \in DOMAIN Append(seen[obs], snap[t])
                PROVE  Whole(Append(seen[obs], snap[t])[i])
     OBVIOUS
   <2>1. i \in 1..Len(seen[obs]) + 1 BY <1>4
   <2>2. CASE i = Len(seen[obs]) + 1
    <3>1. Append(seen[obs], snap[t])[i] = snap[t] BY <1>4, <2>2
    <3> QED BY <3>1 DEF Inv, SnapshotsAreWhole
   <2>3. CASE i \in 1..Len(seen[obs])
    <3>1. Append(seen[obs], snap[t])[i] = seen[obs][i] BY <1>4, <2>3
    <3>2. i \in DOMAIN seen[obs] BY <1>4, <2>3
    <3> QED BY <1>3, <3>1, <3>2 DEF Inv, SnapshotsAreWhole
   <2> QED BY <1>4, <2>1, <2>2, <2>3
  <1>9. SnapshotsAreWhole' BY <1>1, <1>3, <1>8 DEF Inv, Shape, SnapshotsAreWhole
  <1> QED BY <1>6, <1>7, <1>9 DEF Inv

(* Every step keeps the inductive invariant. *)
LEMMA InvNext == Inv /\ [Next]_vars => Inv'
  <1> SUFFICES ASSUME Inv, [Next]_vars PROVE Inv'
    OBVIOUS
  <1>1. CASE UNCHANGED vars
    BY <1>1 DEF vars, Inv, Shape, LockInv, FieldsInv, SnapshotsAreWhole, Whole,
           CurrentSnapshot
  <1>2. ASSUME NEW t \in Threads,
               \/ EngageNoop(t) \/ DisengageNoop(t)
        PROVE  Inv'
    BY <1>1, <1>2 DEF EngageNoop, DisengageNoop
  <1> QED
    BY <1>1, <1>2, LockedWrites, SnapshotTaken, NotifyAndLists, ObserverCalled
       DEF Next, Started

----------------------------------------
(* The theorems. *)

(* The inductive invariant of the kill switch holds throughout: what its other theorems
   rest on. *)
THEOREM Invariance == Spec => []Inv
  BY InitInv, InvNext, PTL DEF Spec

(* Every field, thread and history keeps its shape, for any threads. *)
THEOREM TypeCorrect == Spec => []TypeOK
  <1>1. Inv => TypeOK BY DEF Inv, Shape, TypeOK
  <1> QED BY <1>1, Invariance, PTL

(* kill_switch.py 106-113, 137-147: no reader or observer sees a torn snapshot. *)
THEOREM NoTornSnapshot == Spec => []SnapshotsAreWhole
  <1>1. Inv => SnapshotsAreWhole BY DEF Inv
  <1> QED BY <1>1, Invariance, PTL

(* The threaded kill-switch implements the atomic switch LiveLoop relies on. *)
THEOREM Refinement == Spec => ImplementsSwitch
  <1>1. Init => Abstract!SwitchInit BY DEF Init, Abstract!SwitchInit
  <1>2. Inv /\ [Next]_vars =>
            [Abstract!SwitchEngage \/ Abstract!SwitchDisengage]_Abstract!SwitchVars
   <2> SUFFICES ASSUME Inv, [Next]_vars
                PROVE  \/ Abstract!SwitchEngage \/ Abstract!SwitchDisengage
                       \/ UNCHANGED <<state, engagements>>
     BY DEF Abstract!SwitchVars
   <2>1. ASSUME NEW t \in Threads, NEW r \in Reasons, EngageState(t, r)
         PROVE  Abstract!SwitchEngage
     BY <2>1 DEF EngageState, Abstract!SwitchEngage, Inv, Shape, States
   <2>2. ASSUME NEW t \in Threads, DisengageState(t)
         PROVE  Abstract!SwitchDisengage
     BY <2>2 DEF DisengageState, Abstract!SwitchDisengage, Inv, Shape, States
   <2>3. ASSUME NEW t \in Threads,
                \/ EngageNoop(t) \/ DisengageNoop(t) \/ Started(t) \/ Snapshot(t)
                \/ \E obs \in Observers : AddObserver(t, obs) \/ RemoveObserver(t, obs)
         PROVE  UNCHANGED <<state, engagements>>
     BY <2>3 DEF EngageNoop, DisengageNoop, Started, EngageFields, DisengageFields,
        Release, CopyObservers, CallObserver, NotifyDone, SnapshotDone, Snapshot,
        AddObserver, RemoveObserver, vars, fields, history
   <2>4. CASE UNCHANGED vars BY <2>4 DEF vars
   <2> QED BY <2>1, <2>2, <2>3, <2>4 DEF Next
  <1> QED BY <1>1, <1>2, Invariance, PTL DEF Spec, ImplementsSwitch, Abstract!SwitchSpec

----------------------------------------
(* Notifications: who still owes an observer which transition. *)

Carries(t) == pc[t] \in {"notify", "calling"}

(* A thread that copied the list owes what is left of its copy. *)
Owes(t, obs) == pc[t] = "notify" \/ (pc[t] = "calling" /\ obs \in ToSet(todo[t]))

(* Every kept observer is registered, once; so is every copy of the list. *)
ListsInv ==
    /\ IsInjective(observers) /\ Permanent \subseteq ToSet(observers)
    /\ \A t \in Threads : IsInjective(todo[t])

(* Each transition is carried by one thread, the last one by the lock holder
   until it releases. *)
CarriedInv ==
    /\ \A t \in Threads : Carries(t) => snap[t].serial \in 1..serial
    /\ \A t, u \in Threads :
          (Carries(t) /\ Carries(u) /\ snap[t].serial = snap[u].serial) => t = u
    /\ lock # None => /\ serial # 0
                      /\ \A t \in Threads : Carries(t) => snap[t].serial # serial

(* What obs was called with: transitions, none twice, none that a thread still
   owes it; every other transition is owed or still under the lock. *)
SeenOnce(obs) ==
    \A i, j \in DOMAIN seen[obs] : seen[obs][i].serial = seen[obs][j].serial => i = j

SeenInv(obs) ==
    /\ SeenOnce(obs)
    /\ Serials(obs) \subseteq 1..serial
    /\ lock # None => serial \notin Serials(obs)
    /\ \A t \in Threads : Owes(t, obs) => snap[t].serial \notin Serials(obs)
    /\ \A n \in 1..serial :
          \/ n \in Serials(obs)
          \/ \E t \in Threads : Owes(t, obs) /\ snap[t].serial = n
          \/ lock # None /\ n = serial

NotifyInv == Inv /\ ListsInv /\ CarriedInv /\ \A obs \in Permanent : SeenInv(obs)

(* Nothing was notified at the start. *)
LEMMA InitNotify == Init => NotifyInv
  <1> SUFFICES ASSUME Init PROVE NotifyInv
    OBVIOUS
  <1>1. DOMAIN <<>> = {} /\ \A t \in Threads : todo[t] = <<>> BY DEF Init
  <1>2. ListsInv BY <1>1, KillSwitchAssumption DEF Init, ListsInv, Permanent, IsInjective
  <1>3. CarriedInv BY DEF Init, CarriedInv, Carries
  <1>4. ASSUME NEW obs \in Permanent
        PROVE  SeenInv(obs)
   <2>1. obs \in Observers BY KillSwitchAssumption DEF Permanent, ToSet
   <2>2. seen[obs] = <<>> /\ serial = 0 /\ lock = None BY <2>1 DEF Init
   <2> QED BY <1>1, <2>2 DEF Init, SeenInv, SeenOnce, Serials, Owes
  <1> QED BY <1>2, <1>3, <1>4, InitInv DEF NotifyInv

(* Observers that stay are observers. *)
LEMMA PermanentType == Permanent \subseteq Observers
  BY KillSwitchAssumption DEF Permanent, ToSet

(* Steps that neither move a thread in or out of notifying, nor a transition, nor
   a list. *)
LEMMA NotifyKept ==
    ASSUME NotifyInv,
           UNCHANGED <<observers, todo, serial, seen, lock>>,
           \A t \in Threads :
              /\ Carries(t)' <=> Carries(t)
              /\ Carries(t) => pc'[t] = pc[t] /\ snap'[t] = snap[t]
    PROVE  /\ ListsInv' /\ CarriedInv'
           /\ \A obs \in Permanent : SeenInv(obs)'
  <1>1. ListsInv' BY DEF NotifyInv, ListsInv
  <1>2. CarriedInv' BY DEF NotifyInv, CarriedInv
  <1>3. ASSUME NEW obs \in Permanent
        PROVE  SeenInv(obs)'
   <2>1. \A t \in Threads : /\ Owes(t, obs)' <=> Owes(t, obs)
                            /\ Owes(t, obs) => snap'[t] = snap[t]
     BY DEF Owes, Carries
   <2>2. Serials(obs)' = Serials(obs) /\ (SeenOnce(obs)' <=> SeenOnce(obs)) BY DEF Serials, SeenOnce
   <2> QED BY <2>1, <2>2 DEF NotifyInv, SeenInv
  <1> QED BY <1>1, <1>2, <1>3

(* A transition takes the lock and the next number. *)
LEMMA TransitionNotify ==
    ASSUME NotifyInv, NEW t \in Threads,
           DisengageState(t) \/ \E r \in Reasons : EngageState(t, r)
    PROVE  /\ ListsInv' /\ CarriedInv'
           /\ \A obs \in Permanent : SeenInv(obs)'
  <1>1. /\ pc[t] = "idle" /\ lock = None /\ lock' = t /\ serial' = serial + 1
        /\ \/ pc' = [pc EXCEPT ![t] = "engaging"]
           \/ pc' = [pc EXCEPT ![t] = "disengaging"]
        /\ UNCHANGED <<observers, snap, todo, seen>>
    BY DEF DisengageState, EngageState, Goto
  <1>2. serial \in Nat /\ pc \in [Threads -> PCs] BY DEF NotifyInv, Inv, Shape
  <1>3. \A u \in Threads : Carries(u)' <=> Carries(u) BY <1>1, <1>2 DEF Carries
  <1>4. \A u \in Threads, obs \in Observers : Owes(u, obs)' <=> Owes(u, obs) BY <1>1, <1>2 DEF Owes
  <1>5. ListsInv' BY <1>1 DEF NotifyInv, ListsInv
  <1>6. CarriedInv' BY <1>1, <1>2, <1>3 DEF NotifyInv, CarriedInv
  <1>7. ASSUME NEW obs \in Permanent
        PROVE  SeenInv(obs)'
   <2>1. obs \in Observers BY PermanentType
   <2>2. Serials(obs)' = Serials(obs) /\ (SeenOnce(obs)' <=> SeenOnce(obs))
     BY <1>1 DEF Serials, SeenOnce
   <2>3. SeenInv(obs) BY DEF NotifyInv
   <2>4. Serials(obs) \subseteq 1..(serial + 1) /\ serial + 1 \notin Serials(obs)
     BY <1>2, <2>3 DEF SeenInv
   <2>5. lock' # None BY <1>1, KillSwitchAssumption
   <2>6. ASSUME NEW n \in 1..(serial + 1)
         PROVE  \/ n \in Serials(obs)
                \/ \E u \in Threads : Owes(u, obs) /\ snap[u].serial = n
                \/ n = serial + 1
     BY <1>1, <1>2, <2>3 DEF SeenInv
   <2> QED BY <1>1, <1>4, <2>1, <2>2, <2>3, <2>4, <2>5, <2>6 DEF SeenInv
  <1> QED BY <1>5, <1>6, <1>7

(* The lock holder releases and carries the last transition. *)
LEMMA ReleaseNotify ==
    ASSUME NotifyInv, NEW t \in Threads, Release(t)
    PROVE  /\ ListsInv' /\ CarriedInv'
           /\ \A obs \in Permanent : SeenInv(obs)'
  <1>1. /\ pc[t] \in {"engaged", "disengaged"} /\ lock' = None
        /\ pc' = [pc EXCEPT ![t] = "notify"]
        /\ snap' = [snap EXCEPT ![t] = CurrentSnapshot]
        /\ UNCHANGED <<observers, serial, todo, seen>>
    BY DEF Release, history
  <1>2. /\ serial \in Nat /\ pc \in [Threads -> PCs] /\ snap \in [Threads -> SnapshotType]
        /\ lock = t /\ lock # None
    BY <1>1, KillSwitchAssumption DEF NotifyInv, Inv, Shape, LockInv, Inside
  <1>3. /\ snap'[t].serial = serial /\ pc'[t] = "notify"
        /\ \A u \in Threads \ {t} : snap'[u] = snap[u] /\ pc'[u] = pc[u]
    BY <1>1, <1>2 DEF CurrentSnapshot
  <1>4. ListsInv' BY <1>1 DEF NotifyInv, ListsInv
  <1>5. serial # 0 /\ serial \in 1..serial
           /\ \A u \in Threads : Carries(u) => snap[u].serial # serial
    BY <1>2 DEF NotifyInv, CarriedInv
  <1>6. \A u \in Threads \ {t} : Carries(u)' <=> Carries(u) BY <1>3 DEF Carries
  <1>7. CarriedInv'
   <2>1. \A u \in Threads : Carries(u)' => snap'[u].serial \in 1..serial
     BY <1>3, <1>5, <1>6 DEF NotifyInv, CarriedInv
   <2>2. \A u, v \in Threads :
            (Carries(u)' /\ Carries(v)' /\ snap'[u].serial = snap'[v].serial) => u = v
     BY <1>3, <1>5, <1>6 DEF NotifyInv, CarriedInv
   <2> QED BY <1>1, <2>1, <2>2 DEF CarriedInv
  <1>8. ASSUME NEW obs \in Permanent
        PROVE  SeenInv(obs)'
   <2>1. Serials(obs)' = Serials(obs) /\ (SeenOnce(obs)' <=> SeenOnce(obs))
     BY <1>1 DEF Serials, SeenOnce
   <2>2. SeenInv(obs) BY DEF NotifyInv
   <2>3. \A u \in Threads \ {t} : Owes(u, obs)' <=> Owes(u, obs) BY <1>1, <1>3 DEF Owes
   <2>4. Owes(t, obs)' /\ ~Owes(t, obs) BY <1>1, <1>3 DEF Owes
   <2>5. serial \notin Serials(obs) BY <1>2, <2>2 DEF SeenInv
   <2>6. \A u \in Threads : Owes(u, obs)' => snap'[u].serial \notin Serials(obs)
     BY <1>3, <2>2, <2>3, <2>5 DEF SeenInv
   <2>7. ASSUME NEW n \in 1..serial
         PROVE  n \in Serials(obs) \/ \E u \in Threads : Owes(u, obs)' /\ snap'[u].serial = n
    <3>1. CASE n = serial BY <1>3, <2>4, <3>1
    <3>2. CASE n # serial
     <4>1. n \in Serials(obs) \/ \E u \in Threads : Owes(u, obs) /\ snap[u].serial = n
       BY <2>2, <3>2 DEF SeenInv
     <4> QED BY <1>3, <2>3, <2>4, <4>1
    <3> QED BY <3>1, <3>2
   <2> QED BY <1>1, <2>1, <2>2, <2>6, <2>7 DEF SeenInv
  <1> QED BY <1>4, <1>7, <1>8

(* The observer list changes outside of transitions and copies. *)
LEMMA RegisterNotify ==
    ASSUME NotifyInv, NEW t \in Threads, NEW x \in Observers,
           AddObserver(t, x) \/ RemoveObserver(t, x)
    PROVE  /\ ListsInv' /\ CarriedInv'
           /\ \A obs \in Permanent : SeenInv(obs)'
  <1>1. UNCHANGED <<serial, seen, lock, pc, snap, todo>> BY DEF AddObserver, RemoveObserver, history
  <1>2. /\ observers \in Seq(Observers) /\ Len(observers) \in Nat
        /\ DOMAIN observers = 1..Len(observers)
    BY DEF NotifyInv, Inv, Shape
  <1>3. /\ IsInjective(observers) /\ \A t1 \in Threads : IsInjective(todo[t1])
        /\ \A obs \in Permanent : \E i \in DOMAIN observers : observers[i] = obs
    BY DEF NotifyInv, ListsInv, ToSet
  <1>4. IsInjective(observers') /\ Permanent \subseteq ToSet(observers')
   <2>1. CASE AddObserver(t, x)
    <3>1. observers' = Append(observers, x) /\ x \notin ToSet(observers) BY <2>1 DEF AddObserver
    <3>2. \A i \in 1..Len(observers) : observers[i] # x BY <1>2, <3>1 DEF ToSet
    <3>3. /\ DOMAIN observers' = 1..(Len(observers) + 1)
          /\ observers'[Len(observers) + 1] = x
          /\ \A i \in 1..Len(observers) : observers'[i] = observers[i]
      BY <1>2, <3>1
    <3>4. IsInjective(observers') BY <1>2, <1>3, <3>2, <3>3 DEF IsInjective
    <3>5. Permanent \subseteq ToSet(observers') BY <1>2, <1>3, <3>3 DEF ToSet
    <3> QED BY <3>4, <3>5
   <2>2. CASE RemoveObserver(t, x)
    <3>1. PICK k \in DOMAIN observers :
              observers[k] = x /\ observers' = RemoveAt(observers, k)
      BY <2>2 DEF RemoveObserver
    <3>2. x \notin Permanent BY <2>2 DEF RemoveObserver
    <3> DEFINE n == Len(observers)
               a == SubSeq(observers, 1, k - 1)
               c == SubSeq(observers, k + 1, n)
    <3>3. /\ k \in 1..n /\ n \in Nat
          /\ a \in Seq(Observers) /\ Len(a) = k - 1
          /\ \A i \in 1..(k - 1) : a[i] = observers[i]
          /\ c \in Seq(Observers) /\ Len(c) = n - k
          /\ \A i \in 1..(n - k) : c[i] = observers[k + i]
     <4>1. k \in 1..n /\ n \in Nat BY <1>2
     <4>2. /\ a \in Seq(Observers) /\ Len(a) = k - 1
           /\ \A i \in 1..(k - 1) : a[i] = observers[i]
      <5>1. 1 \in 1..(n + 1) /\ k - 1 \in 0..n BY <4>1
      <5> QED BY <1>2, <4>1, <5>1, SubSeqProperties
     <4>3. /\ c \in Seq(Observers) /\ Len(c) = n - k
           /\ \A i \in 1..(n - k) : c[i] = observers[k + i]
      <5>1. /\ k + 1 \in 1..(n + 1) /\ n \in 0..n
            /\ IF k + 1 <= n THEN n - (k + 1) + 1 = n - k ELSE n - k = 0
        BY <4>1
      <5> QED BY <1>2, <4>1, <5>1, SubSeqProperties
     <4> QED BY <4>1, <4>2, <4>3
    <3>4. observers' = a \o c BY <3>1 DEF RemoveAt
    <3> HIDE DEF a, c
    <3>5. /\ DOMAIN observers' = 1..(n - 1)
          /\ \A i \in 1..(n - 1) :
                observers'[i] = IF i < k THEN observers[i] ELSE observers[i + 1]
     <4>1. Len(a \o c) = n - 1 /\ a \o c \in Seq(Observers) BY <3>3
     <4>2. ASSUME NEW i \in 1..(n - 1)
           PROVE  observers'[i] = IF i < k THEN observers[i] ELSE observers[i + 1]
      <5>1. CASE i < k BY <3>3, <3>4, <5>1
      <5>2. CASE ~(i < k)
       <6>1. (a \o c)[i] = c[i - (k - 1)] /\ i - (k - 1) \in 1..(n - k) BY <3>3, <5>2, SMTT(30)
       <6>2. c[i - (k - 1)] = observers[k + (i - (k - 1))] BY <3>3, <6>1
       <6>3. k + (i - (k - 1)) = i + 1 BY <3>3
       <6> QED BY <3>4, <5>2, <6>1, <6>2, <6>3
      <5> QED BY <5>1, <5>2
     <4> QED BY <3>4, <4>1, <4>2
    <3>6. IsInjective(observers')
     <4>1. SUFFICES ASSUME NEW i \in 1..(n - 1), NEW j \in 1..(n - 1),
                           observers'[i] = observers'[j]
                    PROVE  i = j
       BY <3>5 DEF IsInjective
     <4> DEFINE I == IF i < k THEN i ELSE i + 1
                J == IF j < k THEN j ELSE j + 1
     <4>2. /\ observers'[i] = observers[I] /\ observers'[j] = observers[J]
           /\ I \in DOMAIN observers /\ J \in DOMAIN observers
       BY <1>2, <3>3, <3>5
     <4>3. I = J
      <5>1. observers[I] = observers[J] BY <4>1, <4>2
      <5> HIDE DEF I, J
      <5> QED BY <1>3, <4>2, <5>1 DEF IsInjective
     <4> QED BY <3>3, <4>3
    <3>7. ASSUME NEW obs \in Permanent
          PROVE  obs \in ToSet(observers')
     <4>1. PICK i \in DOMAIN observers : observers[i] = obs
       BY <1>3
     <4>2. i # k /\ i \in 1..n BY <1>2, <3>1, <3>2, <4>1
     <4> DEFINE j == IF i < k THEN i ELSE i - 1
     <4>3. j \in 1..(n - 1) /\ observers'[j] = observers[i] BY <3>3, <3>5, <4>2
     <4> HIDE DEF j
     <4> QED BY <3>5, <4>1, <4>3 DEF ToSet
    <3> QED BY <3>6, <3>7
   <2> QED BY <2>1, <2>2
  <1>5. ListsInv' BY <1>1, <1>3, <1>4 DEF ListsInv
  <1>6. CarriedInv' BY <1>1 DEF NotifyInv, CarriedInv, Carries
  <1>7. ASSUME NEW obs \in Permanent
        PROVE  SeenInv(obs)'
   <2>1. Serials(obs)' = Serials(obs) /\ (SeenOnce(obs)' <=> SeenOnce(obs))
     BY <1>1 DEF Serials, SeenOnce
   <2>2. \A u \in Threads : Owes(u, obs)' <=> Owes(u, obs) BY <1>1 DEF Owes
   <2> QED BY <1>1, <2>1, <2>2 DEF NotifyInv, SeenInv
  <1> QED BY <1>5, <1>6, <1>7

(* The copy of the list holds every kept observer. *)
LEMMA CopyNotify ==
    ASSUME NotifyInv, NEW t \in Threads, CopyObservers(t)
    PROVE  /\ ListsInv' /\ CarriedInv'
           /\ \A obs \in Permanent : SeenInv(obs)'
  <1>1. /\ pc[t] = "notify" /\ pc' = [pc EXCEPT ![t] = "calling"]
        /\ todo' = [todo EXCEPT ![t] = observers]
        /\ UNCHANGED <<observers, serial, seen, lock, snap>>
    BY DEF CopyObservers, Goto, history
  <1>2. pc \in [Threads -> PCs] /\ todo \in [Threads -> Seq(Observers)] BY DEF NotifyInv, Inv, Shape
  <1>3. /\ pc'[t] = "calling" /\ todo'[t] = observers
        /\ \A u \in Threads \ {t} : pc'[u] = pc[u] /\ todo'[u] = todo[u]
    BY <1>1, <1>2
  <1>4. ListsInv' BY <1>1, <1>3 DEF NotifyInv, ListsInv
  <1>5. \A u \in Threads : Carries(u)' <=> Carries(u) BY <1>1, <1>3 DEF Carries
  <1>6. CarriedInv' BY <1>1, <1>5 DEF NotifyInv, CarriedInv
  <1>7. ASSUME NEW obs \in Permanent
        PROVE  SeenInv(obs)'
   <2>1. Serials(obs)' = Serials(obs) /\ (SeenOnce(obs)' <=> SeenOnce(obs))
     BY <1>1 DEF Serials, SeenOnce
   <2>2. \A u \in Threads : Owes(u, obs)' <=> Owes(u, obs)
     BY <1>1, <1>3 DEF Owes, NotifyInv, ListsInv
   <2> QED BY <1>1, <2>1, <2>2 DEF NotifyInv, SeenInv
  <1> QED BY <1>4, <1>6, <1>7

(* The thread that finished its copy owes nobody. *)
LEMMA DoneNotify ==
    ASSUME NotifyInv, NEW t \in Threads, NotifyDone(t)
    PROVE  /\ ListsInv' /\ CarriedInv'
           /\ \A obs \in Permanent : SeenInv(obs)'
  <1>1. /\ pc[t] = "calling" /\ pc' = [pc EXCEPT ![t] = "idle"] /\ todo[t] = <<>>
        /\ snap' = [snap EXCEPT ![t] = NoSnapshot]
        /\ UNCHANGED <<observers, serial, seen, lock, todo>>
    BY DEF NotifyDone, Goto, history
  <1>2. pc \in [Threads -> PCs] /\ snap \in [Threads -> SnapshotType] BY DEF NotifyInv, Inv, Shape
  <1>3. /\ pc'[t] = "idle"
        /\ \A u \in Threads \ {t} : pc'[u] = pc[u] /\ snap'[u] = snap[u]
    BY <1>1, <1>2
  <1>4. ListsInv' BY <1>1 DEF NotifyInv, ListsInv
  <1>5. ~Carries(t)' /\ \A u \in Threads \ {t} : Carries(u)' <=> Carries(u) BY <1>3 DEF Carries
  <1>6. CarriedInv' BY <1>1, <1>3, <1>5 DEF NotifyInv, CarriedInv
  <1>7. ASSUME NEW obs \in Permanent
        PROVE  SeenInv(obs)'
   <2>1. Serials(obs)' = Serials(obs) /\ (SeenOnce(obs)' <=> SeenOnce(obs))
     BY <1>1 DEF Serials, SeenOnce
   <2>2. \A u \in Threads \ {t} : Owes(u, obs)' <=> Owes(u, obs) BY <1>1, <1>3 DEF Owes
   <2>3. ToSet(<<>>) = {} BY DEF ToSet
   <2>4. ~Owes(t, obs) /\ ~Owes(t, obs)' BY <1>1, <1>3, <2>3 DEF Owes
   <2> QED BY <1>1, <1>3, <2>1, <2>2, <2>4 DEF NotifyInv, SeenInv
  <1> QED BY <1>4, <1>6, <1>7

(* The observer at the head of the copy is called with the carried snapshot. *)
LEMMA CallNotify ==
    ASSUME NotifyInv, NEW t \in Threads, CallObserver(t)
    PROVE  /\ ListsInv' /\ CarriedInv'
           /\ \A obs \in Permanent : SeenInv(obs)'
  <1> DEFINE h == Head(todo[t])
             s == todo[t]
  <1>1. /\ pc[t] = "calling" /\ s # <<>>
        /\ seen' = [seen EXCEPT ![h] = Append(seen[h], snap[t])]
        /\ todo' = [todo EXCEPT ![t] = Tail(s)]
        /\ UNCHANGED <<observers, serial, lock, pc, snap>>
    BY DEF CallObserver, history
  <1>2. /\ todo \in [Threads -> Seq(Observers)] /\ snap \in [Threads -> SnapshotType]
        /\ seen \in [Observers -> Seq(SnapshotType)] /\ serial \in Nat
        /\ s \in Seq(Observers)
    BY DEF NotifyInv, Inv, Shape
  <1>3. /\ h = s[1] /\ h \in Observers /\ Len(s) \in Nat \ {0} /\ DOMAIN s = 1..Len(s)
        /\ Tail(s) \in Seq(Observers) /\ DOMAIN Tail(s) = 1..(Len(s) - 1)
        /\ \A i \in 1..(Len(s) - 1) : Tail(s)[i] = s[i + 1]
    BY <1>1, <1>2
  <1>4. IsInjective(s) BY DEF NotifyInv, ListsInv
  <1>5. /\ todo'[t] = Tail(s) /\ \A u \in Threads \ {t} : todo'[u] = todo[u]
    BY <1>1, <1>2
  <1>6. h \in ToSet(s) /\ h \notin ToSet(Tail(s))
   <2>1. h \in ToSet(s) BY <1>3 DEF ToSet
   <2>2. \A i \in 1..(Len(s) - 1) : s[i + 1] # s[1] BY <1>3, <1>4 DEF IsInjective
   <2> QED BY <1>3, <2>1, <2>2 DEF ToSet
  <1>7. \A x : x # h => (x \in ToSet(Tail(s)) <=> x \in ToSet(s))
   <2> SUFFICES ASSUME NEW x, x # h PROVE x \in ToSet(Tail(s)) <=> x \in ToSet(s)
     OBVIOUS
   <2>1. ASSUME x \in ToSet(Tail(s)) PROVE x \in ToSet(s) BY <1>3, <2>1 DEF ToSet
   <2>2. ASSUME x \in ToSet(s) PROVE x \in ToSet(Tail(s))
    <3>1. PICK i \in 1..Len(s) : s[i] = x
      BY <1>3, <2>2 DEF ToSet
    <3>2. i # 1 BY <1>3, <3>1
    <3>3. i - 1 \in 1..(Len(s) - 1) /\ (i - 1) + 1 = i BY <1>3, <3>2
    <3>4. Tail(s)[i - 1] = x BY <1>3, <3>1, <3>3
    <3> QED BY <1>3, <3>3, <3>4 DEF ToSet
   <2> QED BY <2>1, <2>2
  <1>8. IsInjective(Tail(s))
   <2> SUFFICES ASSUME NEW i \in 1..(Len(s) - 1), NEW j \in 1..(Len(s) - 1),
                       Tail(s)[i] = Tail(s)[j]
                PROVE  i = j
     BY <1>3 DEF IsInjective
   <2>1. i + 1 \in 1..Len(s) /\ j + 1 \in 1..Len(s) /\ s[i + 1] = s[j + 1]
    <3>1. Tail(s)[i] = s[i + 1] /\ Tail(s)[j] = s[j + 1] BY <1>3
    <3>2. i + 1 \in 1..Len(s) /\ j + 1 \in 1..Len(s) BY <1>3
    <3> QED BY <3>1, <3>2
   <2>2. i + 1 = j + 1 BY <1>3, <1>4, <2>1 DEF IsInjective
   <2> QED BY <2>2
  <1> HIDE DEF s
  <1>9. ListsInv' BY <1>1, <1>5, <1>8 DEF NotifyInv, ListsInv
  <1>10. \A u \in Threads : Carries(u)' <=> Carries(u) BY <1>1 DEF Carries
  <1>11. CarriedInv' BY <1>1, <1>10 DEF NotifyInv, CarriedInv
  <1>12. Carries(t) /\ \A u \in Threads \ {t} : Carries(u) => snap[u].serial # snap[t].serial
    BY <1>1 DEF Carries, NotifyInv, CarriedInv
  <1>13. ASSUME NEW obs \in Permanent
         PROVE  SeenInv(obs)'
   <2>0. obs \in Observers /\ SeenInv(obs) BY PermanentType DEF NotifyInv
   <2>1. \A u \in Threads \ {t} : Owes(u, obs)' <=> Owes(u, obs) BY <1>1, <1>5 DEF Owes
   <2>2. CASE obs # h
    <3>1. seen'[obs] = seen[obs] BY <1>1, <1>2, <2>0, <2>2
    <3>2. Serials(obs)' = Serials(obs) /\ (SeenOnce(obs)' <=> SeenOnce(obs))
      BY <3>1 DEF Serials, SeenOnce
    <3>3. Owes(t, obs)' <=> Owes(t, obs) BY <1>1, <1>5, <1>7, <2>2 DEF Owes, s
    <3> QED BY <1>1, <2>0, <2>1, <3>2, <3>3 DEF SeenInv
   <2>3. CASE obs = h
    <3> DEFINE w == seen[obs]
               n == snap[t].serial
               z == Len(w) + 1
    <3>1. w \in Seq(SnapshotType) /\ Len(w) \in Nat /\ DOMAIN w = 1..Len(w) BY <1>2, <2>0
    <3>2. seen'[obs] = Append(w, snap[t]) BY <1>1, <1>2, <1>3, <2>3
    <3>3. /\ DOMAIN seen'[obs] = 1..z /\ seen'[obs][z] = snap[t]
          /\ \A i \in 1..Len(w) : seen'[obs][i] = w[i]
      BY <1>2, <3>1, <3>2
    <3>4. Owes(t, obs) /\ ~Owes(t, obs)' BY <1>1, <1>5, <1>6, <2>3 DEF Owes, s
    <3>5. n \notin Serials(obs) /\ n \in 1..serial
      BY <1>12, <2>0, <3>4 DEF SeenInv, NotifyInv, CarriedInv
    <3>6. Serials(obs)' = Serials(obs) \cup {n} BY <3>1, <3>3 DEF Serials
    <3>7. SeenOnce(obs)'
     <4>1. \A i \in 1..Len(w) : w[i].serial # n BY <3>1, <3>5 DEF Serials
     <4>2. SUFFICES ASSUME NEW i \in 1..z, NEW j \in 1..z,
                           seen'[obs][i].serial = seen'[obs][j].serial
                    PROVE  i = j
       BY <3>3 DEF SeenOnce
     <4>3. CASE i \in 1..Len(w) /\ j \in 1..Len(w)
       BY <2>0, <3>1, <3>3, <4>2, <4>3 DEF SeenInv, SeenOnce
     <4>4. CASE i = z /\ j \in 1..Len(w)
      <5>1. seen'[obs][i].serial = n /\ seen'[obs][j].serial # n BY <3>3, <4>1, <4>4
      <5> QED BY <4>2, <5>1
     <4>5. CASE j = z /\ i \in 1..Len(w)
      <5>1. seen'[obs][j].serial = n /\ seen'[obs][i].serial # n BY <3>3, <4>1, <4>5
      <5> QED BY <4>2, <5>1
     <4>6. \A k \in 1..z : k = z \/ k \in 1..Len(w) BY <3>1
     <4> QED BY <4>3, <4>4, <4>5, <4>6
    <3>8. lock # None => n # serial BY <1>12 DEF NotifyInv, CarriedInv
    <3>9. \A u \in Threads : Owes(u, obs)' => snap[u].serial \notin Serials(obs) \cup {n}
     <4>1. \A u \in Threads : Owes(u, obs) => Carries(u) BY DEF Owes, Carries
     <4> QED BY <1>12, <2>0, <2>1, <3>4, <4>1 DEF SeenInv
    <3>10. ASSUME NEW m \in 1..serial
           PROVE  \/ m \in Serials(obs) \cup {n}
                  \/ \E u \in Threads : Owes(u, obs)' /\ snap[u].serial = m
                  \/ lock # None /\ m = serial
      BY <2>0, <2>1 DEF SeenInv
    <3> HIDE DEF n, w, z
    <3> QED BY <1>1, <2>0, <3>5, <3>6, <3>7, <3>8, <3>9, <3>10 DEF SeenInv
   <2> QED BY <2>2, <2>3
  <1> QED BY <1>9, <1>11, <1>13

(* Every step keeps the account of notifications. *)
LEMMA NotifyNext == NotifyInv /\ [Next]_vars => NotifyInv'
  <1> SUFFICES ASSUME NotifyInv, [Next]_vars
               PROVE  ListsInv' /\ CarriedInv' /\ \A obs \in Permanent : SeenInv(obs)'
    BY InvNext DEF NotifyInv
  <1>1. CASE UNCHANGED vars
   <2>1. /\ UNCHANGED <<observers, todo, serial, seen, lock>>
         /\ UNCHANGED <<pc, snap>>
     BY <1>1 DEF vars
   <2>2. \A t \in Threads : Carries(t)' <=> Carries(t) BY <2>1 DEF Carries
   <2> QED BY <2>1, <2>2, NotifyKept
  <1>2. ASSUME NEW t \in Threads,
               EngageFields(t) \/ DisengageFields(t) \/ Snapshot(t) \/ SnapshotDone(t)
        PROVE  ListsInv' /\ CarriedInv' /\ \A obs \in Permanent : SeenInv(obs)'
   <2>1. /\ UNCHANGED <<observers, todo, serial, seen, lock>>
         /\ \A u \in Threads \ {t} : pc'[u] = pc[u] /\ snap'[u] = snap[u]
         /\ ~Carries(t) /\ ~Carries(t)'
     BY <1>2 DEF EngageFields, DisengageFields, Snapshot, SnapshotDone, Goto, history,
        Carries, NotifyInv, Inv, Shape
   <2>2. \A u \in Threads \ {t} : Carries(u)' <=> Carries(u) BY <2>1 DEF Carries
   <2> QED BY <2>1, <2>2, NotifyKept
  <1>3. ASSUME NEW t \in Threads, EngageNoop(t) \/ DisengageNoop(t)
        PROVE  UNCHANGED vars
    BY <1>3 DEF EngageNoop, DisengageNoop
  <1>4. CASE Next
   <2>1. PICK t \in Threads :
           \/ EngageNoop(t)
           \/ \E r \in Reasons : EngageState(t, r)
           \/ DisengageNoop(t)
           \/ DisengageState(t)
           \/ Started(t)
           \/ \E obs \in Observers : AddObserver(t, obs) \/ RemoveObserver(t, obs)
           \/ Snapshot(t)
     BY <1>4 DEF Next
   <2> QED
     BY <1>1, <1>2, <1>3, <2>1, TransitionNotify, ReleaseNotify, RegisterNotify,
        CopyNotify, DoneNotify, CallNotify DEF Started
  <1> QED BY <1>1, <1>4

(* kill_switch.py 19-21: an observer that stays registered is called at most once
   per transition and, when no thread is inside a call, was called for each. *)
THEOREM EveryTransitionNotified == Spec => []NotifiedOncePerTransition
  <1>1. NotifyInv => NotifiedOncePerTransition
   <2> SUFFICES ASSUME NotifyInv, NEW obs \in Permanent
                PROVE  /\ Cardinality(Serials(obs)) = Len(seen[obs])
                       /\ (\A t \in Threads : pc[t] \in {"idle", "reading"})
                             => Serials(obs) = 1..serial
     BY DEF NotifiedOncePerTransition
   <2>1. /\ obs \in Observers /\ seen[obs] \in Seq(SnapshotType)
         /\ Len(seen[obs]) \in Nat /\ DOMAIN seen[obs] = 1..Len(seen[obs])
     BY PermanentType DEF NotifyInv, Inv, Shape
   <2>2. SeenInv(obs) BY DEF NotifyInv
   <2>3. Cardinality(Serials(obs)) = Len(seen[obs])
    <3> DEFINE D == 1..Len(seen[obs])
               f == [i \in D |-> seen[obs][i].serial]
    <3>1. f \in [D -> Serials(obs)] BY <2>1 DEF Serials
    <3>2. IsInjective(f) BY <2>1, <2>2 DEF SeenInv, SeenOnce, IsInjective
    <3>3. \A n \in Serials(obs) : \E i \in D : f[i] = n BY <2>1 DEF Serials
    <3>4. IsFiniteSet(D) /\ Cardinality(D) = Len(seen[obs]) BY <2>1, FS_Interval
    <3> HIDE DEF f, D
    <3>5. f \in Bijection(D, Serials(obs)) BY <3>1, <3>2, <3>3 DEF Bijection, Injection, Surjection
    <3> QED BY <3>4, <3>5, FS_Bijection DEF ExistsBijection
   <2>4. ASSUME \A t \in Threads : pc[t] \in {"idle", "reading"}
         PROVE  Serials(obs) = 1..serial
    <3>1. lock = None BY <2>4 DEF NotifyInv, Inv, Shape, LockInv, Inside
    <3>2. \A t \in Threads : ~Owes(t, obs) BY <2>4 DEF Owes
    <3> QED BY <2>2, <3>1, <3>2 DEF SeenInv
   <2> QED BY <2>3, <2>4
  <1> QED BY <1>1, InitNotify, NotifyNext, PTL DEF Spec

----------------------------------------
(* The rooms of the WebSocket manager. *)

----------------------------------------
(* Rooms and connections. *)

AllRooms == Users \cup Rooms

Connection ==
    [st : {"new", "open", "gone"}, rooms : SUBSET AllRooms, queue : Seq({"model", "dict"}), age : Nat,
     sender : {"over", "idle", "sending"}, msg : {"none", "model", "dict"}]

Broadcasts ==
    [id : Nat, kind : {"model", "dict"}, rooms : Seq(AllRooms) \ {<<>>}, snap : SUBSET Conns, pc : {"snapshot", "send"}]

WsShape ==
    /\ wsConn \in [Conns -> Connection]
    /\ wsRooms \in [AllRooms -> SUBSET Conns]
    /\ wsBeat \in [pc : {"none", "asleep", "sweep"}, stale : SUBSET Conns]
    /\ wsTasks \subseteq Broadcasts
    /\ wsHist.events \in Nat /\ wsHist \in [events : Nat, dropped : SUBSET {"up", "dead"}]
    /\ wsSocket \in [Conns -> {"up", "dead"}]

WsInv == WsShape /\ RoomsMatchConnections /\ HeartbeatWatches

(* Nobody is connected at the start. *)
LEMMA WsStarts == WsInit => WsInv
  <1> SUFFICES ASSUME WsInit PROVE WsInv
    OBVIOUS
  <1>1. Unknown \in Connection /\ Unknown.st = "new" BY DEF Unknown, Connection
  <1>2. WsShape BY <1>1 DEF WsInit, WsShape, AllRooms
  <1>3. Open = {} BY <1>1 DEF WsInit, Open
  <1> QED BY <1>2, <1>3 DEF WsInit, WsInv, RoomsMatchConnections, HeartbeatWatches

\* Connection c is as before but for its queue, its age and its sender.
SameMember(c) == wsConn'[c].st = wsConn[c].st /\ wsConn'[c].rooms = wsConn[c].rooms

(* A step that connects nobody and lets nobody join or leave a room. *)
LEMMA MembersStay ==
    ASSUME WsInv, wsConn' \in [Conns -> Connection], \A c \in Conns : SameMember(c),
           wsRooms' = wsRooms,
           wsBeat' = wsBeat \/ wsBeat'.pc # "none" \/ Open = {}
    PROVE  RoomsMatchConnections' /\ HeartbeatWatches' /\ Open' = Open
  <1>1. Open' = Open BY DEF Open, SameMember
  <1> QED BY <1>1 DEF WsInv, RoomsMatchConnections, HeartbeatWatches, SameMember

(* unregister takes a connection out of the table and out of its rooms. *)
LEMMA UnregisterKeeps ==
    ASSUME WsInv, NEW c \in Conns, Unregistered(c)
    PROVE  /\ wsConn' \in [Conns -> Connection] /\ wsRooms' \in [AllRooms -> SUBSET Conns]
           /\ RoomsMatchConnections' /\ Open' = Open \ {c}
  <1>0. wsConn \in [Conns -> Connection] /\ wsRooms \in [AllRooms -> SUBSET Conns] /\ RoomsMatchConnections
    BY DEF WsInv, WsShape
  <1> DEFINE r0 == [Unknown EXCEPT !.st = "gone"]
  <1>1. r0 \in Connection /\ r0.st = "gone"
   <2>1. Unknown \in Connection BY DEF Unknown, Connection
   <2> QED BY <2>1 DEF Connection
  <1>2. wsConn' = [wsConn EXCEPT ![c] = r0] BY DEF Unregistered
  <1> HIDE DEF r0
  <1>3. /\ wsConn' \in [Conns -> Connection] /\ wsConn'[c].st = "gone"
        /\ \A d \in Conns : d # c => wsConn'[d] = wsConn[d]
    BY <1>0, <1>1, <1>2
  <1>4. wsRooms' = [r \in AllRooms |-> IF r \in wsConn[c].rooms THEN wsRooms[r] \ {c} ELSE wsRooms[r]]
    BY DEF Unregistered, AllRooms
  <1>5. Open' = Open \ {c} BY <1>3 DEF Open
  <1>6. ASSUME NEW r \in AllRooms, NEW d \in Conns
        PROVE  (d \in wsRooms'[r]) = (d \in Open' /\ r \in wsConn'[d].rooms)
   <2>1. \A e \in Conns : (e \in wsRooms[r]) = (e \in Open /\ r \in wsConn[e].rooms)
     BY <1>0 DEF RoomsMatchConnections, AllRooms
   <2>2. CASE d = c BY <1>4, <1>5, <2>1, <2>2
   <2>3. CASE d # c BY <1>3, <1>4, <1>5, <2>1, <2>3
   <2> QED BY <2>2, <2>3
  <1>7. RoomsMatchConnections' BY <1>6 DEF RoomsMatchConnections, AllRooms
  <1> QED BY <1>0, <1>3, <1>4, <1>5, <1>7

(* The heartbeat goes with the last connection. *)
LEMMA BeatAfter ==
    ASSUME WsInv, NEW c \in Conns, HeartbeatAfter(c), Open' = Open \ {c}
    PROVE  /\ wsBeat' \in [pc : {"none", "asleep", "sweep"}, stale : SUBSET Conns]
           /\ HeartbeatWatches'
  <1>1. wsBeat' = [pc |-> "none", stale |-> {}] \/ wsBeat' = wsBeat BY DEF HeartbeatAfter
  <1>2. wsBeat \in [pc : {"none", "asleep", "sweep"}, stale : SUBSET Conns] /\ HeartbeatWatches
    BY DEF WsInv, WsShape
  <1>3. CASE Open = {c} BY <1>1, <1>2, <1>3 DEF HeartbeatWatches
  <1>4. CASE Open # {c}
   <2>1. wsBeat' = wsBeat BY <1>4 DEF HeartbeatAfter
   <2> QED BY <1>2, <2>1 DEF HeartbeatWatches
  <1> QED BY <1>3, <1>4

(* What send puts into queues. *)
LEMMA QueuedType ==
    ASSUME WsShape, NEW cs, NEW kind \in {"model", "dict"}, wsConn' = Queued(cs, kind)
    PROVE  wsConn' \in [Conns -> Connection] /\ \A c \in Conns : SameMember(c)
  <1>1. ASSUME NEW c \in Conns
        PROVE  wsConn'[c] \in Connection /\ SameMember(c)
   <2> DEFINE r == wsConn[c]
              q == Append(r.queue, kind)
   <2>1. r \in Connection BY DEF WsShape
   <2>2. r.queue \in Seq({"model", "dict"}) BY <2>1 DEF Connection
   <2>3. q \in Seq({"model", "dict"}) BY <2>2
   <2>4. wsConn'[c] = r \/ wsConn'[c] = [r EXCEPT !.queue = q] BY DEF Queued
   <2> HIDE DEF r, q
   <2>5. /\ [r EXCEPT !.queue = q] \in Connection
         /\ [r EXCEPT !.queue = q].st = r.st /\ [r EXCEPT !.queue = q].rooms = r.rooms
     BY <2>1, <2>3 DEF Connection
   <2> QED BY <2>1, <2>4, <2>5 DEF SameMember, r
  <1>2. wsConn' = [c \in Conns |-> wsConn'[c]] BY DEF Queued
  <1> QED BY <1>1, <1>2

(* A step of the rooms keeps them in step with the connections. *)
LEMMA WsSteps ==
    ASSUME WsInv, [WsNext]_wsVars
    PROVE  WsInv'
  <1>a. /\ wsConn \in [Conns -> Connection] /\ wsRooms \in [AllRooms -> SUBSET Conns]
        /\ wsBeat \in [pc : {"none", "asleep", "sweep"}, stale : SUBSET Conns]
        /\ wsTasks \subseteq Broadcasts
        /\ wsHist \in [events : Nat, dropped : SUBSET {"up", "dead"}] /\ wsHist.events \in Nat
        /\ wsSocket \in [Conns -> {"up", "dead"}]
        /\ RoomsMatchConnections /\ HeartbeatWatches
    BY DEF WsInv, WsShape
  <1>b. \A c \in Conns : wsConn[c] \in Connection BY <1>a
  <1>c. Open \subseteq Conns BY DEF Open
  <1>1. CASE UNCHANGED wsVars
    BY <1>1 DEF wsVars, WsInv, WsShape, RoomsMatchConnections, HeartbeatWatches, Open
  <1>2. ASSUME NEW c \in Conns, Register(c)
        PROVE  WsInv'
   <2> DEFINE r0 == [Unknown EXCEPT !.st = "open", !.rooms = {Owner[c]}, !.sender = "idle"]
              u == Owner[c]
   <2>1. r0 \in Connection /\ r0.st = "open" /\ r0.rooms = {u} /\ u \in AllRooms /\ u \in Users
    <3>1. u \in AllRooms /\ u \in Users BY WsAssumption DEF AllRooms
    <3>2. Unknown \in Connection BY DEF Unknown, Connection
    <3> QED BY <3>1, <3>2 DEF Connection
   <2>2. wsConn' = [wsConn EXCEPT ![c] = r0] /\ wsRooms' = [wsRooms EXCEPT ![u] = wsRooms[u] \cup {c}]
     BY <1>2 DEF Register
   <2>3. wsConn[c].st = "new" BY <1>2 DEF Register
   <2> HIDE DEF r0, u
   <2>4. wsConn' \in [Conns -> Connection] /\ wsConn'[c] = r0 /\ \A d \in Conns : d # c => wsConn'[d] = wsConn[d]
     BY <1>a, <2>1, <2>2
   <2>5. /\ wsRooms' \in [AllRooms -> SUBSET Conns] /\ wsRooms'[u] = wsRooms[u] \cup {c}
         /\ \A r \in AllRooms : r # u => wsRooms'[r] = wsRooms[r]
     BY <1>a, <2>1, <2>2
   <2>6. Open' = Open \cup {c} BY <2>1, <2>4 DEF Open
   <2>7. ASSUME NEW r \in AllRooms, NEW d \in Conns
         PROVE  (d \in wsRooms'[r]) = (d \in Open' /\ r \in wsConn'[d].rooms)
    <3>1. \A e \in Conns : (e \in wsRooms[r]) = (e \in Open /\ r \in wsConn[e].rooms)
      BY <1>a DEF RoomsMatchConnections, AllRooms
    <3>2. c \notin wsRooms[r] BY <2>3, <3>1 DEF Open
    <3>3. CASE d = c BY <2>1, <2>4, <2>5, <2>6, <3>2, <3>3
    <3>4. CASE d # c BY <2>4, <2>5, <2>6, <3>1, <3>4
    <3> QED BY <3>3, <3>4
   <2>8. RoomsMatchConnections' BY <2>7 DEF RoomsMatchConnections, AllRooms
   <2>9. HeartbeatWatches' /\ wsBeat' \in [pc : {"none", "asleep", "sweep"}, stale : SUBSET Conns]
    <3>1. wsBeat' = IF wsBeat.pc = "none" THEN [pc |-> "asleep", stale |-> {}] ELSE wsBeat
      BY <1>2 DEF Register
    <3> QED BY <1>a, <3>1 DEF HeartbeatWatches
   <2> QED BY <1>2, <1>a, <2>4, <2>5, <2>8, <2>9 DEF Register, WsInv, WsShape
  <1>3. ASSUME NEW c \in Conns, RouteEnds(c)
        PROVE  WsInv'
    BY <1>3, <1>a, UnregisterKeeps, BeatAfter DEF RouteEnds, WsInv, WsShape
  <1>4. ASSUME NEW c \in Conns, SocketDies(c)
        PROVE  WsInv'
   <2>1. wsSocket' \in [Conns -> {"up", "dead"}] BY <1>4, <1>a DEF SocketDies
   <2>2. RoomsMatchConnections' /\ HeartbeatWatches'
     BY <1>4, <1>a DEF SocketDies, RoomsMatchConnections, HeartbeatWatches, Open
   <2> QED BY <1>4, <1>a, <2>1, <2>2 DEF SocketDies, WsInv, WsShape
  <1>5. ASSUME NEW c \in Conns, Touch(c) \/ SenderTakes(c) \/ SenderSends(c)
        PROVE  WsInv'
   <2> DEFINE r0 == wsConn[c]
              r1 == wsConn'[c]
   <2>1. /\ r1 \in Connection /\ r1.st = r0.st /\ r1.rooms = r0.rooms
         /\ wsConn' \in [Conns -> Connection]
         /\ \A d \in Conns : d # c => wsConn'[d] = wsConn[d]
    <3>1. PICK r : /\ r \in Connection /\ r.st = r0.st /\ r.rooms = r0.rooms
                   /\ wsConn' = [wsConn EXCEPT ![c] = r]
     <4>1. r0 \in Connection BY <1>b
     <4> HIDE DEF r0
     <4>2. CASE Touch(c)
      <5>1. wsConn' = [wsConn EXCEPT ![c] = [r0 EXCEPT !.age = 0]] BY <4>2 DEF Touch, r0
      <5> QED BY <4>1, <5>1 DEF Connection
     <4>3. CASE SenderTakes(c)
      <5>1. /\ wsConn' = [wsConn EXCEPT ![c] = [r0 EXCEPT !.sender = "sending", !.msg = Head(r0.queue), !.queue = Tail(r0.queue)]]
            /\ r0.queue # <<>>
        BY <4>3 DEF SenderTakes, r0
      <5>2. r0.queue \in Seq({"model", "dict"}) BY <4>1 DEF Connection
      <5> DEFINE h == Head(r0.queue)
                 q == Tail(r0.queue)
      <5>3. h \in {"model", "dict"} /\ q \in Seq({"model", "dict"}) BY <5>1, <5>2
      <5>4. wsConn' = [wsConn EXCEPT ![c] = [r0 EXCEPT !.sender = "sending", !.msg = h, !.queue = q]]
        BY <5>1
      <5> HIDE DEF h, q
      <5>5. [r0 EXCEPT !.sender = "sending", !.msg = h, !.queue = q] \in Connection
        BY <4>1, <5>3 DEF Connection
      <5>6. /\ [r0 EXCEPT !.sender = "sending", !.msg = h, !.queue = q].st = r0.st
            /\ [r0 EXCEPT !.sender = "sending", !.msg = h, !.queue = q].rooms = r0.rooms
        BY <4>1 DEF Connection
      <5> QED BY <5>4, <5>5, <5>6
     <4>4. CASE SenderSends(c)
      <5>1. wsConn' = [wsConn EXCEPT ![c] = [r0 EXCEPT !.sender = "idle", !.msg = "none"]]
        BY <4>4 DEF SenderSends, r0
      <5>2. [r0 EXCEPT !.sender = "idle", !.msg = "none"] \in Connection BY <4>1 DEF Connection
      <5>3. /\ [r0 EXCEPT !.sender = "idle", !.msg = "none"].st = r0.st
            /\ [r0 EXCEPT !.sender = "idle", !.msg = "none"].rooms = r0.rooms
        BY <4>1 DEF Connection
      <5> QED BY <5>1, <5>2, <5>3
     <4> QED BY <1>5, <4>2, <4>3, <4>4
    <3> QED BY <1>a, <3>1
   <2>2. \A d \in Conns : SameMember(d) BY <2>1 DEF SameMember
   <2>3. wsRooms' = wsRooms /\ wsBeat' = wsBeat /\ wsTasks' = wsTasks /\ wsHist' = wsHist /\ wsSocket' = wsSocket
     BY <1>5 DEF Touch, SenderTakes, SenderSends
   <2> HIDE DEF r0, r1
   <2>4. RoomsMatchConnections' /\ HeartbeatWatches' BY <2>1, <2>2, <2>3, MembersStay
   <2> QED BY <1>a, <2>1, <2>3, <2>4 DEF WsInv, WsShape
  <1>6. ASSUME NEW c \in Conns, SenderFails(c)
        PROVE  WsInv'
   <2>1. Unregistered(c) /\ HeartbeatAfter(c) BY <1>6 DEF SenderFails
   <2>2. /\ wsConn' \in [Conns -> Connection] /\ wsRooms' \in [AllRooms -> SUBSET Conns]
         /\ RoomsMatchConnections' /\ Open' = Open \ {c}
     BY <2>1, UnregisterKeeps
   <2>3. /\ wsBeat' \in [pc : {"none", "asleep", "sweep"}, stale : SUBSET Conns]
         /\ HeartbeatWatches'
     BY <2>1, <2>2, BeatAfter
   <2>4. wsHist' \in [events : Nat, dropped : SUBSET {"up", "dead"}] /\ wsHist'.events \in Nat
     BY <1>6, <1>a DEF SenderFails
   <2> QED BY <1>6, <1>a, <2>2, <2>3, <2>4 DEF SenderFails, WsInv, WsShape
  <1>7. ASSUME NEW c \in Conns, CloseSends(c)
        PROVE  WsInv'
   <2>1. wsConn' \in [Conns -> Connection] /\ \A d \in Conns : SameMember(d)
     BY <1>7, QueuedType DEF CloseSends, WsInv
   <2>2. wsRooms' = wsRooms /\ wsBeat' = wsBeat /\ wsTasks' = wsTasks /\ wsHist' = wsHist /\ wsSocket' = wsSocket
     BY <1>7 DEF CloseSends
   <2>3. RoomsMatchConnections' /\ HeartbeatWatches' BY <2>1, <2>2, MembersStay
   <2> QED BY <1>a, <2>1, <2>2, <2>3 DEF WsInv, WsShape
  <1>8. ASSUME NEW c \in Conns, CloseUnregisters(c)
        PROVE  WsInv'
   <2>1. wsSocket' \in [Conns -> {"up", "dead"}] /\ wsTasks' = wsTasks /\ wsHist' = wsHist
     BY <1>8, <1>a DEF CloseUnregisters
   <2>2. CASE c \in Open
    <3>1. Unregistered(c) /\ HeartbeatAfter(c) BY <1>8, <2>2 DEF CloseUnregisters
    <3>2. /\ wsConn' \in [Conns -> Connection] /\ wsRooms' \in [AllRooms -> SUBSET Conns]
          /\ RoomsMatchConnections' /\ Open' = Open \ {c}
      BY <3>1, UnregisterKeeps
    <3>3. /\ wsBeat' \in [pc : {"none", "asleep", "sweep"}, stale : SUBSET Conns]
          /\ HeartbeatWatches'
      BY <3>1, <3>2, BeatAfter
    <3> QED BY <1>a, <2>1, <3>2, <3>3 DEF WsInv, WsShape
   <2>3. CASE c \notin Open
    <3>1. wsConn' = wsConn /\ wsRooms' = wsRooms /\ wsBeat' = wsBeat
      BY <1>8, <2>3 DEF CloseUnregisters
    <3>2. RoomsMatchConnections' /\ HeartbeatWatches'
      BY <1>a, <3>1 DEF RoomsMatchConnections, HeartbeatWatches, Open
    <3> QED BY <1>a, <2>1, <3>1, <3>2 DEF WsInv, WsShape
   <2> QED BY <2>2, <2>3
  <1>9. ASSUME NEW c \in Conns, NEW r \in Rooms, JoinRoom(c, r) \/ LeaveRoom(c, r)
        PROVE  WsInv'
   <2> DEFINE r0 == wsConn[c]
   <2>1. PICK R, r1 :
            /\ r1 \in Connection /\ r1.st = r0.st /\ r1.rooms = R
            /\ wsConn' = [wsConn EXCEPT ![c] = r1]
            /\ \/ R = r0.rooms \cup {r} /\ wsRooms' = [wsRooms EXCEPT ![r] = wsRooms[r] \cup {c}]
               \/ R = r0.rooms \ {r} /\ wsRooms' = [wsRooms EXCEPT ![r] = wsRooms[r] \ {c}]
    <3>1. r0 \in Connection /\ r \in AllRooms BY <1>b DEF AllRooms
    <3>2. r0.rooms \subseteq AllRooms BY <3>1 DEF Connection
    <3>3. CASE JoinRoom(c, r)
     <4> DEFINE R == r0.rooms \cup {r}
     <4>1. R \subseteq AllRooms BY <3>1, <3>2
     <4>2. /\ wsConn' = [wsConn EXCEPT ![c] = [r0 EXCEPT !.rooms = R, !.age = 0]]
           /\ wsRooms' = [wsRooms EXCEPT ![r] = wsRooms[r] \cup {c}]
       BY <3>3 DEF JoinRoom
     <4> HIDE DEF r0
     <4>3. [r0 EXCEPT !.rooms = R, !.age = 0] \in Connection BY <3>1, <4>1 DEF Connection
     <4>4. [r0 EXCEPT !.rooms = R, !.age = 0].st = r0.st /\ [r0 EXCEPT !.rooms = R, !.age = 0].rooms = R
       BY <3>1 DEF Connection
     <4> QED BY <4>2, <4>3, <4>4
    <3>4. CASE LeaveRoom(c, r)
     <4> DEFINE R == r0.rooms \ {r}
     <4>1. R \subseteq AllRooms BY <3>1, <3>2
     <4>2. /\ wsConn' = [wsConn EXCEPT ![c] = [r0 EXCEPT !.rooms = R, !.age = 0]]
           /\ wsRooms' = [wsRooms EXCEPT ![r] = wsRooms[r] \ {c}]
       BY <3>4 DEF LeaveRoom
     <4> HIDE DEF r0
     <4>3. [r0 EXCEPT !.rooms = R, !.age = 0] \in Connection BY <3>1, <4>1 DEF Connection
     <4>4. [r0 EXCEPT !.rooms = R, !.age = 0].st = r0.st /\ [r0 EXCEPT !.rooms = R, !.age = 0].rooms = R
       BY <3>1 DEF Connection
     <4> QED BY <4>2, <4>3, <4>4
    <3> QED BY <1>9, <3>3, <3>4
   <2>2. r \in AllRooms /\ c \in Open BY <1>9 DEF AllRooms, JoinRoom, LeaveRoom
   <2>3. /\ wsConn' \in [Conns -> Connection] /\ wsConn'[c] = r1
         /\ \A d \in Conns : d # c => wsConn'[d] = wsConn[d]
     BY <1>a, <2>1
   <2>4. Open' = Open BY <2>1, <2>3 DEF Open
   <2>5. wsRooms' \in [AllRooms -> SUBSET Conns] BY <1>a, <2>1, <2>2
   <2> HIDE DEF r0
   <2>6. ASSUME NEW s \in AllRooms, NEW d \in Conns
         PROVE  (d \in wsRooms'[s]) = (d \in Open' /\ s \in wsConn'[d].rooms)
    <3>1. \A e \in Conns : (e \in wsRooms[s]) = (e \in Open /\ s \in wsConn[e].rooms)
      BY <1>a DEF RoomsMatchConnections, AllRooms
    <3>2. CASE s # r
     <4>1. wsRooms'[s] = wsRooms[s] BY <1>a, <2>1, <3>2
     <4>2. s \in wsConn'[d].rooms <=> s \in wsConn[d].rooms BY <2>1, <2>3, <3>2 DEF r0
     <4> QED BY <2>4, <3>1, <4>1, <4>2
    <3>3. CASE s = r
     <4>1. CASE d # c
      <5>1. wsConn'[d] = wsConn[d] /\ (d \in wsRooms'[s] <=> d \in wsRooms[s])
        BY <1>a, <2>1, <2>2, <2>3, <3>3, <4>1
      <5> QED BY <2>4, <3>1, <5>1
     <4>2. CASE d = c BY <1>a, <2>1, <2>2, <2>3, <2>4, <3>3, <4>2
     <4> QED BY <4>1, <4>2
    <3> QED BY <3>2, <3>3
   <2>7. RoomsMatchConnections' BY <2>6 DEF RoomsMatchConnections, AllRooms
   <2>8. wsBeat' = wsBeat /\ wsTasks' = wsTasks /\ wsHist' = wsHist /\ wsSocket' = wsSocket
     BY <1>9 DEF JoinRoom, LeaveRoom
   <2>9. HeartbeatWatches' BY <1>a, <2>4, <2>8 DEF HeartbeatWatches
   <2> QED BY <1>a, <2>3, <2>5, <2>7, <2>8, <2>9 DEF WsInv, WsShape
  <1>10. ASSUME NEW kind \in Kinds, NEW u \in Users, NEW r \in Rooms, BusEvent(kind, u, r) \/ SystemEvent(kind, r)
         PROVE  WsInv'
   <2> DEFINE n == wsHist.events
   <2>1. kind \in {"model", "dict"} /\ u \in AllRooms /\ r \in AllRooms BY WsAssumption DEF AllRooms
   <2> DEFINE Routes == Seq(AllRooms) \ {<<>>}
   <2>2. <<u, r>> \in Routes /\ <<u>> \in Routes /\ <<r>> \in Routes BY <2>1
   <2>3. PICK rs \in Routes :
            wsTasks' = wsTasks \cup {[id |-> n, kind |-> kind, rooms |-> rs, snap |-> {}, pc |-> "snapshot"]}
     BY <1>10, <2>2 DEF BusEvent, SystemEvent, Targets
   <2>4. [id |-> n, kind |-> kind, rooms |-> rs, snap |-> {}, pc |-> "snapshot"] \in Broadcasts
     BY <1>a, <2>1 DEF Broadcasts
   <2>5. wsTasks' \subseteq Broadcasts BY <1>a, <2>3, <2>4
   <2>6. wsHist' \in [events : Nat, dropped : SUBSET {"up", "dead"}] /\ wsHist'.events \in Nat
     BY <1>10, <1>a DEF BusEvent, SystemEvent
   <2>7. wsConn' = wsConn /\ wsRooms' = wsRooms /\ wsBeat' = wsBeat /\ wsSocket' = wsSocket
     BY <1>10 DEF BusEvent, SystemEvent
   <2>8. RoomsMatchConnections' /\ HeartbeatWatches'
     BY <1>a, <2>7 DEF RoomsMatchConnections, HeartbeatWatches, Open
   <2> QED BY <1>a, <2>5, <2>6, <2>7, <2>8 DEF WsInv, WsShape
  <1>11. ASSUME NEW t \in wsTasks, TakeSnapshot(t) \/ SendAll(t)
         PROVE  WsInv'
   <2>1. t \in Broadcasts BY <1>a
   <2>2. t.rooms \in Seq(AllRooms) /\ t.rooms # <<>> /\ t.kind \in {"model", "dict"}
     BY <2>1 DEF Broadcasts
   <2>3. CASE SendAll(t)
    <3>1. wsConn' \in [Conns -> Connection] /\ \A d \in Conns : SameMember(d)
      BY <2>2, <2>3, QueuedType DEF SendAll, WsInv
    <3>2. wsRooms' = wsRooms /\ wsBeat' = wsBeat /\ wsHist' = wsHist /\ wsSocket' = wsSocket
      BY <2>3 DEF SendAll
    <3>3. RoomsMatchConnections' /\ HeartbeatWatches' BY <3>1, <3>2, MembersStay
    <3> DEFINE q == Tail(t.rooms)
    <3>4. /\ wsTasks' \subseteq wsTasks \cup {[t EXCEPT !.rooms = q, !.snap = {}, !.pc = "snapshot"]}
          /\ Len(t.rooms) = 1 => wsTasks' \subseteq wsTasks
      BY <2>3 DEF SendAll
    <3>5. wsTasks' \subseteq Broadcasts
     <4>1. CASE Len(t.rooms) = 1 BY <1>a, <3>4, <4>1
     <4>2. CASE Len(t.rooms) # 1
      <5>1. q \in Seq(AllRooms) /\ Len(q) = Len(t.rooms) - 1 /\ Len(t.rooms) \in Nat /\ Len(t.rooms) # 0
        BY <2>2
      <5>a. Len(t.rooms) - 1 # 0 BY <5>1, <4>2
      <5> HIDE DEF q
      <5>b. Len(q) # 0 BY <5>1, <5>a
      <5>c. Len(<<>>) = 0 OBVIOUS
      <5>2. q \in Seq(AllRooms) \ {<<>>} BY <5>1, <5>b, <5>c
      <5>3. [t EXCEPT !.rooms = q, !.snap = {}, !.pc = "snapshot"] \in Broadcasts
        BY <2>1, <5>2 DEF Broadcasts
      <5> QED BY <1>a, <3>4, <5>3
     <4> QED BY <4>1, <4>2
    <3> QED BY <1>a, <3>1, <3>2, <3>3, <3>5 DEF WsInv, WsShape
   <2>4. CASE TakeSnapshot(t)
    <3> DEFINE m == wsRooms[Head(t.rooms)]
    <3>1. wsTasks' \subseteq wsTasks \cup {[t EXCEPT !.snap = m, !.pc = "send"]}
      BY <2>4 DEF TakeSnapshot
    <3>2. wsConn' = wsConn /\ wsRooms' = wsRooms /\ wsBeat' = wsBeat /\ wsHist' = wsHist /\ wsSocket' = wsSocket
      BY <2>4 DEF TakeSnapshot
    <3>3. RoomsMatchConnections' /\ HeartbeatWatches'
      BY <1>a, <3>2 DEF RoomsMatchConnections, HeartbeatWatches, Open
    <3>4. wsTasks' \subseteq Broadcasts
     <4>1. Head(t.rooms) \in AllRooms BY <2>2
     <4>2. m \subseteq Conns BY <1>a, <4>1
     <4> HIDE DEF m
     <4>3. [t EXCEPT !.snap = m, !.pc = "send"] \in Broadcasts BY <2>1, <4>2 DEF Broadcasts
     <4> QED BY <1>a, <3>1, <4>3
    <3> QED BY <1>a, <3>2, <3>3, <3>4 DEF WsInv, WsShape
   <2> QED BY <1>11, <2>3, <2>4
  <1>12. CASE Heartbeat \/ HeartbeatEnds
   <2>1. wsSocket' = wsSocket /\ wsTasks' = wsTasks /\ wsHist' = wsHist
     BY <1>12 DEF Heartbeat, HeartbeatWakes, HeartbeatSweeps, HeartbeatEnds
   <2>2. CASE HeartbeatEnds
    <3>1. wsConn' = wsConn /\ wsRooms' = wsRooms /\ Open = {} /\ wsBeat' = [pc |-> "none", stale |-> {}]
      BY <2>2 DEF HeartbeatEnds
    <3>2. RoomsMatchConnections' /\ HeartbeatWatches'
      BY <1>a, <3>1 DEF RoomsMatchConnections, HeartbeatWatches, Open
    <3> QED BY <1>a, <2>1, <3>1, <3>2 DEF WsInv, WsShape
   <2>3. CASE HeartbeatWakes
    <3> DEFINE stale == {c \in Open : Aged[c].age > StaleAfter}
    <3>1. wsConn' = Aged /\ wsRooms' = wsRooms /\ wsBeat' = [pc |-> "sweep", stale |-> stale]
      BY <2>3 DEF HeartbeatWakes
    <3>2. stale \subseteq Conns BY <1>c
    <3> HIDE DEF stale
    <3>3. ASSUME NEW c \in Conns
          PROVE  wsConn'[c] \in Connection /\ SameMember(c)
     <4> DEFINE r == wsConn[c]
                n == r.age + 1
     <4>1. r \in Connection BY <1>b
     <4>2. n \in Nat BY <4>1 DEF Connection
     <4>3. wsConn'[c] = r \/ wsConn'[c] = [r EXCEPT !.age = n] BY <3>1 DEF Aged
     <4> HIDE DEF r, n
     <4>4. /\ [r EXCEPT !.age = n] \in Connection
           /\ [r EXCEPT !.age = n].st = r.st /\ [r EXCEPT !.age = n].rooms = r.rooms
       BY <4>1, <4>2 DEF Connection
     <4> QED BY <4>1, <4>3, <4>4 DEF SameMember, r
    <3>4. wsConn' = [c \in Conns |-> wsConn'[c]] BY <3>1 DEF Aged
    <3>5. wsConn' \in [Conns -> Connection] BY <3>3, <3>4
    <3>6. wsBeat' \in [pc : {"none", "asleep", "sweep"}, stale : SUBSET Conns] /\ wsBeat'.pc # "none"
      BY <3>1, <3>2
    <3>7. RoomsMatchConnections' /\ HeartbeatWatches' BY <3>1, <3>3, <3>5, <3>6, MembersStay
    <3> QED BY <1>a, <2>1, <3>1, <3>5, <3>6, <3>7 DEF WsInv, WsShape
   <2>4. CASE HeartbeatSweeps
    <3>1. /\ wsBeat' \in [pc : {"none", "asleep", "sweep"}, stale : SUBSET Conns] /\ wsBeat'.pc # "none"
      BY <1>a, <2>4 DEF HeartbeatSweeps
    <3>2. HeartbeatWatches' BY <3>1 DEF HeartbeatWatches
    <3>3. CASE wsConn' = wsConn /\ wsRooms' = wsRooms
     <4>1. RoomsMatchConnections' BY <1>a, <3>3 DEF RoomsMatchConnections, Open
     <4> QED BY <1>a, <2>1, <3>1, <3>2, <3>3, <4>1 DEF WsInv, WsShape
    <3>4. ASSUME NEW c \in Conns, Unregistered(c)
          PROVE  WsInv'
      BY <1>a, <2>1, <3>1, <3>2, <3>4, UnregisterKeeps DEF WsInv, WsShape
    <3> QED BY <1>c, <2>4, <3>3, <3>4 DEF HeartbeatSweeps
   <2> QED BY <1>12, <2>2, <2>3, <2>4 DEF Heartbeat
  <1>13. CASE CloseBegins \/ CloseEnds
   <2>1. UNCHANGED <<wsConn, wsSocket, wsRooms, wsBeat, wsTasks, wsHist>>
     BY <1>13 DEF CloseBegins, CloseEnds
   <2>2. RoomsMatchConnections' /\ HeartbeatWatches'
     BY <1>a, <2>1 DEF RoomsMatchConnections, HeartbeatWatches, Open
   <2> QED BY <1>a, <2>1, <2>2 DEF WsInv, WsShape
  <1> QED
    BY <1>1, <1>2, <1>3, <1>4, <1>5, <1>6, <1>7, <1>8, <1>9, <1>10, <1>11, <1>12, <1>13 DEF WsNext

----------------------------------------
(* The channels of the WebSocket manager. *)

(* Shapes of the channel manager's tables: ids are detached together. *)
ChannelShape ==
    /\ chSocket \in [Ids -> Nat]
    /\ chUser \in [Ids -> Accounts \cup {"none"}]
    /\ chMembers \in [Channels -> SUBSET Ids]
    /\ chHist.opened \in [Ids -> Nat]
    /\ \A b \in chCasts : b.failed \subseteq Ids

ChannelInv == ChannelShape /\ MembersAreConnected

(* No channel has members when the manager starts. *)
LEMMA ChannelsStart == ChannelInit => ChannelInv
  BY DEF ChannelInit, ChannelInv, ChannelShape, MembersAreConnected

(* Every operation of the channel manager keeps its tables in step. *)
LEMMA ChannelSteps == ChannelInv /\ [ChannelNext]_chVars => ChannelInv'
  <1> SUFFICES ASSUME ChannelInv, [ChannelNext]_chVars PROVE ChannelInv'
    OBVIOUS
  <1> USE DEF ChannelInv, ChannelShape
  <1>1. ASSUME NEW i \in Ids, NEW a \in Accounts, ChannelConnect(i, a) PROVE ChannelInv'
   <2>1. chHist.opened[i] + 1 \in Nat /\ chHist.opened[i] + 1 # 0 OBVIOUS
   <2>2. chSocket' \in [Ids -> Nat] /\ chSocket'[i] # 0
         /\ \A j \in Ids \ {i} : chSocket'[j] = chSocket[j] /\ chUser'[j] = chUser[j]
     BY <1>1, <2>1 DEF ChannelConnect
   <2>3. chUser' \in [Ids -> Accounts \cup {"none"}] BY <1>1 DEF ChannelConnect
   <2>4. chMembers' = [c \in Channels |-> chMembers[c] \ {i}] /\ chCasts' = chCasts
     BY <1>1 DEF ChannelConnect, MembersAfterConnect, Without
   <2>5. chHist'.opened \in [Ids -> Nat]
    <3>1. chHist'.opened = [chHist.opened EXCEPT ![i] = chHist.opened[i] + 1]
          \/ chHist'.opened = chHist.opened
      BY <1>1 DEF ChannelConnect
    <3> QED BY <3>1, <2>1
   <2>6. MembersAreConnected' BY <2>2, <2>4 DEF MembersAreConnected
   <2> QED BY <2>2, <2>3, <2>4, <2>5, <2>6
  <1>2. ASSUME NEW i \in Ids, ChannelDisconnect(i) PROVE ChannelInv'
    BY <1>2 DEF ChannelDisconnect, MembersAreConnected, Without
  <1>3. ASSUME NEW i \in Ids, NEW c \in Channels, ChannelSubscribe(i, c) PROVE ChannelInv'
    BY <1>3 DEF ChannelSubscribe, MembersAreConnected, Allowed
  <1>4. ASSUME NEW i \in Ids, NEW c \in Channels, ChannelUnsubscribe(i, c) PROVE ChannelInv'
    BY <1>4 DEF ChannelUnsubscribe, MembersAreConnected
  <1>5. ASSUME NEW is, CastTo(is) PROVE ChannelInv'
   <2>1. chHist'.opened = chHist.opened BY <1>5 DEF CastTo
   <2> QED BY <1>5, <2>1 DEF CastTo, MembersAreConnected
  <1>6. ASSUME NEW b \in chCasts, CleanupFailed(b) PROVE ChannelInv'
    BY <1>6 DEF CleanupFailed, MembersAreConnected, Without
  <1>7. ASSUME NEW b \in chCasts, NEW i \in Ids, SafeSend(b, i) PROVE ChannelInv'
   <2> DEFINE f == IF chSocket[i] = 0 \/ <<i, chSocket[i]>> \in chDead THEN b.failed \cup {i} ELSE b.failed
              n == [b EXCEPT !.todo = b.todo \ {i}, !.failed = f]
   <2>1. chCasts' = (chCasts \ {b}) \cup {n} BY <1>7 DEF SafeSend
   <2>2. n.failed \subseteq Ids
    <3>1. f \subseteq Ids OBVIOUS
    <3>2. n.failed = f \/ n.failed = b.failed OBVIOUS
    <3> QED BY <3>1, <3>2
   <2> HIDE DEF n
   <2> QED BY <1>7, <2>1, <2>2 DEF SafeSend, MembersAreConnected
  <1>8. ASSUME NEW i \in Ids, ChannelSocketDies(i) PROVE ChannelInv'
    BY <1>8 DEF ChannelSocketDies, MembersAreConnected
  <1>9. CASE UNCHANGED chVars BY <1>9 DEF chVars, MembersAreConnected
  <1> QED
    BY <1>1, <1>2, <1>3, <1>4, <1>5, <1>6, <1>7, <1>8, <1>9
    DEF ChannelNext, SendToOne, ChannelBroadcast, BroadcastAll

----------------------------------------
(* The paper session. *)

Places == [pc : {"idle", "opening", "closing", "feeding", "evaluating", "routing", "ordering"},
           run : BOOLEAN, left : Nat]

RunnerShape ==
    /\ task \in [Tasks -> Places]
    /\ stats \in [Counters -> Nat]
    /\ tally.dropped \in Nat

\* Signals are left in the middle of a tick only.
LeftInTick(t) ==
    /\ task[t].pc \in {"idle", "opening", "feeding", "evaluating"} => task[t].left = 0
    /\ task[t].pc = "ordering" => task[t].left > 0

RunnerInv == RunnerShape /\ SignalsAccounted /\ \A t \in Tasks : LeftInTick(t)

Buckets == {"hold", "noPrice", "filled", "rejected", "failed"}

Dealt == stats["hold"] + stats["noPrice"] + stats["filled"] + stats["rejected"] + stats["failed"]
           + tally.dropped

\* A count that follows the signals that are not to be routed any more.
Settles(ks, n, change) ==
    \/ ks \cap Buckets = {} /\ n = change
    \/ \E k \in Buckets : ks \cap Buckets = {k} /\ 1 + n = change

PendingAt(r) == IF r.pc \in {"routing", "ordering"} THEN r.left ELSE 0

(* The signals to be routed are a sum over the tasks. *)
LEMMA AccountedIs ==
    SignalsAccounted <=> stats["emitted"] = Dealt + SumOn(Pending, Tasks)
  BY DEF SignalsAccounted, Dealt, SumOn

(* When one task moves, the signals to be routed change by what it had and has. *)
LEMMA OneTaskMoves ==
    ASSUME RunnerInv, NEW t \in Tasks, NEW r \in Places,
           task' = [task EXCEPT ![t] = r],
           stats' \in [Counters -> Nat], tally'.dropped \in Nat,
           stats'["emitted"] - stats["emitted"] = (Dealt' - Dealt) + (PendingAt(r) - PendingAt(task[t])),
           r.pc \in {"idle", "opening", "feeding", "evaluating"} => r.left = 0,
           r.pc = "ordering" => r.left > 0
    PROVE  RunnerInv'
  <1>1. RunnerShape /\ IsFiniteSet(Tasks) BY RunnerAssumption DEF RunnerInv
  <1>2. task'[t] = r /\ \A u \in Tasks \ {t} : task'[u] = task[u] BY <1>1 DEF RunnerShape
  <1>3. task' \in [Tasks -> Places] BY <1>1 DEF RunnerShape
  <1> DEFINE f == Pending
             g == Pending'
  <1>4. \A u \in Tasks : f[u] \in Int /\ g[u] \in Int BY <1>1, <1>3 DEF Pending, RunnerShape, Places
  <1>5. \A u \in Tasks \ {t} : g[u] = f[u] BY <1>2 DEF Pending
  <1>6. g[t] = PendingAt(r) /\ f[t] = PendingAt(task[t]) BY <1>2 DEF Pending, PendingAt
  <1> HIDE DEF f, g
  <1>7. SumOn(g, Tasks) = SumOn(f, Tasks) + (g[t] - f[t]) /\ SumOn(f, Tasks) \in Int
    BY <1>1, <1>4, <1>5, SumChange, SumType
  <1>8. stats["emitted"] = Dealt + SumOn(f, Tasks) BY AccountedIs DEF RunnerInv, f
  <1>9. Dealt \in Int /\ Dealt' \in Int /\ stats["emitted"] \in Int /\ stats'["emitted"] \in Int
    BY <1>1 DEF Dealt, RunnerShape, Counters
  <1>10. g[t] \in Int /\ f[t] \in Int BY <1>4
  <1>11. stats'["emitted"] = Dealt' + SumOn(g, Tasks) BY <1>6, <1>7, <1>8, <1>9, <1>10
  <1>12. SignalsAccounted'
   <2>1. (SignalsAccounted <=> stats["emitted"] = Dealt + SumOn(Pending, Tasks))'
     BY AccountedIs, PTL
   <2>2. (stats["emitted"] = Dealt + SumOn(Pending, Tasks))' BY <1>11 DEF g
   <2> QED BY <2>1, <2>2, PTL
  <1>13. \A u \in Tasks : LeftInTick(u)' BY <1>2 DEF LeftInTick, RunnerInv
  <1> QED BY <1>3, <1>12, <1>13 DEF RunnerInv, RunnerShape

(* No signal has been emitted when the runner is made. *)
LEMMA RunnerStarts == RunnerInit => RunnerInv
  <1> SUFFICES ASSUME RunnerInit PROVE RunnerInv
    OBVIOUS
  <1>1. Idle \in Places /\ Idle.pc = "idle" /\ Idle.left = 0 BY DEF Idle, Places
  <1> HIDE DEF Idle
  <1>2. RunnerShape /\ \A t \in Tasks : LeftInTick(t)
    BY <1>1 DEF RunnerInit, RunnerShape, LeftInTick
  <1>3. \A t \in Tasks : Pending[t] = 0 BY <1>1 DEF RunnerInit, Pending
  <1>4. SumOn(Pending, Tasks) = 0
   <2> DEFINE f == Pending
   <2>1. \A t \in Tasks : f[t] = 0 BY <1>3
   <2> HIDE DEF f
   <2>2. SumOn(f, Tasks) = 0 BY <2>1, SumZero, RunnerAssumption
   <2> QED BY <2>2 DEF f
  <1>5. Dealt = 0 /\ stats["emitted"] = 0 BY DEF RunnerInit, Dealt, Counters
  <1> QED BY <1>2, <1>4, <1>5, AccountedIs DEF RunnerInv

(* Counting moves no counter but those named. *)
LEMMA Counted ==
    ASSUME RunnerShape, NEW ks \in SUBSET Counters, Count(ks)
    PROVE  /\ stats' \in [Counters -> Nat]
           /\ \A k \in Counters : stats'[k] = stats[k] + IF k \in ks THEN 1 ELSE 0
  <1>1. \A k \in Counters : stats[k] + (IF k \in ks THEN 1 ELSE 0) \in Nat BY DEF RunnerShape
  <1> QED BY <1>1 DEF Count, Counters

(* What a count and dropped signals make of the signals dealt with. *)
LEMMA DealtMoves ==
    ASSUME RunnerShape, NEW ks \in SUBSET Counters, Count(ks),
           NEW n \in Nat, tally'.dropped = tally.dropped + n
    PROVE  /\ Dealt \in Int
           /\ ks \cap Buckets = {} => Dealt' = Dealt + n
           /\ \A k \in Buckets : ks \cap Buckets = {k} => Dealt' = Dealt + (1 + n)
  <1>1. /\ stats' \in [Counters -> Nat]
        /\ \A k \in Counters : stats'[k] = stats[k] + IF k \in ks THEN 1 ELSE 0
    BY Counted
  <1>2. Buckets \subseteq Counters /\ \A k \in Buckets : stats[k] \in Int
    BY DEF Buckets, Counters, RunnerShape
  <1>3. Dealt \in Int BY <1>2 DEF Dealt, Buckets, RunnerShape
  <1>4. CASE ks \cap Buckets = {}
   <2>1. \A k \in Buckets : stats'[k] = stats[k] BY <1>1, <1>2, <1>4
   <2> QED BY <1>2, <1>3, <1>4, <2>1 DEF Dealt, Buckets, RunnerShape
  <1>5. ASSUME NEW k \in Buckets, ks \cap Buckets = {k} PROVE Dealt' = Dealt + (1 + n)
   <2>1. stats'[k] = stats[k] + 1 /\ \A j \in Buckets \ {k} : stats'[j] = stats[j]
     BY <1>1, <1>2, <1>5
   <2> DEFINE v(j) == stats[j] + IF j = k THEN 1 ELSE 0
   <2>2. /\ stats'["hold"] = v("hold") /\ stats'["noPrice"] = v("noPrice")
         /\ stats'["filled"] = v("filled") /\ stats'["rejected"] = v("rejected")
         /\ stats'["failed"] = v("failed")
     BY <1>2, <2>1 DEF Buckets
   <2>3. /\ stats["hold"] \in Int /\ stats["noPrice"] \in Int /\ stats["filled"] \in Int
         /\ stats["rejected"] \in Int /\ stats["failed"] \in Int /\ tally.dropped \in Int
     BY <1>2 DEF Buckets, RunnerShape
   <2> QED BY <2>2, <2>3 DEF Dealt, Buckets
  <1> QED BY <1>3, <1>4, <1>5

(* A place the task can go to without signals in hand. *)
LEMMA NoneLeft ==
    ASSUME NEW r \in Places, NEW place \in {"idle", "opening", "closing", "feeding", "evaluating", "routing", "ordering"}
    PROVE  /\ [r EXCEPT !.pc = place] \in Places
           /\ [r EXCEPT !.pc = place].pc = place
           /\ [r EXCEPT !.pc = place].left = r.left
  BY DEF Places

(* The loop is left from a place where the tick's signals do not matter any more. *)
LEMMA Leaves ==
    ASSUME RunnerShape, NEW t \in Tasks, LeaveFeed(t)
    PROVE  \E r \in Places : task' = [task EXCEPT ![t] = r] /\ r.pc \in {"idle", "closing"}
                             /\ (r.pc = "idle" => r.left = 0)
  <1>1. Idle \in Places /\ Idle.pc = "idle" /\ Idle.left = 0 BY DEF Idle, Places
  <1>2. CASE task' = [task EXCEPT ![t] = Idle] BY <1>1, <1>2
  <1>3. CASE task' = [task EXCEPT ![t].pc = "closing"]
   <2> DEFINE r == [task[t] EXCEPT !.pc = "closing"]
   <2>1. r \in Places /\ r.pc = "closing" BY NoneLeft DEF RunnerShape
   <2>2. task' = [task EXCEPT ![t] = r] BY <1>3
   <2> HIDE DEF r
   <2> QED BY <2>1, <2>2
  <1> QED BY <1>2, <1>3 DEF LeaveFeed, BeginStop, NothingToStop, Goes

(* Every step of a task keeps the account of signals. *)
LEMMA RunnerSteps == RunnerInv /\ [RunnerNext]_prVars => RunnerInv'
  <1> SUFFICES ASSUME RunnerInv, [RunnerNext]_prVars PROVE RunnerInv'
    OBVIOUS
  <1>0. RunnerShape /\ \A t \in Tasks : LeftInTick(t) BY DEF RunnerInv
  <1>1. ASSUME NEW t \in Tasks, NEW r \in Places, task' = [task EXCEPT ![t] = r],
               stats' = stats, tally'.dropped = tally.dropped,
               PendingAt(r) = PendingAt(task[t]),
               r.pc \in {"idle", "opening", "feeding", "evaluating"} => r.left = 0,
               r.pc = "ordering" => r.left > 0
        PROVE  RunnerInv'
   <2>1. Dealt' = Dealt /\ Dealt \in Int BY <1>0, <1>1 DEF Dealt, RunnerShape, Counters
   <2>2. PendingAt(r) \in Int /\ stats["emitted"] \in Int
     BY <1>0 DEF PendingAt, Places, RunnerShape, Counters
   <2>3. stats' \in [Counters -> Nat] /\ tally'.dropped \in Nat BY <1>0, <1>1 DEF RunnerShape
   <2>4. stats'["emitted"] - stats["emitted"] = (Dealt' - Dealt) + (PendingAt(r) - PendingAt(task[t]))
     BY <1>1, <2>1, <2>2
   <2> QED BY <1>1, <2>3, <2>4, OneTaskMoves
  <1>2. ASSUME NEW t \in Tasks, LeaveFeed(t), PendingAt(task[t]) = 0, stats' = stats, tally' = tally
        PROVE  RunnerInv'
   <2> PICK r \in Places : task' = [task EXCEPT ![t] = r] /\ r.pc \in {"idle", "closing"}
                            /\ (r.pc = "idle" => r.left = 0)
     BY <1>0, <1>2, Leaves
   <2> QED BY <1>1, <1>2 DEF PendingAt
  <1>3. ASSUME NEW t \in Tasks, NEW place \in {"feeding", "evaluating", "routing", "ordering", "closing"},
               Goes(t, place), stats' = stats, tally'.dropped = tally.dropped,
               \/ place \in {"feeding", "evaluating", "closing"} /\ PendingAt(task[t]) = 0
               \/ place = "ordering" /\ task[t].pc = "routing" /\ task[t].left > 0,
               place \in {"feeding", "evaluating"} => task[t].left = 0
        PROVE  RunnerInv'
   <2> DEFINE r == [task[t] EXCEPT !.pc = place]
   <2>0. task[t] \in Places
         /\ place \in {"idle", "opening", "closing", "feeding", "evaluating", "routing", "ordering"}
     BY <1>0 DEF RunnerShape
   <2>1. r \in Places /\ r.pc = place /\ r.left = task[t].left BY <2>0, NoneLeft
   <2>2. task' = [task EXCEPT ![t] = r] BY <1>3 DEF Goes
   <2> HIDE DEF r
   <2>3. PendingAt(r) = PendingAt(task[t]) BY <1>3, <2>1 DEF PendingAt
   <2> QED BY <1>1, <1>3, <2>1, <2>2, <2>3
  <1>4. ASSUME NEW t \in Tasks, NEW run \in BOOLEAN, CallStart(t, run) PROVE RunnerInv'
   <2> DEFINE r == [pc |-> "opening", run |-> run, left |-> 0]
   <2>1. r \in Places /\ r.pc = "opening" /\ r.left = 0 BY DEF Places
   <2>2. task' = [task EXCEPT ![t] = r] /\ task[t].pc = "idle" /\ stats' = stats
     BY <1>4 DEF CallStart, At
   <2> HIDE DEF r
   <2>3. tally'.dropped = tally.dropped BY <1>4 DEF CallStart, Called
   <2> QED BY <1>1, <2>1, <2>2, <2>3 DEF PendingAt
  <1>5. ASSUME NEW t \in Tasks, task' = [task EXCEPT ![t] = Idle], PendingAt(task[t]) = 0,
               stats' = stats, tally'.dropped = tally.dropped
        PROVE  RunnerInv'
   <2>1. Idle \in Places /\ Idle.pc = "idle" /\ Idle.left = 0 BY DEF Idle, Places
   <2> HIDE DEF Idle
   <2> QED BY <1>1, <1>5, <2>1 DEF PendingAt
  <1>6. ASSUME NEW t \in Tasks, StartDone(t) PROVE RunnerInv'
   <2>1. task[t].pc = "opening" /\ task[t].left = 0 /\ stats' = stats /\ tally' = tally
     BY <1>0, <1>6 DEF StartDone, At, LeftInTick
   <2>2. CASE task[t].run
    <3>1. Goes(t, "feeding") BY <1>6, <2>2 DEF StartDone, Goes
    <3> QED BY <1>3, <2>1, <3>1 DEF PendingAt
   <2>3. CASE ~task[t].run
    <3>1. task' = [task EXCEPT ![t] = Idle] BY <1>6, <2>3 DEF StartDone
    <3> QED BY <1>5, <2>1, <3>1 DEF PendingAt
   <2> QED BY <2>2, <2>3
  <1>7. ASSUME NEW t \in Tasks, CallStop(t) PROVE RunnerInv'
   <2>1. task[t].pc = "idle" /\ stats' = stats /\ tally'.dropped = tally.dropped
     BY <1>7 DEF CallStop, At, Called
   <2>2. CASE Goes(t, "closing") BY <1>3, <2>1, <2>2 DEF PendingAt
   <2>3. CASE task' = [task EXCEPT ![t] = Idle] BY <1>5, <2>1, <2>3 DEF PendingAt
   <2> QED BY <1>7, <2>2, <2>3 DEF CallStop, BeginStop, NothingToStop
  <1>8. ASSUME NEW t \in Tasks, StopDone(t) PROVE RunnerInv'
    BY <1>5, <1>8 DEF StopDone, At, PendingAt
  <1>9. ASSUME NEW t \in Tasks, CallFeed(t) PROVE RunnerInv'
   <2>1. task[t].pc = "idle" /\ task[t].left = 0 BY <1>0, <1>9 DEF CallFeed, At, LeftInTick
   <2>2. tally'.dropped = tally.dropped /\ stats' = stats /\ Goes(t, "feeding")
     BY <1>9 DEF CallFeed, Called
   <2> QED BY <1>3, <2>1, <2>2 DEF PendingAt
  <1>10. ASSUME NEW t \in Tasks, NEW r \in Places, task' = [task EXCEPT ![t] = r],
                NEW ks \in SUBSET (Counters \ {"emitted"}), Count(ks),
                NEW n \in Nat, tally'.dropped = tally.dropped + n,
                Settles(ks, n, PendingAt(task[t]) - PendingAt(r)),
                r.pc \in {"idle", "opening", "feeding", "evaluating"} => r.left = 0,
                r.pc = "ordering" => r.left > 0
         PROVE  RunnerInv'
   <2>1. /\ stats' \in [Counters -> Nat]
         /\ \A k \in Counters : stats'[k] = stats[k] + IF k \in ks THEN 1 ELSE 0
     BY <1>0, <1>10, Counted
   <2>2. tally'.dropped \in Nat /\ stats["emitted"] \in Int /\ stats'["emitted"] = stats["emitted"]
     BY <1>0, <1>10, <2>1 DEF RunnerShape, Counters
   <2>3. PendingAt(r) \in Int /\ PendingAt(task[t]) \in Int
     BY <1>0 DEF PendingAt, Places, RunnerShape
   <2>4. Dealt' = Dealt + (PendingAt(task[t]) - PendingAt(r)) /\ Dealt \in Int
     BY <1>0, <1>10, <2>1, <2>3, DealtMoves DEF Settles
   <2>5. stats'["emitted"] - stats["emitted"] = (Dealt' - Dealt) + (PendingAt(r) - PendingAt(task[t]))
     BY <2>2, <2>3, <2>4
   <2> QED BY <1>10, <2>1, <2>2, <2>5, OneTaskMoves
  <1>11. ASSUME NEW t \in Tasks, LeaveFeed(t), NEW ks \in SUBSET (Counters \ {"emitted"}), Count(ks),
                NEW n \in Nat, tally'.dropped = tally.dropped + n,
                Settles(ks, n, PendingAt(task[t]))
         PROVE  RunnerInv'
   <2> PICK r \in Places : task' = [task EXCEPT ![t] = r] /\ r.pc \in {"idle", "closing"}
                            /\ (r.pc = "idle" => r.left = 0)
     BY <1>0, <1>11, Leaves
   <2>1. PendingAt(r) = 0 /\ PendingAt(task[t]) \in Int BY <1>0 DEF PendingAt, Places, RunnerShape
   <2>2. PendingAt(task[t]) - PendingAt(r) = PendingAt(task[t]) BY <2>1
   <2>3. Settles(ks, n, PendingAt(task[t]) - PendingAt(r)) BY <1>11, <2>2
   <2> QED BY <1>10, <1>11, <2>3
  <1>12. ASSUME NEW t \in Tasks, NextTick(t) PROVE RunnerInv'
   <2>1. task[t].pc = "feeding" /\ task[t].left = 0 /\ tally' = tally /\ PendingAt(task[t]) = 0
     BY <1>0, <1>12 DEF NextTick, At, LeftInTick, PendingAt
   <2>2. CASE LeaveFeed(t) /\ stats' = stats BY <1>2, <2>1, <2>2
   <2>3. CASE Count({"ticks"}) /\ Goes(t, "evaluating")
    <3> DEFINE r == [task[t] EXCEPT !.pc = "evaluating"]
    <3>1. r \in Places /\ r.pc = "evaluating" /\ r.left = task[t].left
      BY <1>0, NoneLeft DEF RunnerShape
    <3>2. task' = [task EXCEPT ![t] = r] BY <2>3 DEF Goes
    <3> HIDE DEF r
    <3>3. tally'.dropped = tally.dropped + 0 /\ PendingAt(r) = 0
      BY <1>0, <2>1, <3>1 DEF RunnerShape, PendingAt
    <3>4. {"ticks"} \in SUBSET (Counters \ {"emitted"}) /\ {"ticks"} \cap Buckets = {}
      BY DEF Counters, Buckets
    <3>5. Settles({"ticks"}, 0, PendingAt(task[t]) - PendingAt(r)) BY <2>1, <3>3, <3>4 DEF Settles
    <3> QED BY <1>10, <2>1, <2>3, <3>1, <3>2, <3>3, <3>4, <3>5
   <2> QED BY <1>12, <2>2, <2>3 DEF NextTick
  <1>13. ASSUME NEW t \in Tasks, FeedExhausted(t) PROVE RunnerInv'
    BY <1>2, <1>13 DEF FeedExhausted, At, PendingAt
  <1>14. ASSUME NEW t \in Tasks, EvaluateDone(t) PROVE RunnerInv'
   <2> PICK n \in 0..MaxSignals :
         /\ stats' = [stats EXCEPT !["evaluations"] = @ + 1, !["emitted"] = @ + n]
         /\ task' = [task EXCEPT ![t] = [pc |-> "routing", run |-> @.run, left |-> n]]
     BY <1>14 DEF EvaluateDone
   <2> DEFINE r == [pc |-> "routing", run |-> task[t].run, left |-> n]
   <2>1. r \in Places /\ r.pc = "routing" /\ r.left = n /\ n \in Nat
     BY <1>0, RunnerAssumption DEF RunnerShape, Places
   <2>2. task' = [task EXCEPT ![t] = r] OBVIOUS
   <2> HIDE DEF r
   <2>3. /\ stats' \in [Counters -> Nat] /\ stats'["emitted"] = stats["emitted"] + n
         /\ \A k \in Buckets : stats'[k] = stats[k]
     BY <1>0, <2>1 DEF RunnerShape, Counters, Buckets
   <2>4. tally' = tally /\ PendingAt(task[t]) = 0 /\ PendingAt(r) = n
     BY <1>14, <2>1 DEF EvaluateDone, At, PendingAt
   <2>5. Dealt' = Dealt /\ Dealt \in Int /\ stats["emitted"] \in Int /\ tally'.dropped \in Nat
     BY <1>0, <2>3, <2>4 DEF Dealt, RunnerShape, Counters, Buckets
   <2>6. stats'["emitted"] - stats["emitted"] = (Dealt' - Dealt) + (PendingAt(r) - PendingAt(task[t]))
     BY <2>1, <2>3, <2>4, <2>5
   <2> QED BY <2>1, <2>2, <2>3, <2>5, <2>6, OneTaskMoves
  <1>15. ASSUME NEW t \in Tasks, EvaluateFails(t) PROVE RunnerInv'
   <2>1. /\ task[t].pc = "evaluating" /\ task[t].left = 0 /\ PendingAt(task[t]) = 0
         /\ tally'.dropped = tally.dropped + 0
     BY <1>0, <1>15 DEF EvaluateFails, At, LeftInTick, PendingAt, RunnerShape
   <2>2. CASE Count({"errors"}) /\ LeaveFeed(t)
    <3>1. {"errors"} \in SUBSET (Counters \ {"emitted"}) /\ {"errors"} \cap Buckets = {}
      BY DEF Counters, Buckets
    <3> QED BY <1>11, <2>1, <2>2, <3>1 DEF Settles
   <2>3. CASE Count({"errors", "evaluations"}) /\ Goes(t, "routing")
    <3> DEFINE r == [task[t] EXCEPT !.pc = "routing"]
    <3>1. r \in Places /\ r.pc = "routing" /\ r.left = task[t].left
      BY <1>0, NoneLeft DEF RunnerShape
    <3>2. task' = [task EXCEPT ![t] = r] BY <2>3 DEF Goes
    <3> HIDE DEF r
    <3>3. PendingAt(r) = 0 BY <2>1, <3>1 DEF PendingAt
    <3> DEFINE ks == {"errors", "evaluations"}
    <3>4. ks \in SUBSET (Counters \ {"emitted"}) /\ ks \cap Buckets = {} BY DEF Counters, Buckets
    <3>5. Count(ks) BY <2>3
    <3> HIDE DEF ks
    <3>6. Settles(ks, 0, PendingAt(task[t]) - PendingAt(r)) BY <2>1, <3>3, <3>4 DEF Settles
    <3> QED BY <1>10, <2>1, <3>1, <3>2, <3>4, <3>5, <3>6
   <2> QED BY <1>15, <2>2, <2>3 DEF EvaluateFails
  <1>16. ASSUME NEW t \in Tasks, NEW ks \in SUBSET (Counters \ {"emitted"}), Count(ks),
                NEW k \in Buckets, ks \cap Buckets = {k},
                NEW place \in {"routing"}, task[t].pc \in {"routing", "ordering"}, task[t].left > 0,
                task' = [task EXCEPT ![t] = [pc |-> place, run |-> @.run, left |-> @.left - 1]],
                tally'.dropped = tally.dropped
         PROVE  RunnerInv'
   <2> DEFINE r == [pc |-> place, run |-> task[t].run, left |-> task[t].left - 1]
   <2>1. task[t] \in Places BY <1>0 DEF RunnerShape
   <2>2. r \in Places /\ r.pc = "routing" /\ r.left = task[t].left - 1 BY <1>16, <2>1 DEF Places
   <2>3. task' = [task EXCEPT ![t] = r] BY <1>16
   <2> HIDE DEF r
   <2>4. 1 + 0 = PendingAt(task[t]) - PendingAt(r) /\ tally'.dropped = tally.dropped + 0
     BY <1>0, <1>16, <2>1, <2>2 DEF PendingAt, Places, RunnerShape
   <2>5. Settles(ks, 0, PendingAt(task[t]) - PendingAt(r)) BY <1>16, <2>4 DEF Settles
   <2> QED BY <1>10, <1>16, <2>2, <2>3, <2>4, <2>5
  <1>17. ASSUME NEW t \in Tasks, NEW why \in {"hold", "noPrice"}, SkipSignal(t, why) PROVE RunnerInv'
   <2>1. /\ task[t].pc = "routing" /\ task[t].left > 0 /\ task[t] \in Places
         /\ task' = [task EXCEPT ![t].left = @ - 1] /\ tally' = tally /\ Count({why})
     BY <1>0, <1>17 DEF SkipSignal, At, RunnerShape
   <2>2. task' = [task EXCEPT ![t] = [pc |-> "routing", run |-> @.run, left |-> @.left - 1]]
    <3> DEFINE q == task[t]
    <3>1. q \in Places /\ q.pc = "routing" BY <2>1
    <3> HIDE DEF q
    <3>2. [q EXCEPT !.left = @ - 1] = [pc |-> "routing", run |-> q.run, left |-> q.left - 1]
      BY <3>1 DEF Places
    <3> QED BY <2>1, <3>2 DEF q
   <2>3. {why} \in SUBSET (Counters \ {"emitted"}) /\ why \in Buckets /\ {why} \cap Buckets = {why}
     BY DEF Counters, Buckets
   <2> QED BY <1>16, <2>1, <2>2, <2>3
  <1>18. ASSUME NEW t \in Tasks, PlaceOrder(t) PROVE RunnerInv' BY <1>3, <1>18 DEF PlaceOrder, At
  <1>19. ASSUME NEW t \in Tasks, NEW status \in Outcomes, OrderReturns(t, status) PROVE RunnerInv'
   <2>1. task[t].pc = "ordering" /\ task[t].left > 0 /\ tally' = tally /\ SignalDone(t)
         /\ Count({"routed"} \cup Bucket(status))
     BY <1>0, <1>19 DEF OrderReturns, At, LeftInTick
   <2>2. \E k \in {"filled", "rejected", "failed"} : Bucket(status) = {k} BY DEF Bucket, Outcomes
   <2> PICK k \in {"filled", "rejected", "failed"} : Bucket(status) = {k}
     BY <2>2
   <2> DEFINE ks == {"routed"} \cup {k}
   <2>3. ks \in SUBSET (Counters \ {"emitted"}) /\ k \in Buckets /\ ks \cap Buckets = {k}
     BY DEF Counters, Buckets
   <2>4. Count(ks) BY <2>1
   <2> HIDE DEF ks
   <2> QED BY <1>16, <2>1, <2>3, <2>4 DEF SignalDone
  <1>20. ASSUME NEW t \in Tasks, OrderRaises(t) PROVE RunnerInv'
   <2>1. task[t].pc = "ordering" /\ task[t].left > 0 /\ Count({"failed"}) /\ task[t].left \in Nat
     BY <1>0, <1>20 DEF OrderRaises, At, LeftInTick, RunnerShape, Places
   <2>2. {"failed"} \in SUBSET (Counters \ {"emitted"}) /\ "failed" \in Buckets
         /\ {"failed"} \cap Buckets = {"failed"}
     BY DEF Counters, Buckets
   <2>3. CASE SignalDone(t) /\ tally' = tally BY <1>16, <2>1, <2>2, <2>3 DEF SignalDone
   <2>4. CASE LeaveFeed(t) /\ tally' = [tally EXCEPT !.dropped = @ + task[t].left - 1]
    <3> DEFINE n == task[t].left - 1
    <3>1. n \in Nat /\ 1 + n = PendingAt(task[t]) BY <2>1 DEF PendingAt
    <3>2. tally'.dropped = tally.dropped + n BY <1>0, <2>1, <2>4 DEF RunnerShape
    <3> HIDE DEF n
    <3>3. Settles({"failed"}, n, PendingAt(task[t])) BY <2>2, <3>1 DEF Settles
    <3> QED BY <1>11, <2>1, <2>2, <2>4, <3>1, <3>2, <3>3
   <2> QED BY <1>20, <2>3, <2>4 DEF OrderRaises
  <1>21. ASSUME NEW t \in Tasks, TickDone(t) PROVE RunnerInv'
   <2>1. task[t].pc = "routing" /\ task[t].left = 0 /\ stats' = stats /\ tally' = tally
         /\ PendingAt(task[t]) = 0
     BY <1>21 DEF TickDone, At, PendingAt
   <2>2. Goes(t, "feeding") \/ LeaveFeed(t) BY <1>21 DEF TickDone
   <2> QED BY <1>2, <1>3, <2>1, <2>2
  <1>22. CASE UNCHANGED prVars
   <2>1. RunnerShape' /\ \A t \in Tasks : LeftInTick(t)'
     BY <1>0, <1>22 DEF prVars, RunnerShape, LeftInTick
   <2>2. Pending' = Pending /\ Dealt' = Dealt /\ stats' = stats BY <1>22 DEF prVars, Pending, Dealt
   <2>3. stats["emitted"] = Dealt + SumOn(Pending, Tasks) BY AccountedIs DEF RunnerInv
   <2>4. (stats["emitted"] = Dealt + SumOn(Pending, Tasks))' BY <2>2, <2>3
   <2>5. (SignalsAccounted <=> stats["emitted"] = Dealt + SumOn(Pending, Tasks))'
     BY AccountedIs, PTL
   <2>6. SignalsAccounted' BY <2>4, <2>5, PTL
   <2> QED BY <2>1, <2>6 DEF RunnerInv
  <1> QED
    BY <1>4, <1>6, <1>7, <1>8, <1>9, <1>12, <1>13, <1>14, <1>15, <1>17, <1>18, <1>19, <1>20, <1>21, <1>22
    DEF RunnerNext, FeedStep

----------------------------------------
(* The webhook dispatcher. *)

Rows == [status : {"none", "pending", "delivered", "failed"}, attempts : Nat,
         answer : {"none"} \cup Answers]
Sendings == [posts : Nat, last : {"none"} \cup Answers, ok : Nat]
HookTasks == [pc : {"idle", "next", "post", "over"}, todo : SUBSET Hooks, seen : [Hooks -> Nat],
              hook : Hooks \cup {0}]
HookConfigs == [active : BOOLEAN, retries : Nat, exists : BOOLEAN]

WebhookShape ==
    /\ whConfig \in [Hooks -> HookConfigs]
    /\ whTask \in [Dispatches -> HookTasks]
    /\ whTx \in [Dispatches -> [Hooks -> Rows]]
    /\ whRows \in [Dispatches -> [Hooks -> Rows]]
    /\ whSent \in [Dispatches -> [Hooks -> Sendings]]

Unsent == [posts |-> 0, last |-> "none", ok |-> 0]

\* A row tells what was posted and answered.
TellsOf(r, s) ==
    /\ r.status \in {"pending", "delivered", "failed"}
    /\ r.attempts = s.posts /\ r.answer = s.last
    /\ s.ok = IF r.status = "delivered" THEN 1 ELSE 0
    /\ r.status = "pending" => s.last \in {"none", "retryable", "network"}

(* What is known of one hook in one task: nothing is sent before its row is   *)
(* written, a row is pending while its hook is served only, and rows are      *)
(* committed at the end.                                                      *)
HookTold(d, c) ==
    LET t == whTask[d]
        r == whTx[d][c]
        s == whSent[d][c]
    IN
    /\ t.pc = "idle" \/ c \in t.todo => r = NoRow /\ s = Unsent
    /\ t.pc = "over" => r = NoRow
    /\ t.pc # "over" => whRows[d][c] = NoRow
    /\ t.pc = "post" /\ t.hook = c => r.status = "pending" /\ c \notin t.todo
    /\ r # NoRow => TellsOf(r, s)
    /\ r.status = "pending" => t.pc = "post" /\ t.hook = c
    /\ whRows[d][c] # NoRow => TellsOf(whRows[d][c], s) /\ whRows[d][c].status # "pending"

WebhookInv ==
    /\ WebhookShape
    /\ \A d \in Dispatches : whTask[d].pc = "post" => whTask[d].hook \in Hooks
    /\ \A d \in Dispatches, c \in Hooks : HookTold(d, c)

(* The records the dispatcher starts from have their shapes. *)
LEMMA FreshRecords ==
    /\ NoRow \in Rows /\ NoRow.status = "none" /\ NoRow.attempts = 0 /\ NoRow.answer = "none"
    /\ Unsent \in Sendings /\ Unsent.posts = 0 /\ Unsent.last = "none" /\ Unsent.ok = 0
    /\ NoHook \in HookConfigs
    /\ Fresh \in HookTasks /\ Fresh.pc = "idle" /\ Fresh.todo = {}
    /\ [Fresh EXCEPT !.pc = "over"] \in HookTasks
    /\ [Fresh EXCEPT !.pc = "over"].pc = "over" /\ [Fresh EXCEPT !.pc = "over"].todo = {}
  BY DEF NoRow, Row, Rows, Unsent, Sendings, NoHook, HookConfigs, Fresh, HookTasks

(* What an answer makes of a row: accepted, given up, or to be tried again. *)
LEMMA StatusFollowsAnswer ==
    ASSUME NEW a \in Answers, NEW last
    PROVE  /\ StatusAfter(a, last) \in {"pending", "delivered", "failed"}
           /\ (StatusAfter(a, last) = "delivered") = (a = "ok")
           /\ StatusAfter(a, last) = "pending" => a \in {"retryable", "network"}
  BY DEF StatusAfter, Answers

(* The tables after one attempt: the row and the history of one hook move on. *)
LEMMA PostMoves ==
    ASSUME WebhookShape, NEW d \in Dispatches, NEW a \in Answers, Post(d, a),
           whTask[d].hook \in Hooks
    PROVE  LET c == whTask[d].hook IN
           \E st \in {"pending", "delivered", "failed"} :
              /\ (st = "delivered") = (a = "ok")
              /\ st = "pending" => a \in {"retryable", "network"}
              /\ whSent' = [whSent EXCEPT ![d] = [@ EXCEPT ![c] =
                    [posts |-> whSent[d][c].posts + 1, last |-> a,
                     ok |-> whSent[d][c].ok + IF a = "ok" THEN 1 ELSE 0]]]
              /\ whTx' = [whTx EXCEPT ![d] = [@ EXCEPT ![c] = Row(st, whTx[d][c].attempts + 1, a)]]
              /\ whTask' = [whTask EXCEPT ![d] = [@ EXCEPT !.pc = IF st = "pending" THEN "post" ELSE "next"]]
  <1> DEFINE c == whTask[d].hook
             n == Attempts(whTx[d][c].attempts)
  <1>1. \E st : /\ \E last : st = StatusAfter(a, last)
                /\ whSent' = [whSent EXCEPT ![d][c] = [posts |-> @.posts + 1, last |-> a,
                                           ok |-> @.ok + IF a = "ok" THEN 1 ELSE 0]]
                /\ whTx' = [whTx EXCEPT ![d][c] = Row(st, n, a)]
                /\ whTask' = [whTask EXCEPT ![d].pc = IF st = "pending" THEN "post" ELSE "next"]
    BY Zenon DEF Post
  <1> PICK st : /\ \E last : st = StatusAfter(a, last)
                /\ whSent' = [whSent EXCEPT ![d][c] = [posts |-> @.posts + 1, last |-> a,
                                           ok |-> @.ok + IF a = "ok" THEN 1 ELSE 0]]
                /\ whTx' = [whTx EXCEPT ![d][c] = Row(st, n, a)]
                /\ whTask' = [whTask EXCEPT ![d].pc = IF st = "pending" THEN "post" ELSE "next"]
    BY <1>1, Zenon
  <1>2. /\ st \in {"pending", "delivered", "failed"}
        /\ (st = "delivered") = (a = "ok")
        /\ st = "pending" => a \in {"retryable", "network"}
   <2> PICK last : st = StatusAfter(a, last)
     OBVIOUS
   <2> QED BY StatusFollowsAnswer
  <1>3. n = whTx[d][c].attempts + 1 BY DEF Attempts
  <1>4. whTx' = [whTx EXCEPT ![d] = [@ EXCEPT ![c] = Row(st, whTx[d][c].attempts + 1, a)]] BY <1>3
  <1>5. whTask' = [whTask EXCEPT ![d] = [@ EXCEPT !.pc = IF st = "pending" THEN "post" ELSE "next"]]
    OBVIOUS
  <1>6. whSent' = [whSent EXCEPT ![d] = [@ EXCEPT ![c] =
                    [posts |-> whSent[d][c].posts + 1, last |-> a,
                     ok |-> whSent[d][c].ok + IF a = "ok" THEN 1 ELSE 0]]]
    OBVIOUS
  <1> QED BY <1>2, <1>4, <1>5, <1>6

(* Nothing has been sent when the dispatcher starts. *)
LEMMA WebhooksStart == WebhookInit => WebhookInv
  <1> SUFFICES ASSUME WebhookInit PROVE WebhookInv
    OBVIOUS
  <1>1. whTask = [d \in Dispatches |-> Fresh] /\ whTx = [d \in Dispatches |-> [c \in Hooks |-> NoRow]]
        /\ whRows = [d \in Dispatches |-> [c \in Hooks |-> NoRow]]
        /\ whSent = [d \in Dispatches |-> [c \in Hooks |-> Unsent]]
    BY DEF WebhookInit, NoRows, Unsent
  <1>2. whConfig \in [Hooks -> HookConfigs] BY WebhookAssumption DEF WebhookInit, HookConfigs
  <1>3. WebhookShape BY <1>1, <1>2, FreshRecords DEF WebhookShape
  <1>4. \A d \in Dispatches, c \in Hooks : HookTold(d, c) BY <1>1, FreshRecords DEF HookTold
  <1>5. \A d \in Dispatches : whTask[d].pc # "post" BY <1>1, FreshRecords
  <1> QED BY <1>3, <1>4, <1>5 DEF WebhookInv

(* What is known of a hook stays known when its task, rows and history stay. *)
LEMMA ToldStays ==
    ASSUME NEW d \in Dispatches, NEW c \in Hooks, HookTold(d, c),
           whTask'[d] = whTask[d], whTx'[d] = whTx[d], whSent'[d] = whSent[d],
           whRows'[d][c] = whRows[d][c] \/ whRows'[d][c] = NoRow
    PROVE  HookTold(d, c)'
  BY DEF HookTold

(* A task that ends without a commit leaves nothing behind. *)
LEMMA AbortKeeps ==
    ASSUME WebhookInv, NEW d \in Dispatches, Abort(d),
           UNCHANGED <<whConfig, whRows, whSent>>, whTask[d].pc \in {"next", "post"}
    PROVE  WebhookInv'
  <1> DEFINE t == [Fresh EXCEPT !.pc = "over"]
  <1>1. t \in HookTasks /\ t.pc = "over" /\ t.todo = {} /\ NoRow \in Rows BY FreshRecords
  <1>2. whTask' = [whTask EXCEPT ![d] = t] /\ whTx' = [whTx EXCEPT ![d] = [c \in Hooks |-> NoRow]]
    BY DEF Abort, NoRows
  <1>0. WebhookShape /\ \A e \in Dispatches, c \in Hooks : HookTold(e, c) BY DEF WebhookInv
  <1> HIDE DEF t
  <1>3. whTask'[d] = t /\ \A c \in Hooks : whTx'[d][c] = NoRow BY <1>0, <1>2 DEF WebhookShape
  <1>4. \A e \in Dispatches \ {d} : whTask'[e] = whTask[e] /\ whTx'[e] = whTx[e]
    BY <1>0, <1>2 DEF WebhookShape
  <1>5. WebhookShape' BY <1>0, <1>1, <1>2 DEF WebhookShape
  <1>6. ASSUME NEW c \in Hooks PROVE HookTold(d, c)'
   <2>1. whRows[d][c] = NoRow BY <1>0 DEF HookTold
   <2> QED BY <1>1, <1>3, <2>1, FreshRecords DEF HookTold
  <1>7. ASSUME NEW e \in Dispatches \ {d}, NEW c \in Hooks PROVE HookTold(e, c)'
    BY <1>0, <1>4, ToldStays
  <1>8. \A e \in Dispatches : whTask'[e].pc = "post" => whTask'[e].hook \in Hooks
    BY <1>1, <1>3, <1>4 DEF WebhookInv
  <1> QED BY <1>5, <1>6, <1>7, <1>8 DEF WebhookInv

(* Every step of a dispatch, and every edit, keeps rows and history together. *)
LEMMA WebhookSteps == WebhookInv /\ [WebhookNext]_whVars => WebhookInv'
  <1> SUFFICES ASSUME WebhookInv, [WebhookNext]_whVars PROVE WebhookInv'
    OBVIOUS
  <1>0. /\ WebhookShape
        /\ \A d \in Dispatches, c \in Hooks : HookTold(d, c)
        /\ \A d \in Dispatches : whTask[d].pc = "post" => whTask[d].hook \in Hooks
    BY DEF WebhookInv
  <1>1. ASSUME NEW d \in Dispatches, NEW cs \in SUBSET Hooks, whTask[d].pc = "idle",
               whTask' = [whTask EXCEPT ![d] = Reads(cs)],
               UNCHANGED <<whConfig, whTx, whRows, whSent>>
        PROVE  WebhookInv'
   <2> DEFINE t == Reads(cs)
   <2>1. t \in HookTasks /\ t.pc = "next" BY <1>0 DEF Reads, HookTasks, WebhookShape, HookConfigs
   <2> HIDE DEF t
   <2>2. whTask'[d] = t /\ \A e \in Dispatches \ {d} : whTask'[e] = whTask[e]
     BY <1>0, <1>1 DEF WebhookShape, t
   <2>3. WebhookShape' BY <1>0, <1>1, <2>1 DEF WebhookShape, t
   <2>4. ASSUME NEW c \in Hooks PROVE HookTold(d, c)'
    <3>1. whTx[d][c] = NoRow /\ whSent[d][c] = Unsent /\ whRows[d][c] = NoRow
      BY <1>0, <1>1 DEF HookTold
    <3> QED BY <1>1, <2>1, <2>2, <3>1, FreshRecords DEF HookTold
   <2>5. ASSUME NEW e \in Dispatches \ {d}, NEW c \in Hooks PROVE HookTold(e, c)'
     BY <1>0, <1>1, <2>2, ToldStays
   <2>6. \A e \in Dispatches : whTask'[e].pc = "post" => whTask'[e].hook \in Hooks
     BY <1>0, <2>1, <2>2
   <2> QED BY <2>3, <2>4, <2>5, <2>6 DEF WebhookInv
  <1>2. ASSUME NEW d \in Dispatches, OnEvent(d) PROVE WebhookInv'
   <2> DEFINE cs == {c \in Hooks : whConfig[c].active}
   <2>1. cs \in SUBSET Hooks OBVIOUS
   <2> HIDE DEF cs
   <2> QED BY <1>1, <1>2, <2>1 DEF OnEvent, AtHook, cs
  <1>3. ASSUME NEW d \in Dispatches, NEW c \in Hooks, TestWebhook(d, c) PROVE WebhookInv'
    BY <1>1, <1>3 DEF TestWebhook, AtHook
  <1>4. ASSUME NEW d \in Dispatches, NEW c \in Hooks, StartDelivery(d, c) PROVE WebhookInv'
   <2>1. CASE Abort(d) BY <1>4, <2>1, AbortKeeps DEF StartDelivery, AtHook
   <2>2. CASE ~Abort(d)
    <3> DEFINE old == whTask[d]
               t == [old EXCEPT !.pc = "post", !.todo = @ \ {c}, !.hook = c]
               r == Row("pending", 0, "none")
    <3>1. whTask' = [whTask EXCEPT ![d] = t] /\ whTx' = [whTx EXCEPT ![d] = [@ EXCEPT ![c] = r]]
          /\ UNCHANGED <<whConfig, whRows, whSent>> /\ old.pc = "next" /\ c \in old.todo
     <4>0. whTask' = [whTask EXCEPT ![d] = [whTask[d] EXCEPT !.pc = "post", !.todo = @ \ {c}, !.hook = c]]
       BY <1>4, <2>2, Zenon DEF StartDelivery
     <4>1. whTask' = [whTask EXCEPT ![d] = t] BY <4>0, Zenon
     <4>2. whTx' = [whTx EXCEPT ![d][c] = r] BY <1>4, <2>2, Zenon DEF StartDelivery
     <4> QED BY <1>4, <4>1, <4>2 DEF StartDelivery, AtHook
    <3>2. old \in HookTasks BY <1>0 DEF WebhookShape
    <3>3. t \in HookTasks /\ t.pc = "post" /\ t.todo = old.todo \ {c} /\ t.hook = c
      BY <3>2 DEF HookTasks
    <3>4. r \in Rows /\ r.status = "pending" /\ r.attempts = 0 /\ r.answer = "none" BY DEF Row, Rows
    <3> HIDE DEF t, r
    <3>5. whTask'[d] = t /\ whTx'[d][c] = r
          /\ \A e \in Hooks \ {c} : whTx'[d][e] = whTx[d][e]
      BY <1>0, <3>1 DEF WebhookShape
    <3>6. \A e \in Dispatches \ {d} : whTask'[e] = whTask[e] /\ whTx'[e] = whTx[e]
      BY <1>0, <3>1 DEF WebhookShape
    <3>7. WebhookShape'
     <4>1. [whTx[d] EXCEPT ![c] = r] \in [Hooks -> Rows] BY <1>0, <3>4 DEF WebhookShape
     <4> QED BY <1>0, <3>1, <3>3, <4>1 DEF WebhookShape
    <3>8. HookTold(d, c)'
     <4>1. whSent'[d][c] = Unsent /\ whRows'[d][c] = NoRow BY <1>0, <3>1 DEF HookTold
     <4> QED BY <3>3, <3>4, <3>5, <4>1, FreshRecords DEF HookTold, TellsOf
    <3>9. ASSUME NEW e \in Hooks \ {c} PROVE HookTold(d, e)'
     <4>1. HookTold(d, e) /\ whSent'[d][e] = whSent[d][e] /\ whRows'[d][e] = whRows[d][e]
       BY <1>0, <3>1
     <4>2. whTx[d][e].status # "pending" BY <3>1, <4>1 DEF HookTold
     <4> QED BY <3>1, <3>3, <3>5, <3>9, <4>1, <4>2 DEF HookTold
    <3>10. ASSUME NEW e \in Dispatches \ {d}, NEW h \in Hooks PROVE HookTold(e, h)'
      BY <1>0, <3>1, <3>6, ToldStays
    <3>11. \A e \in Dispatches : whTask'[e].pc = "post" => whTask'[e].hook \in Hooks
      BY <1>0, <3>3, <3>5, <3>6
    <3> QED BY <3>7, <3>8, <3>9, <3>10, <3>11 DEF WebhookInv
   <2> QED BY <2>1, <2>2
  <1>5. ASSUME NEW d \in Dispatches, NEW a \in Answers, Post(d, a) PROVE WebhookInv'
   <2>a. whTask[d].hook \in Hooks BY <1>0, <1>5 DEF Post, AtHook
   <2> PICK c \in Hooks : c = whTask[d].hook
     BY <2>a
   <2> DEFINE old == whSent[d][c]
              s == [posts |-> old.posts + 1, last |-> a, ok |-> old.ok + IF a = "ok" THEN 1 ELSE 0]
   <2>0. c = whTask[d].hook /\ whTask[d].pc = "post" /\ whRows' = whRows /\ whConfig' = whConfig
     BY <1>0, <1>5 DEF Post, AtHook
   <2> PICK st \in {"pending", "delivered", "failed"} :
             /\ (st = "delivered") = (a = "ok")
             /\ st = "pending" => a \in {"retryable", "network"}
             /\ whSent' = [whSent EXCEPT ![d] = [@ EXCEPT ![c] = s]]
             /\ whTx' = [whTx EXCEPT ![d] = [@ EXCEPT ![c] = Row(st, whTx[d][c].attempts + 1, a)]]
             /\ whTask' = [whTask EXCEPT ![d] = [@ EXCEPT !.pc = IF st = "pending" THEN "post" ELSE "next"]]
     BY <1>0, <1>5, <2>0, PostMoves
   <2> DEFINE r == Row(st, whTx[d][c].attempts + 1, a)
              was == whTask[d]
              t == [was EXCEPT !.pc = IF st = "pending" THEN "post" ELSE "next"]
   <2>1. old \in Sendings /\ whTx[d][c] \in Rows /\ was \in HookTasks BY <1>0, <2>0 DEF WebhookShape
   <2>2. s \in Sendings /\ s.posts = old.posts + 1 /\ s.last = a
         /\ s.ok = old.ok + IF a = "ok" THEN 1 ELSE 0
     BY <2>1 DEF Sendings
   <2>3. r \in Rows /\ r.status = st /\ r.attempts = whTx[d][c].attempts + 1 /\ r.answer = a
     BY <2>1 DEF Row, Rows
   <2>4. t \in HookTasks /\ t.pc = (IF st = "pending" THEN "post" ELSE "next")
         /\ t.todo = was.todo /\ t.hook = was.hook
     BY <2>1 DEF HookTasks
   <2>5. whSent' = [whSent EXCEPT ![d] = [@ EXCEPT ![c] = s]]
         /\ whTx' = [whTx EXCEPT ![d] = [@ EXCEPT ![c] = r]]
         /\ whTask' = [whTask EXCEPT ![d] = t]
     OBVIOUS
   <2> HIDE DEF s, r, t
   <2>6. whTask'[d] = t /\ whTx'[d][c] = r /\ whSent'[d][c] = s
         /\ \A e \in Hooks \ {c} : whTx'[d][e] = whTx[d][e] /\ whSent'[d][e] = whSent[d][e]
     BY <1>0, <2>0, <2>5 DEF WebhookShape
   <2>7. \A e \in Dispatches \ {d} : whTask'[e] = whTask[e] /\ whTx'[e] = whTx[e] /\ whSent'[e] = whSent[e]
     BY <1>0, <2>5 DEF WebhookShape
   <2>8. WebhookShape'
    <3>1. [whTx[d] EXCEPT ![c] = r] \in [Hooks -> Rows] /\ [whSent[d] EXCEPT ![c] = s] \in [Hooks -> Sendings]
      BY <1>0, <2>2, <2>3 DEF WebhookShape
    <3> QED
     <4>1. whTask' \in [Dispatches -> HookTasks] BY <1>0, <2>4, <2>5 DEF WebhookShape
     <4>2. whTx' \in [Dispatches -> [Hooks -> Rows]] BY <1>0, <2>5, <3>1 DEF WebhookShape
     <4>3. whSent' \in [Dispatches -> [Hooks -> Sendings]] BY <1>0, <2>5, <3>1 DEF WebhookShape
     <4> QED BY <1>0, <2>0, <4>1, <4>2, <4>3 DEF WebhookShape
   <2>9. HookTold(d, c)'
    <3>1. /\ whTx[d][c].status = "pending" /\ c \notin was.todo
          /\ TellsOf(whTx[d][c], old) /\ whRows'[d][c] = NoRow
      BY <1>0, <2>0, FreshRecords DEF HookTold
    <3>2. TellsOf(r, s) BY <2>1, <2>2, <2>3, <3>1 DEF TellsOf, Rows, Sendings, Answers
    <3> QED BY <2>0, <2>3, <2>4, <2>6, <3>1, <3>2, FreshRecords DEF HookTold
   <2>10. ASSUME NEW e \in Hooks \ {c} PROVE HookTold(d, e)'
    <3>1. HookTold(d, e) /\ whRows'[d][e] = whRows[d][e] BY <1>0, <2>0
    <3>2. whTx[d][e].status # "pending" BY <2>0, <3>1, <2>10 DEF HookTold
    <3> QED BY <2>0, <2>4, <2>6, <2>10, <3>1, <3>2 DEF HookTold
   <2>11. ASSUME NEW e \in Dispatches \ {d}, NEW h \in Hooks PROVE HookTold(e, h)'
     BY <1>0, <2>0, <2>7, ToldStays
   <2>12. \A e \in Dispatches : whTask'[e].pc = "post" => whTask'[e].hook \in Hooks
     BY <1>0, <2>0, <2>4, <2>6, <2>7
   <2> QED BY <2>8, <2>9, <2>10, <2>11, <2>12 DEF WebhookInv
  <1>6. ASSUME NEW d \in Dispatches, DispatchRaises(d) PROVE WebhookInv'
    BY <1>6, AbortKeeps DEF DispatchRaises, AtHook
  <1>7. ASSUME NEW d \in Dispatches, Commit(d) PROVE WebhookInv'
   <2> DEFINE t == [Fresh EXCEPT !.pc = "over"]
   <2>1. t \in HookTasks /\ t.pc = "over" /\ t.todo = {} /\ NoRow \in Rows BY FreshRecords
   <2>2. whTask' = [whTask EXCEPT ![d] = t] /\ whTx' = [whTx EXCEPT ![d] = [c \in Hooks |-> NoRow]]
         /\ whRows' = [whRows EXCEPT ![d] = whTx[d]] /\ whConfig' = whConfig /\ whSent' = whSent
         /\ whTask[d].pc = "next"
     BY <1>7 DEF Commit, AtHook, NoRows
   <2> HIDE DEF t
   <2>3. whTask'[d] = t /\ \A c \in Hooks : whTx'[d][c] = NoRow /\ whRows'[d][c] = whTx[d][c]
     BY <1>0, <2>2 DEF WebhookShape
   <2>4. \A e \in Dispatches \ {d} : whTask'[e] = whTask[e] /\ whTx'[e] = whTx[e] /\ whRows'[e] = whRows[e]
     BY <1>0, <2>2 DEF WebhookShape
   <2>5. WebhookShape' BY <1>0, <2>1, <2>2 DEF WebhookShape
   <2>6. ASSUME NEW c \in Hooks PROVE HookTold(d, c)'
    <3>1. HookTold(d, c) BY <1>0
    <3>2. whTx[d][c] # NoRow => TellsOf(whTx[d][c], whSent[d][c]) /\ whTx[d][c].status # "pending"
      BY <2>2, <3>1 DEF HookTold
    <3> QED BY <2>1, <2>2, <2>3, <3>2, FreshRecords DEF HookTold
   <2>7. ASSUME NEW e \in Dispatches \ {d}, NEW c \in Hooks PROVE HookTold(e, c)'
     BY <1>0, <2>2, <2>4, ToldStays
   <2>8. \A e \in Dispatches : whTask'[e].pc = "post" => whTask'[e].hook \in Hooks
     BY <1>0, <2>1, <2>3, <2>4
   <2> QED BY <2>5, <2>6, <2>7, <2>8 DEF WebhookInv
  <1>8. ASSUME NEW c \in Hooks, NEW v \in HookConfigs, whConfig' = [whConfig EXCEPT ![c] = v],
               UNCHANGED <<whTask, whTx, whSent>>,
               \/ whRows' = whRows
               \/ whRows' = [d \in Dispatches |-> [whRows[d] EXCEPT ![c] = NoRow]]
        PROVE  WebhookInv'
   <2>a. whConfig' \in [Hooks -> HookConfigs] BY <1>0, <1>8 DEF WebhookShape
   <2>b. whRows' \in [Dispatches -> [Hooks -> Rows]]
    <3>1. \A d \in Dispatches : [whRows[d] EXCEPT ![c] = NoRow] \in [Hooks -> Rows]
      BY <1>0, FreshRecords DEF WebhookShape
    <3>2. CASE whRows' = whRows BY <1>0, <3>2 DEF WebhookShape
    <3>3. CASE whRows' = [d \in Dispatches |-> [whRows[d] EXCEPT ![c] = NoRow]] BY <3>1, <3>3
    <3> QED BY <1>8, <3>2, <3>3
   <2>1. WebhookShape' BY <1>0, <1>8, <2>a, <2>b DEF WebhookShape
   <2>2. \A d \in Dispatches, h \in Hooks : whRows'[d][h] = whRows[d][h] \/ whRows'[d][h] = NoRow
     BY <1>0, <1>8 DEF WebhookShape
   <2>3. ASSUME NEW d \in Dispatches, NEW h \in Hooks PROVE HookTold(d, h)'
     BY <1>0, <1>8, <2>2, ToldStays
   <2> QED BY <1>0, <1>8, <2>1, <2>3 DEF WebhookInv
  <1>9. ASSUME NEW c \in Hooks, NEW active \in BOOLEAN, NEW r \in Retries, UpdateWebhook(c, active, r)
        PROVE  WebhookInv'
   <2> DEFINE old == whConfig[c]
              v == [old EXCEPT !.active = active, !.retries = r]
   <2>1. old \in HookConfigs /\ r \in Nat BY <1>0, WebhookAssumption DEF WebhookShape
   <2>2. v \in HookConfigs BY <2>1 DEF HookConfigs
   <2>3. whConfig' = [whConfig EXCEPT ![c] = v] BY <1>0, <1>9 DEF UpdateWebhook, WebhookShape
   <2> HIDE DEF v
   <2> QED BY <1>8, <1>9, <2>2, <2>3 DEF UpdateWebhook
  <1>10. ASSUME NEW c \in Hooks, DeleteWebhook(c) PROVE WebhookInv'
    BY <1>8, <1>10, FreshRecords DEF DeleteWebhook
  <1>11. CASE UNCHANGED whVars BY <1>0, <1>11 DEF WebhookInv, WebhookShape, HookTold, whVars
  <1> QED BY <1>2, <1>3, <1>4, <1>5, <1>6, <1>7, <1>9, <1>10, <1>11 DEF WebhookNext, DispatchStep

(* Committed rows are true, and there are none before the task ends. *)
LEMMA RowsTrue == WebhookInv => RowsTellTheTruth /\ RowsAppearTogether
  <1> SUFFICES ASSUME WebhookInv PROVE RowsTellTheTruth /\ RowsAppearTogether
    OBVIOUS
  <1>1. RowsTellTheTruth BY DEF WebhookInv, HookTold, RowsTellTheTruth, TellsOf
  <1>2. RowsAppearTogether
   <2>1. ASSUME NEW d \in Dispatches, whTask[d].pc # "over" PROVE whRows[d] = NoRows
    <3>1. whRows[d] \in [Hooks -> Rows] /\ \A c \in Hooks : whRows[d][c] = NoRow
      BY <2>1 DEF WebhookInv, WebhookShape, HookTold
    <3> QED BY <3>1 DEF NoRows
   <2> QED BY <2>1 DEF RowsAppearTogether
  <1> QED BY <1>1, <1>2

(* A receiver that gave a final answer gets no further POST of the event. *)
LEMMA PostsStop ==
    ASSUME WebhookInv, [WebhookNext]_whVars
    PROVE  \A d \in Dispatches, c \in Hooks :
              whSent'[d][c].posts > whSent[d][c].posts =>
                 whSent[d][c].last \in {"none", "retryable", "network"}
  <1> SUFFICES ASSUME NEW d \in Dispatches, NEW c \in Hooks, whSent'[d][c].posts > whSent[d][c].posts
               PROVE  whSent[d][c].last \in {"none", "retryable", "network"}
    OBVIOUS
  <1>0. /\ WebhookShape /\ HookTold(d, c)
        /\ \A e \in Dispatches : whTask[e].pc = "post" => whTask[e].hook \in Hooks
        /\ whSent[d][c].posts \in Nat
    BY DEF WebhookInv, WebhookShape, Sendings
  <1>1. whSent' # whSent BY <1>0
  <1>2. PICK e \in Dispatches, a \in Answers : Post(e, a)
    BY <1>1 DEF WebhookNext, DispatchStep, OnEvent, TestWebhook, StartDelivery, DispatchRaises, Commit,
                UpdateWebhook, DeleteWebhook, whVars
  <1>3. whTask[e].pc = "post" /\ whTask[e].hook \in Hooks BY <1>0, <1>2 DEF Post, AtHook
  <1>4. e = d /\ whTask[e].hook = c
   <2> DEFINE h == whTask[e].hook
              s == [posts |-> whSent[e][h].posts + 1, last |-> a,
                    ok |-> whSent[e][h].ok + IF a = "ok" THEN 1 ELSE 0]
   <2>1. whSent' = [whSent EXCEPT ![e] = [@ EXCEPT ![h] = s]] BY <1>0, <1>2, <1>3, PostMoves
   <2>2. h \in Hooks BY <1>3
   <2> HIDE DEF h, s
   <2>3. e = d /\ h = c BY <1>0, <2>1, <2>2 DEF WebhookShape
   <2> QED BY <2>3 DEF h
  <1> QED BY <1>0, <1>3, <1>4, FreshRecords DEF HookTold, TellsOf

----------------------------------------
(* The backtest jobs. *)

Outcome == {"completed", "failed"}

Results == [status : {"not_found", "running"} \cup Outcome, at : Nat]

(* An entry tells of a run that is under way, or how the run ended, for as   *)
(* long as the time to live from the moment it ended.                        *)
EntryOf(j) ==
    /\ bjEndedAt[j] # -1 =>
          /\ bjApi[j] = "ended"
          /\ bjEndedAt[j] \in Nat /\ bjEndedAt[j] <= bjTime
          /\ \/ bjResults[j].status \in Outcome /\ bjResults[j].at = bjEndedAt[j]
             \/ bjTime - bjEndedAt[j] > ResultsTtl
    /\ bjResults[j].status \in Outcome => bjApi[j] = "ended"
    /\ bjTold[j] \in Outcome =>
          bjApi[j] = "ended" /\ bjResults[j].status \in {bjTold[j], "not_found"}

JobsShape ==
    /\ bjApi \in [ApiJobs -> {"new", "accepted", "running", "ended"}]
    /\ bjResults \in [ApiJobs -> Results]
    /\ bjTold \in [ApiJobs -> {"nothing", "not_found", "running"} \cup Outcome]
    /\ bjEndedAt \in [ApiJobs -> Int]
    /\ bjTime \in Nat

JobsInv == JobsShape /\ \A j \in ApiJobs : EntryOf(j)

(* Eviction keeps the shape of entries and forgets those that have expired only. *)
LEMMA Evicted ==
    ASSUME NEW res \in [ApiJobs -> Results], bjTime \in Nat
    PROVE  /\ EvictExpired(res) \in [ApiJobs -> Results]
           /\ \A j \in ApiJobs : \/ EvictExpired(res)[j] = res[j]
                                 \/ /\ EvictExpired(res)[j].status = "not_found"
                                    /\ bjTime - res[j].at > ResultsTtl
  <1>1. NoResult \in Results /\ NoResult.status = "not_found" BY DEF NoResult, Results
  <1> HIDE DEF NoResult, Results
  <1> QED BY <1>1 DEF EvictExpired

(* Nothing has been accepted when the processes start. *)
LEMMA JobsStart == JobsInit => JobsInv
  BY DEF JobsInit, JobsInv, JobsShape, EntryOf, Results, Outcome, NoResult

(* What a step does to a job that it does not name: its entry may expire. *)
LEMMA OthersExpire ==
    ASSUME JobsInv, NEW j \in ApiJobs, NEW res \in [ApiJobs -> Results],
           res[j] = bjResults[j], bjResults' = EvictExpired(res) \/ bjResults' = res,
           bjApi'[j] = bjApi[j], bjEndedAt'[j] = bjEndedAt[j], bjTime' = bjTime,
           \/ bjTold'[j] = bjTold[j]
           \/ bjTold'[j] = bjResults'[j].status
    PROVE  EntryOf(j)'
  <1>1. bjResults[j] \in Results /\ bjTime \in Nat BY DEF JobsInv, JobsShape
  <1>2. \/ bjResults'[j] = bjResults[j]
        \/ bjResults'[j].status = "not_found" /\ bjTime - bjResults[j].at > ResultsTtl
    BY <1>1, Evicted
  <1>3. bjTold'[j] \in Outcome => bjTold'[j] = bjTold[j] \/ bjTold'[j] = bjResults'[j].status
    OBVIOUS
  <1>4. EntryOf(j) BY DEF JobsInv
  <1>5. "not_found" \notin Outcome BY DEF Outcome
  <1> QED BY <1>1, <1>2, <1>3, <1>4, <1>5 DEF EntryOf

(* Every step of the API, the queue and the workers keeps entries truthful. *)
LEMMA JobsSteps == JobsInv /\ [JobsNext]_bjVars => JobsInv'
  <1> SUFFICES ASSUME JobsInv, [JobsNext]_bjVars PROVE JobsInv'
    OBVIOUS
  <1> USE JobsAssumption
  <1>0. JobsShape /\ \A j \in ApiJobs : EntryOf(j) BY DEF JobsInv
  <1>1. ASSUME NEW j \in ApiJobs, AcceptBacktest(j) PROVE JobsInv'
   <2>1. JobsShape' BY <1>0, <1>1 DEF AcceptBacktest, JobsShape, queueVars
   <2>2. ASSUME NEW k \in ApiJobs PROVE EntryOf(k)'
     BY <1>0, <1>1, <2>2 DEF AcceptBacktest, JobsShape, EntryOf
   <2> QED BY <2>1, <2>2 DEF JobsInv
  <1>2. ASSUME NEW j \in ApiJobs, BackgroundStarts(j) PROVE JobsInv'
   <2> DEFINE e == [status |-> "running", at |-> bjTime]
   <2>1. e \in Results /\ e.status = "running" BY <1>0 DEF Results, JobsShape
   <2> HIDE DEF e
   <2>2. JobsShape' BY <1>0, <1>2, <2>1 DEF BackgroundStarts, JobsShape, e
   <2>3. ASSUME NEW k \in ApiJobs PROVE EntryOf(k)'
    <3>1. CASE k = j
     <4>1. bjEndedAt[j] = -1 /\ bjTold[j] \notin Outcome BY <1>0, <1>2 DEF BackgroundStarts, EntryOf
     <4>2. bjResults'[k].status = "running" /\ bjEndedAt' = bjEndedAt /\ bjTold' = bjTold
       BY <1>0, <1>2, <2>1, <3>1 DEF BackgroundStarts, JobsShape, e
     <4> QED BY <3>1, <4>1, <4>2 DEF EntryOf, Outcome
    <3>2. CASE k # j BY <1>0, <1>2, <2>3, <3>2 DEF BackgroundStarts, JobsShape, EntryOf
    <3> QED BY <3>1, <3>2
   <2> QED BY <2>2, <2>3 DEF JobsInv
  <1>3. ASSUME NEW j \in ApiJobs, BackgroundEnds(j) PROVE JobsInv'
   <2> PICK status \in Outcome :
         \/ bjResults' = EvictExpired([bjResults EXCEPT ![j] = Finished(j, status)])
         \/ bjResults' = [bjResults EXCEPT ![j] = Finished(j, status)]
     BY <1>3 DEF BackgroundEnds, Outcome
   <2> DEFINE res == [bjResults EXCEPT ![j] = Finished(j, status)]
   <2>1. Finished(j, status) \in Results /\ Finished(j, status).status = status
         /\ Finished(j, status).at = bjTime
     BY <1>0 DEF Results, JobsShape, Finished
   <2>2. res \in [ApiJobs -> Results] /\ res[j] = Finished(j, status)
         /\ \A k \in ApiJobs \ {j} : res[k] = bjResults[k]
     BY <1>0, <2>1 DEF JobsShape
   <2>3. bjResults' = EvictExpired(res) \/ bjResults' = res OBVIOUS
   <2> HIDE DEF res
   <2>4. bjResults' \in [ApiJobs -> Results] BY <1>0, <2>2, <2>3, Evicted DEF JobsShape
   <2>5. JobsShape'
    <3>1. /\ bjApi' = [bjApi EXCEPT ![j] = "ended"]
          /\ bjEndedAt' = [bjEndedAt EXCEPT ![j] = bjTime]
          /\ bjTold' = bjTold /\ bjTime' = bjTime
      BY <1>3 DEF BackgroundEnds
    <3> QED BY <1>0, <2>4, <3>1 DEF JobsShape
   <2>6. EntryOf(j)'
    <3>1. bjResults'[j] = Finished(j, status)
     <4>1. ~(bjTime - res[j].at > ResultsTtl) BY <1>0, <2>1, <2>2 DEF JobsShape
     <4>2. EvictExpired(res)[j] = res[j] BY <1>0, <2>2, <4>1 DEF EvictExpired
     <4> QED BY <2>2, <2>3, <4>2
    <3>2. bjApi'[j] = "ended" /\ bjEndedAt'[j] = bjTime /\ bjTold' = bjTold /\ bjTime' = bjTime
          /\ bjApi[j] = "running"
      BY <1>0, <1>3 DEF BackgroundEnds, JobsShape
    <3>3. bjTold[j] \notin Outcome BY <1>0, <3>2 DEF EntryOf
    <3> QED BY <1>0, <2>1, <3>1, <3>2, <3>3 DEF EntryOf, JobsShape
   <2>7. ASSUME NEW k \in ApiJobs \ {j} PROVE EntryOf(k)'
    <3>1. bjApi'[k] = bjApi[k] /\ bjEndedAt'[k] = bjEndedAt[k] /\ bjTold' = bjTold /\ bjTime' = bjTime
      BY <1>0, <1>3 DEF BackgroundEnds, JobsShape
    <3> QED BY <2>2, <2>3, <3>1, OthersExpire
   <2> QED BY <2>5, <2>6, <2>7 DEF JobsInv
  <1>4. ASSUME NEW j \in ApiJobs, PollResult(j) PROVE JobsInv'
   <2>1. bjResults' \in [ApiJobs -> Results] BY <1>0, <1>4, Evicted DEF PollResult, JobsShape
   <2>2. bjResults'[j].status \in {"not_found", "running"} \cup Outcome BY <2>1 DEF Results
   <2>3. JobsShape' BY <1>0, <1>4, <2>1, <2>2 DEF PollResult, JobsShape
   <2>4. ASSUME NEW k \in ApiJobs PROVE EntryOf(k)'
    <3>1. bjResults \in [ApiJobs -> Results] /\ bjTime' = bjTime /\ bjApi' = bjApi
          /\ bjEndedAt' = bjEndedAt /\ bjResults' = EvictExpired(bjResults)
          /\ (bjTold'[k] = bjTold[k] \/ bjTold'[k] = bjResults'[k].status)
      BY <1>0, <1>4 DEF PollResult, JobsShape
    <3> QED BY <3>1, OthersExpire
   <2> QED BY <2>3, <2>4 DEF JobsInv
  <1>5. CASE ApiRestarts
   <2>1. NoResult \in Results /\ NoResult.status \notin Outcome /\ "nothing" \notin Outcome
     BY DEF NoResult, Results, Outcome
   <2>2. bjResults' = [k \in ApiJobs |-> NoResult] /\ bjTold' = [k \in ApiJobs |-> "nothing"]
         /\ bjEndedAt' = [k \in ApiJobs |-> -1] /\ bjTime' = bjTime
         /\ bjApi' = [k \in ApiJobs |-> IF bjApi[k] = "new" THEN "new" ELSE "ended"]
     BY <1>5 DEF ApiRestarts
   <2> HIDE DEF NoResult
   <2>3. JobsShape' BY <1>0, <2>1, <2>2 DEF JobsShape
   <2>4. \A k \in ApiJobs : EntryOf(k)' BY <2>1, <2>2 DEF EntryOf
   <2> QED BY <2>3, <2>4 DEF JobsInv
  <1>6. CASE JobClock
   <2>1. JobsShape' BY <1>0, <1>6 DEF JobClock, JobsShape, apiVars
   <2>2. ASSUME NEW k \in ApiJobs PROVE EntryOf(k)'
     BY <1>0, <1>6, <2>2 DEF JobClock, JobsShape, apiVars, EntryOf
   <2> QED BY <2>1, <2>2 DEF JobsInv
  <1>7. CASE UNCHANGED <<apiVars, bjTime>> BY <1>0, <1>7 DEF JobsInv, JobsShape, EntryOf, apiVars
  <1>8. WorkerStep \/ WorkerCrashes \/ (\E j \in QueueJobs : SubmitJob(j) \/ SubmitFails(j) \/ Collect(j))
        \/ UNCHANGED bjVars => UNCHANGED <<apiVars, bjTime>>
    BY DEF WorkerStep, WorkerTakes, WorkerAttempt, WorkerCrashes, SubmitJob, SubmitFails, Collect,
           apiVars, bjVars
  <1> QED BY <1>1, <1>2, <1>3, <1>4, <1>5, <1>6, <1>7, <1>8 DEF JobsNext

(* The entry of a finished run stays for its time to live. *)
LEMMA EntriesLast == JobsInv => ResultStaysForTtl
  BY JobsAssumption DEF JobsInv, JobsShape, EntryOf, ResultStaysForTtl, Outcome

(* A poll that told how a run ended is not contradicted by a later one. *)
LEMMA OutcomeStands ==
    ASSUME JobsInv, [JobsNext]_bjVars
    PROVE  \A j \in ApiJobs : bjTold[j] \in Outcome => bjTold'[j] \in {bjTold[j], "not_found", "nothing"}
  <1> SUFFICES ASSUME NEW j \in ApiJobs, bjTold[j] \in Outcome
               PROVE  bjTold'[j] \in {bjTold[j], "not_found", "nothing"}
    OBVIOUS
  <1>1. JobsShape /\ EntryOf(j) BY DEF JobsInv
  <1>2. ASSUME NEW k \in ApiJobs, PollResult(k) PROVE bjTold'[j] \in {bjTold[j], "not_found", "nothing"}
   <2>1. bjResults'[j].status \in {bjResults[j].status, "not_found"}
     BY <1>1, <1>2, Evicted DEF PollResult, JobsShape
   <2>2. bjTold'[j] = bjTold[j] \/ bjTold'[j] = bjResults'[j].status
     BY <1>1, <1>2 DEF PollResult, JobsShape
   <2> QED BY <1>1, <2>1, <2>2 DEF EntryOf
  <1>3. CASE ApiRestarts BY <1>3 DEF ApiRestarts
  <1>4. (\E k \in ApiJobs : AcceptBacktest(k) \/ BackgroundStarts(k) \/ BackgroundEnds(k))
        \/ WorkerStep \/ WorkerCrashes \/ JobClock
        \/ (\E k \in QueueJobs : SubmitJob(k) \/ SubmitFails(k) \/ Collect(k))
        \/ UNCHANGED bjVars => bjTold' = bjTold
    BY DEF WorkerStep, WorkerTakes, WorkerAttempt, WorkerCrashes, SubmitJob, SubmitFails, Collect,
           AcceptBacktest, BackgroundStarts, BackgroundEnds, JobClock, apiVars, bjVars
  <1> QED BY <1>2, <1>3, <1>4 DEF JobsNext

----------------------------------------
(* The components together: one works, the others rest. *)

(* A group step is a step of the component at work and leaves the others alone. *)
LEMMA OneWorks ==
    [GroupNext]_groupVars =>
       /\ [WebhookNext]_whVars /\ [WsNext]_wsVars /\ [ChannelNext]_chVars
       /\ [RunnerNext]_prVars /\ [JobsNext]_bjVars
  <1>1. CASE UNCHANGED groupVars BY <1>1 DEF groupVars
  <1>2. CASE GroupNext BY <1>2 DEF GroupNext, Rest
  <1> QED BY <1>1, <1>2

(* Rooms, indexes, heartbeat and channels follow the connections in every state: a *)
(* member is connected, a connected socket is in the rooms it joined, and the      *)
(* heartbeat runs while there is a connection (both WebSocket managers).           *)
THEOREM ConnectionsStayInStep == GroupSpec => []ConnectionsInStep
  <1>1. GroupInit => WsInv /\ ChannelInv BY WsStarts, ChannelsStart DEF GroupInit
  <1>2. WsInv /\ ChannelInv /\ [GroupNext]_groupVars => WsInv' /\ ChannelInv'
    BY OneWorks, WsSteps, ChannelSteps
  <1>3. WsInv /\ ChannelInv => ConnectionsInStep BY DEF WsInv, ChannelInv, ConnectionsInStep
  <1> QED BY <1>1, <1>2, <1>3, PTL DEF GroupSpec

(* Every signal of a paper session is in exactly one counter, waits to be routed, or *)
(* was dropped by an exception that ends the session, in any interleaving of tasks   *)
(* (PaperTradeRunner).                                                               *)
THEOREM SignalsCounted == GroupSpec => []SignalsAccounted
  <1>1. GroupInit => RunnerInv BY RunnerStarts DEF GroupInit
  <1>2. RunnerInv /\ [GroupNext]_groupVars => RunnerInv' BY OneWorks, RunnerSteps
  <1>3. RunnerInv => SignalsAccounted BY DEF RunnerInv
  <1> QED BY <1>1, <1>2, <1>3, PTL DEF GroupSpec

(* Delivery rows are final and true and appear together, and the result of a backtest *)
(* stays for its time to live, for any number of tasks, hooks and jobs                *)
(* (WebhookDispatcher, api/routes/backtest.py).                                       *)
THEOREM RecordsStay == GroupSpec => []RecordsKept
  <1>1. GroupInit => WebhookInv /\ JobsInv BY WebhooksStart, JobsStart DEF GroupInit
  <1>2. WebhookInv /\ JobsInv /\ [GroupNext]_groupVars => WebhookInv' /\ JobsInv'
    BY OneWorks, WebhookSteps, JobsSteps
  <1>3. WebhookInv /\ JobsInv => RecordsKept BY RowsTrue, EntriesLast DEF RecordsKept
  <1> QED BY <1>1, <1>2, <1>3, PTL DEF GroupSpec

(* An event is posted to a receiver again only when its last answer was none or one  *)
(* that is worth a retry (WebhookDispatcher.dispatch_one).                           *)
THEOREM FinalAnswersEndPosts == GroupSpec => NoPostAfterFinalAnswer
  <1>1. GroupInit => WebhookInv BY WebhooksStart DEF GroupInit
  <1>2. WebhookInv /\ [GroupNext]_groupVars => WebhookInv' BY OneWorks, WebhookSteps
  <1>3. WebhookInv /\ [GroupNext]_groupVars =>
           [\A d \in Dispatches, c \in Hooks :
               whSent'[d][c].posts > whSent[d][c].posts =>
                  whSent[d][c].last \in {"none", "retryable", "network"}]_whVars
    BY OneWorks, PostsStop
  <1> QED BY <1>1, <1>2, <1>3, PTL DEF GroupSpec, NoPostAfterFinalAnswer

(* What a poll told of the end of a backtest is never contradicted by a later poll   *)
(* (get_backtest_result).                                                            *)
THEOREM OutcomesStand == GroupSpec => OutcomeIsFinal
  <1>1. GroupInit => JobsInv BY JobsStart DEF GroupInit
  <1>2. JobsInv /\ [GroupNext]_groupVars => JobsInv' BY OneWorks, JobsSteps
  <1>3. JobsInv /\ [GroupNext]_groupVars =>
           [\A j \in ApiJobs : bjTold[j] \in {"completed", "failed"} =>
               bjTold'[j] \in {bjTold[j], "not_found", "nothing"}]_bjVars
    BY OneWorks, OutcomeStands DEF Outcome
  <1> QED BY <1>1, <1>2, <1>3, PTL DEF GroupSpec, OutcomeIsFinal
=============================================================================
