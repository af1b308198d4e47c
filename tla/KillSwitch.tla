----------------------------- MODULE KillSwitch -----------------------------
(***************************************************************************)
(* The kill-switch, engine/core/live/kill_switch.py, under concurrent      *)
(* threads (API routes, the live loop, policies).                          *)
(*                                                                         *)
(* engage and disengage take the lock, write the fields one by one, build  *)
(* a snapshot, release the lock and only then notify: _notify copies the   *)
(* observer list under the lock and calls the copies outside it.  A thread *)
(* may be preempted between any two of these steps.  is_engaged reads the  *)
(* state without the lock; snapshot reads all fields under it.             *)
(*                                                                         *)
(* A snapshot carries the serial number of its transition (history), and   *)
(* engaged_at is that number: two engagements have different times.  The   *)
(* actor field is written together with the reason and left out.           *)
(***************************************************************************)
EXTENDS Naturals, Sequences, SequencesExt, FiniteSets

CONSTANTS
    Threads,        \* callers of the switch
    Observers,      \* registrations of callbacks (one added twice is two of them)
    InitialObservers, \* the registrations made before trading starts, and kept
    Reasons,        \* reasons given to engage
    MaxTransitions, \* bound: state changes
    None

ASSUME KillSwitchAssumption ==
    /\ InitialObservers \in Seq(Observers) /\ IsInjective(InitialObservers)
    /\ MaxTransitions \in Nat
    /\ None \notin Reasons /\ None \notin Threads /\ None \notin Nat

Permanent == ToSet(InitialObservers)

VARIABLES
    state, engaged_at, reason,  \* the fields of KillSwitch
    observers,      \* KillSwitch._observers, in registration order
    lock,           \* the thread that holds _lock, or None
    pc,             \* what each thread is doing
    arg,            \* the reason each thread passes to engage
    snap,           \* the snapshot each thread carries
    todo,           \* observers each thread still has to call
    engagements,    \* how often the switch was engaged (history)
    serial,         \* number of transitions so far (history)
    seen            \* snapshots each observer was called with (history)

fields == <<state, engaged_at, reason>>
history == <<engagements, serial>>
vars == <<state, engaged_at, reason, observers, lock, pc, arg, snap, todo,
          engagements, serial, seen>>

States == {"engaged", "disengaged"}
PCs == {"idle", "engaging", "disengaging", "engaged", "disengaged", "reading",
        "notify", "calling"}

NoSnapshot == [state |-> "disengaged", engaged_at |-> None, reason |-> None, serial |-> 0]

Init ==
    /\ state = "disengaged" /\ engaged_at = None /\ reason = None
    /\ observers = InitialObservers
    /\ lock = None
    /\ pc = [t \in Threads |-> "idle"]
    /\ arg = [t \in Threads |-> None]
    /\ snap = [t \in Threads |-> NoSnapshot]
    /\ todo = [t \in Threads |-> <<>>]
    /\ engagements = 0 /\ serial = 0
    /\ seen = [obs \in Observers |-> <<>>]

Goto(t, from, to) == pc[t] = from /\ pc' = [pc EXCEPT ![t] = to]

CurrentSnapshot ==
    [state |-> state, engaged_at |-> engaged_at, reason |-> reason, serial |-> serial]

----------------------------------------
(* engage *)

(* The lock is taken and the switch is already on: nothing changes. *)
EngageNoop(t) ==
    /\ pc[t] = "idle" /\ lock = None
    /\ state = "engaged"
    /\ UNCHANGED vars

(* Mutant: the state is tested before the lock is taken and not again under it. *)
MutEngageUnchecked(t, r) ==
    /\ Goto(t, "idle", "engaging")
    /\ lock = None
    /\ serial < MaxTransitions
    /\ lock' = t
    /\ arg' = [arg EXCEPT ![t] = r]
    /\ state' = "engaged"
    /\ serial' = serial + 1
    /\ engagements' = engagements + 1
    /\ UNCHANGED <<engaged_at, reason, observers, snap, todo, seen>>

(* Take the lock, find the switch off, write the state. *)
EngageState(t, r) ==
    /\ Goto(t, "idle", "engaging")
    /\ lock = None
    /\ state # "engaged"
    /\ serial < MaxTransitions
    /\ lock' = t
    /\ arg' = [arg EXCEPT ![t] = r]
    /\ state' = "engaged"
    /\ serial' = serial + 1
    /\ engagements' = engagements + 1
    /\ UNCHANGED <<engaged_at, reason, observers, snap, todo, seen>>

(* Mutant: time and reason are swapped. *)
MutSwappedFields(t) ==
    /\ Goto(t, "engaging", "engaged")
    /\ engaged_at' = arg[t] /\ reason' = serial
    /\ UNCHANGED <<state, observers, lock, arg, snap, todo, history, seen>>

EngageFields(t) ==
    /\ Goto(t, "engaging", "engaged")
    /\ engaged_at' = serial /\ reason' = arg[t]
    /\ UNCHANGED <<state, observers, lock, arg, snap, todo, history, seen>>

(* disengage, with the right confirmation token; any other token raises before
   the lock is touched. *)
DisengageNoop(t) ==
    /\ pc[t] = "idle" /\ lock = None
    /\ state = "disengaged"
    /\ UNCHANGED vars

DisengageState(t) ==
    /\ Goto(t, "idle", "disengaging")
    /\ lock = None
    /\ state # "disengaged"
    /\ serial < MaxTransitions
    /\ lock' = t
    /\ state' = "disengaged"
    /\ serial' = serial + 1
    /\ UNCHANGED <<engaged_at, reason, engagements, observers, arg, snap, todo, seen>>

DisengageFields(t) ==
    /\ Goto(t, "disengaging", "disengaged")
    /\ engaged_at' = None /\ reason' = None
    /\ UNCHANGED <<state, observers, lock, arg, snap, todo, history, seen>>

(* Mutant: the observers are notified with the lock still held. *)
MutReleaseLate(t) ==
    /\ pc[t] \in {"engaged", "disengaged"}
    /\ pc' = [pc EXCEPT ![t] = "notify"]
    /\ snap' = [snap EXCEPT ![t] = CurrentSnapshot]
    /\ UNCHANGED <<fields, observers, lock, arg, todo, history, seen>>

(* Build the snapshot and release the lock. *)
Release(t) ==
    /\ pc[t] \in {"engaged", "disengaged"}
    /\ pc' = [pc EXCEPT ![t] = "notify"]
    /\ snap' = [snap EXCEPT ![t] = CurrentSnapshot]
    /\ lock' = None
    /\ UNCHANGED <<fields, observers, arg, todo, history, seen>>

----------------------------------------
(* _notify *)

(* Mutant: the observers are taken off the list as they are copied. *)
MutTakeObservers(t) ==
    /\ Goto(t, "notify", "calling")
    /\ lock = None
    /\ todo' = [todo EXCEPT ![t] = observers]
    /\ observers' = <<>>
    /\ UNCHANGED <<fields, lock, arg, snap, history, seen>>

CopyObservers(t) ==
    /\ Goto(t, "notify", "calling")
    /\ lock = None
    /\ todo' = [todo EXCEPT ![t] = observers]
    /\ UNCHANGED <<fields, observers, lock, arg, snap, history, seen>>

(* Call the next observer; an exception it raises is logged and swallowed. *)
CallObserver(t) ==
    /\ pc[t] = "calling" /\ todo[t] # <<>>
    /\ seen' = [seen EXCEPT ![Head(todo[t])] = Append(@, snap[t])]
    /\ todo' = [todo EXCEPT ![t] = Tail(@)]
    /\ UNCHANGED <<fields, observers, lock, pc, arg, snap, history>>

NotifyDone(t) ==
    /\ Goto(t, "calling", "idle")
    /\ todo[t] = <<>>
    /\ arg' = [arg EXCEPT ![t] = None]
    /\ snap' = [snap EXCEPT ![t] = NoSnapshot]
    /\ UNCHANGED <<fields, observers, lock, todo, history, seen>>

----------------------------------------
(* add_observer, remove_observer, snapshot: one critical section each. *)

AddObserver(t, obs) ==
    /\ pc[t] = "idle" /\ lock = None
    /\ obs \in Observers \ ToSet(observers)
    /\ observers' = Append(observers, obs)
    /\ UNCHANGED <<fields, lock, pc, arg, snap, todo, history, seen>>

RemoveObserver(t, obs) ==
    /\ pc[t] = "idle" /\ lock = None
    /\ obs \notin Permanent
    /\ \E i \in DOMAIN observers :
        /\ observers[i] = obs
        /\ observers' = RemoveAt(observers, i)
    /\ UNCHANGED <<fields, lock, pc, arg, snap, todo, history, seen>>

(* Mutant: the fields are read without the lock. *)
MutSnapshotUnlocked(t) ==
    /\ Goto(t, "idle", "reading")
    /\ snap' = [snap EXCEPT ![t] = CurrentSnapshot]
    /\ UNCHANGED <<fields, observers, lock, arg, todo, history, seen>>

Snapshot(t) ==
    /\ Goto(t, "idle", "reading")
    /\ lock = None
    /\ snap' = [snap EXCEPT ![t] = CurrentSnapshot]
    /\ UNCHANGED <<fields, observers, lock, arg, todo, history, seen>>

SnapshotDone(t) ==
    /\ Goto(t, "reading", "idle")
    /\ snap' = [snap EXCEPT ![t] = NoSnapshot]
    /\ UNCHANGED <<fields, observers, lock, arg, todo, history, seen>>

----------------------------------------
Started(t) ==
    \/ EngageFields(t) \/ DisengageFields(t) \/ Release(t)
    \/ CopyObservers(t) \/ CallObserver(t) \/ NotifyDone(t) \/ SnapshotDone(t)

Next ==
    \E t \in Threads :
        \/ EngageNoop(t)
        \/ \E r \in Reasons : EngageState(t, r)
        \/ DisengageNoop(t)
        \/ DisengageState(t)
        \/ Started(t)
        \/ \E obs \in Observers : AddObserver(t, obs) \/ RemoveObserver(t, obs)
        \/ Snapshot(t)

Spec == Init /\ [][Next]_vars

(* A thread inside a call is scheduled again; the lock it may wait for in
   _notify is only held for the few steps of a transition. *)
FairSpec == Spec /\ \A t \in Threads : WF_vars(Started(t))

----------------------------------------
(* Properties. *)

SnapshotType ==
    [state : States, engaged_at : Nat \cup {None}, reason : Reasons \cup {None}, serial : Nat]

(* Every field, thread and history keeps its shape. *)
TypeOK ==
    /\ state \in States /\ engaged_at \in Nat \cup {None} /\ reason \in Reasons \cup {None}
    /\ observers \in Seq(Observers)
    /\ lock \in Threads \cup {None}
    /\ pc \in [Threads -> PCs]
    /\ arg \in [Threads -> Reasons \cup {None}]
    /\ snap \in [Threads -> SnapshotType]
    /\ todo \in [Threads -> Seq(Observers)]
    /\ engagements \in Nat /\ serial \in Nat
    /\ seen \in [Observers -> Seq(SnapshotType)]

Whole(s) ==
    /\ s.state = "engaged" <=> s.reason # None
    /\ s.state = "engaged" <=> s.engaged_at # None

(* kill_switch.py 106-113, 137-147: no reader and no observer ever sees a torn
   snapshot, one with the state of one transition and the reason or time of
   another. *)
SnapshotsAreWhole ==
    /\ \A t \in Threads : Whole(snap[t])
    /\ \A obs \in Observers : \A i \in DOMAIN seen[obs] : Whole(seen[obs][i])

Serials(obs) == {seen[obs][i].serial : i \in DOMAIN seen[obs]}

(* kill_switch.py 19-21, "Observers are notified on every transition": an observer
   that stays registered is called at most once per transition, and once no
   thread is inside a call it was called for each of them. *)
NotifiedOncePerTransition ==
    \A obs \in Permanent :
        /\ Cardinality(Serials(obs)) = Len(seen[obs])
        /\ (\A t \in Threads : pc[t] \in {"idle", "reading"}) => Serials(obs) = 1..serial

Abstract == INSTANCE Switch WITH ks <- state, engagements <- engagements

(* The threads, lock and separate writes implement the atomic alternating switch
   that LiveLoop and the risk gate rely on. *)
ImplementsSwitch == Abstract!SwitchSpec

(* kill_switch.py 19-21: a transition eventually reaches every observer that stays
   registered, however many threads race. *)
TransitionsReachObservers ==
    \A n \in 1..MaxTransitions : \A obs \in Permanent :
        (serial >= n) ~> (n \in Serials(obs))
=============================================================================
