---------------------------- MODULE ServiceProofs ----------------------------
(***************************************************************************)
(* What the services around trading keep, each by itself: the sessions,    *)
(* refresh tokens, second factor, audit log and stored secrets, in which   *)
(* what was used up or withdrawn stays so, the API keys, logins, accounts  *)
(* and sockets, which act for their owners only, the pool of directory     *)
(* connections, and the duties of the law: what is deleted, what must be   *)
(* accepted and which scores are shown; then the sandbox of the plugins,   *)
(* and what stands between a source of data and its readers.               *)
(***************************************************************************)
EXTENDS SessionTokens, Credentials, AuditAndSecrets, Accounts, SocketAccess, Erasure,
        LegalGates, PluginSandbox, DataCaches, ProviderClients,
        StreamsAndRetention, SumLemmas, SequenceTheorems

----------------------------------------
(* Sessions. *)

SessionRecord == [id : Nat, revoked : BOOLEAN, created : Nat, last : Nat]

SessionShape ==
    /\ seStore \in Seq(SessionRecord) /\ seNow \in Nat
    /\ seCall \in [Calls -> [pc : {"idle", "evict", "save", "touch", "renew", "revoke"},
                             id : Nat, read : SessionRecord]]
    /\ seHist \in [made : Nat, revoked : SUBSET Nat]

\* Sessions that are stored or were revoked have been made.
SessionsMade ==
    /\ \A i \in DOMAIN seStore : seStore[i].id \in 1..seHist.made
    /\ seHist.revoked \subseteq 1..seHist.made

\* Between the steps of a create, and of a touch after it locked, the user's lock is held,
\* so that what the touch read under it is what is stored.
LockedSteps ==
    \A c \in Calls : /\ seCall[c].pc \in {"evict", "save", "renew"} => seLock = c
                     /\ seCall[c].pc = "renew" => seCall[c].read = Lookup(seCall[c].id)

SessionInv == SessionShape /\ SessionsMade /\ LockedSteps /\ RevokedStaysRevoked

(* No session was issued at the start. *)
LEMMA SessionStarts == SessionInit => SessionInv
  <1> SUFFICES ASSUME SessionInit
               PROVE  SessionInv
    OBVIOUS
  <1>1. NoSession \in SessionRecord BY DEF NoSession, SessionRecord
  <1>2. SessionShape
   <2>1. IdleCall \in [pc : {"idle", "evict", "save", "touch", "renew", "revoke"}, id : Nat, read : SessionRecord]
     BY <1>1 DEF IdleCall
   <2>2. seCall \in [Calls -> [pc : {"idle", "evict", "save", "touch", "renew", "revoke"},
                               id : Nat, read : SessionRecord]]
     BY <2>1 DEF SessionInit
   <2> QED BY <2>2 DEF SessionInit, SessionShape
  <1>3. SessionsMade BY DEF SessionInit, SessionsMade
  <1>4. LockedSteps BY DEF SessionInit, LockedSteps, IdleCall
  <1>5. RevokedStaysRevoked BY DEF SessionInit, RevokedStaysRevoked
  <1> QED BY <1>2, <1>3, <1>4, <1>5 DEF SessionInv

(* What is stored under an id. *)
LEMMA LookupFinds ==
    ASSUME SessionInv, NEW id \in Nat
    PROVE  \/ Lookup(id) = NoSession
           \/ Places(id) # {} /\ \E i \in DOMAIN seStore : Lookup(id) = seStore[i] /\ seStore[i].id = id
  BY DEF Lookup, Places

(* save leaves a session it knows in one place, and others where they are; a new one comes
   last.  Either way what is stored afterwards is the session or was stored before. *)
LEMMA SaveStores ==
    ASSUME SessionInv, NEW s \in SessionRecord, SaveSession(s)
    PROVE  /\ seStore' \in Seq(SessionRecord)
           /\ \A j \in DOMAIN seStore' :
                 \/ seStore'[j] = s
                 \/ seStore'[j].id # s.id /\ \E i \in DOMAIN seStore : seStore'[j] = seStore[i]
  <1>1. /\ seStore \in Seq(SessionRecord) /\ Len(seStore) \in Nat /\ DOMAIN seStore = 1..Len(seStore)
        /\ \A i \in 1..Len(seStore) : seStore[i] \in SessionRecord
    BY DEF SessionInv, SessionShape
  <1>2. CASE Places(s.id) # {}
   <2>1. seStore' = [i \in 1..Len(seStore) |-> IF seStore[i].id = s.id THEN s ELSE seStore[i]]
     BY <1>1, <1>2 DEF SaveSession
   <2>2. seStore' \in Seq(SessionRecord) BY <1>1, <2>1
   <2> QED BY <1>1, <2>1, <2>2
  <1>3. CASE Places(s.id) = {}
   <2>1. \A i \in DOMAIN seStore : seStore[i].id # s.id BY <1>3 DEF Places
   <2>2. CASE Len(seStore) >= MaxTotal
    <3>1. seStore' = Append(Tail(seStore), s) /\ seStore # <<>>
      BY <1>1, <1>3, <2>2, SessionAssumption DEF SaveSession
    <3> DEFINE w == Tail(seStore)
    <3>2. w \in Seq(SessionRecord) /\ Len(w) = Len(seStore) - 1 /\ \A i \in 1..Len(w) : w[i] = seStore[i + 1]
      BY <1>1, <3>1, HeadTailProperties
    <3>3. \A i \in 1..Len(w) : i + 1 \in 1..Len(seStore) BY <1>1, <3>2
    <3> HIDE DEF w
    <3>4. /\ Append(w, s) \in Seq(SessionRecord) /\ DOMAIN Append(w, s) = 1..(Len(w) + 1)
          /\ \A j \in 1..(Len(w) + 1) : Append(w, s)[j] = IF j <= Len(w) THEN w[j] ELSE s
      BY <3>2
    <3>5. \A j \in 1..(Len(w) + 1) : j <= Len(w) => j \in 1..Len(w) BY <1>1, <3>2
    <3> QED BY <1>1, <2>1, <3>1, <3>2, <3>3, <3>4, <3>5 DEF w
   <2>3. CASE ~(Len(seStore) >= MaxTotal)
    <3>1. seStore' = Append(seStore, s) BY <1>3, <2>3 DEF SaveSession
    <3> QED BY <1>1, <2>1, <3>1
   <2> QED BY <2>2, <2>3
  <1> QED BY <1>2, <1>3

\* What a step does to sessions by saving s, with revoked the sessions revoked by then.
LEMMA SaveKeeps ==
    ASSUME SessionInv, NEW s \in SessionRecord, SaveSession(s),
           seHist' \in [made : Nat, revoked : SUBSET Nat], seHist.made <= seHist'.made,
           s.id \in 1..seHist'.made,
           \/ s.revoked /\ seHist'.revoked = seHist.revoked \cup {s.id}
           \/ s.id \notin seHist.revoked /\ seHist'.revoked = seHist.revoked
    PROVE  seStore' \in Seq(SessionRecord) /\ SessionsMade' /\ RevokedStaysRevoked'
  <1>1. /\ seStore' \in Seq(SessionRecord)
        /\ \A j \in DOMAIN seStore' :
              \/ seStore'[j] = s
              \/ seStore'[j].id # s.id /\ \E i \in DOMAIN seStore : seStore'[j] = seStore[i]
    BY SaveStores
  <1>2. seHist.made \in Nat /\ seHist'.made \in Nat /\ 1..seHist.made \subseteq 1..seHist'.made
    BY DEF SessionInv, SessionShape
  <1>3. SessionsMade' BY <1>1, <1>2 DEF SessionInv, SessionsMade
  <1>4. RevokedStaysRevoked'
   <2> SUFFICES ASSUME NEW j \in DOMAIN seStore', ~seStore'[j].revoked
                PROVE  seStore'[j].id \notin seHist'.revoked
     BY DEF RevokedStaysRevoked, Active
   <2>1. CASE seStore'[j] = s BY <2>1
   <2>2. CASE seStore'[j].id # s.id /\ \E i \in DOMAIN seStore : seStore'[j] = seStore[i]
     BY <2>2 DEF SessionInv, RevokedStaysRevoked, Active
   <2> QED BY <1>1, <2>1, <2>2
  <1> QED BY <1>1, <1>3, <1>4

(* Steps that leave what is stored alone, and take the lock only when it is free. *)
LEMMA ReadKeeps ==
    ASSUME SessionInv, NEW c \in Calls, UNCHANGED <<seStore, seHist>>, seNow' \in Nat,
           NEW q \in [pc : {"idle", "evict", "save", "touch", "renew", "revoke"}, id : Nat, read : SessionRecord],
           seCall' = [seCall EXCEPT ![c] = q],
           \/ seLock' = seLock
           \/ seLock = "free" /\ seLock' = c
           \/ seLock = c /\ seLock' = "free",
           q.pc \in {"evict", "save", "renew"} => seLock' = c,
           q.pc = "renew" => q.read = Lookup(q.id)
    PROVE  SessionInv'
  <1>1. \A id : Lookup(id)' = Lookup(id) BY DEF Lookup, Places
  <1>2. SessionShape' BY DEF SessionInv, SessionShape
  <1>3. seCall'[c] = q /\ \A d \in Calls \ {c} : seCall'[d] = seCall[d]
    BY DEF SessionInv, SessionShape
  <1>4. LockedSteps'
   <2> SUFFICES ASSUME NEW d \in Calls
                PROVE  /\ seCall'[d].pc \in {"evict", "save", "renew"} => seLock' = d
                       /\ seCall'[d].pc = "renew" => seCall'[d].read = Lookup(seCall'[d].id)
     BY <1>1 DEF LockedSteps
   <2>1. CASE d = c BY <1>3, <2>1
   <2>2. CASE d # c BY <1>3, <2>2, SessionAssumption DEF SessionInv, LockedSteps
   <2> QED BY <2>1, <2>2
  <1>5. SessionsMade' /\ RevokedStaysRevoked'
    BY DEF SessionInv, SessionsMade, RevokedStaysRevoked, Active
  <1> QED BY <1>2, <1>4, <1>5 DEF SessionInv

(* Steps that change it hold the lock or find it free, and leave no touch between its two
   steps under the lock. *)
LEMMA WriteKeeps ==
    ASSUME SessionInv, NEW c \in Calls, seLock \in {c, "free"}, seLock' \in {c, "free"}, seNow' \in Nat,
           NEW q \in [pc : {"idle", "save"}, id : Nat, read : SessionRecord],
           seCall' = [seCall EXCEPT ![c] = q], q.pc = "save" => seLock' = c,
           seHist' \in [made : Nat, revoked : SUBSET Nat],
           seStore' \in Seq(SessionRecord), SessionsMade', RevokedStaysRevoked'
    PROVE  SessionInv'
  <1>1. SessionShape' BY DEF SessionInv, SessionShape
  <1>2. seCall'[c] = q /\ \A d \in Calls \ {c} : seCall'[d] = seCall[d]
    BY DEF SessionInv, SessionShape
  <1>3. \A d \in Calls \ {c} : seCall[d].pc \notin {"evict", "save", "renew"}
    BY SessionAssumption DEF SessionInv, LockedSteps
  <1>4. LockedSteps' BY <1>2, <1>3 DEF LockedSteps
  <1> QED BY <1>1, <1>4 DEF SessionInv

(* There is an oldest active session to revoke at the cap. *)
LEMMA OldestActive ==
    ASSUME SessionInv, MustEvict
    PROVE  \E i \in Active : \A j \in Active : seStore[i].created <= seStore[j].created
  <1> DEFINE B == {seStore[i].created : i \in Active}
  <1>1. Active # {} BY FS_EmptySet, SessionAssumption DEF MustEvict
  <1>2. B \subseteq Nat /\ B # {}
   <2>1. \A i \in DOMAIN seStore : seStore[i] \in SessionRecord BY DEF SessionInv, SessionShape
   <2>2. \A i \in Active : seStore[i].created \in Nat BY <2>1 DEF SessionRecord, Active
   <2> QED BY <1>1, <2>2
  <1>3. PICK m \in B : \A k \in B : m <= k
   <2> HIDE DEF B
   <2> QED BY <1>2, LeastNatural
  <1> QED BY <1>3

CallType == [pc : {"idle", "evict", "save", "touch", "renew", "revoke"}, id : Nat, read : SessionRecord]

(* Every step of the sessions keeps their invariant. *)
LEMMA SessionSteps ==
    ASSUME SessionInv, [SessionNext]_seVars
    PROVE  SessionInv'
  <1>1. /\ NoSession \in SessionRecord /\ NoSession.id = 0
        /\ IdleCall \in CallType /\ IdleCall \in [pc : {"idle", "save"}, id : Nat, read : SessionRecord]
        /\ IdleCall.pc = "idle"
    BY DEF NoSession, SessionRecord, IdleCall, CallType
  <1>2. /\ seStore \in Seq(SessionRecord) /\ seNow \in Nat /\ seHist.made \in Nat
        /\ seHist \in [made : Nat, revoked : SUBSET Nat]
        /\ seCall \in [Calls -> CallType]
        /\ \A i \in DOMAIN seStore : seStore[i] \in SessionRecord /\ seStore[i].id \in 1..seHist.made
    BY DEF SessionInv, SessionShape, SessionsMade, CallType
  <1>3. ASSUME NEW id \in Nat
        PROVE  /\ Lookup(id) \in SessionRecord
               /\ Lookup(id) # NoSession => Lookup(id).id = id /\ id \in 1..seHist.made
    BY <1>1, <1>2, LookupFinds
  <1>4. ASSUME NEW c \in Calls, CreateLocks(c)
        PROVE  SessionInv'
   <2> DEFINE q == [seCall[c] EXCEPT !.pc = "evict"]
   <2>1. /\ q \in CallType /\ q.pc = "evict" /\ seCall' = [seCall EXCEPT ![c] = q]
         /\ seLock = "free" /\ seLock' = c /\ UNCHANGED <<seStore, seNow, seHist>>
     BY <1>2, <1>4 DEF CreateLocks, CallType
   <2> HIDE DEF q
   <2> QED BY <1>2, <2>1, ReadKeeps DEF CallType
  <1>5. ASSUME NEW c \in Calls, CreateEvicts(c)
        PROVE  SessionInv'
   <2> DEFINE q == [seCall[c] EXCEPT !.pc = "save"]
   <2>1. /\ seCall[c].pc = "evict" /\ seLock = c /\ seLock' = c /\ seNow' = seNow
         /\ q \in [pc : {"idle", "save"}, id : Nat, read : SessionRecord] /\ q \in CallType /\ q.pc = "save"
         /\ seCall' = [seCall EXCEPT ![c] = q]
     BY <1>2, <1>5 DEF CreateEvicts, AtCall, CallType, SessionInv, LockedSteps
   <2> HIDE DEF q
   <2>2. CASE UNCHANGED <<seStore, seHist>> BY <1>2, <2>1, <2>2, ReadKeeps DEF CallType
   <2>3. CASE MustEvict /\ ~UNCHANGED <<seStore, seHist>>
    <3> DEFINE old == CHOOSE i \in Active : \A j \in Active : seStore[i].created <= seStore[j].created
               s == [seStore[old] EXCEPT !.revoked = TRUE]
    <3>1. /\ SaveSession(s)
          /\ seHist' = [seHist EXCEPT !.revoked = @ \cup {seStore[old].id}]
      BY <1>5, <2>3 DEF CreateEvicts
    <3>2. \E i \in Active : \A j \in Active : seStore[i].created <= seStore[j].created
      BY <2>3, OldestActive
    <3>3. old \in DOMAIN seStore BY <3>2 DEF Active
    <3> HIDE DEF old
    <3>4. /\ s \in SessionRecord /\ s.revoked /\ s.id = seStore[old].id
          /\ s.id \in 1..seHist.made
      BY <1>2, <3>3 DEF SessionRecord
    <3> HIDE DEF s
    <3>5. /\ seHist' \in [made : Nat, revoked : SUBSET Nat] /\ seHist'.made = seHist.made
          /\ seHist'.revoked = seHist.revoked \cup {s.id}
      BY <1>2, <3>1, <3>4
    <3>6. seStore' \in Seq(SessionRecord) /\ SessionsMade' /\ RevokedStaysRevoked'
      BY <1>2, <3>1, <3>4, <3>5, SaveKeeps
    <3> QED BY <1>2, <2>1, <3>5, <3>6, WriteKeeps
   <2> QED BY <1>5, <2>2, <2>3 DEF CreateEvicts
  <1>6. ASSUME NEW c \in Calls, CreateSaves(c)
        PROVE  SessionInv'
   <2> DEFINE s == [id |-> seHist.made + 1, revoked |-> FALSE, created |-> seNow, last |-> seNow]
   <2>1. /\ seLock = c /\ seNow' = seNow /\ SaveSession(s) /\ seHist' = [seHist EXCEPT !.made = @ + 1]
         /\ seCall' = [seCall EXCEPT ![c] = IdleCall] /\ seLock' = "free"
     BY <1>6 DEF CreateSaves, AtCall, CallEnds, SessionInv, LockedSteps
   <2>2. s \in SessionRecord /\ s.id = seHist.made + 1 BY <1>2 DEF SessionRecord
   <2>3. s.id \in 1..(seHist.made + 1) /\ seHist.made <= seHist.made + 1 /\ s.id \notin seHist.revoked
     BY <1>2, <2>2 DEF SessionInv, SessionsMade
   <2> HIDE DEF s
   <2>4. /\ seHist' \in [made : Nat, revoked : SUBSET Nat] /\ seHist'.made = seHist.made + 1
         /\ seHist'.revoked = seHist.revoked
    <3>1. seHist' = [made |-> seHist.made + 1, revoked |-> seHist.revoked] BY <1>2, <2>1
    <3>2. seHist.made + 1 \in Nat /\ seHist.revoked \in SUBSET Nat BY <1>2
    <3> QED BY <3>1, <3>2
   <2>5. seStore' \in Seq(SessionRecord) /\ SessionsMade' /\ RevokedStaysRevoked'
     BY <1>2, <2>1, <2>2, <2>3, <2>4, SaveKeeps
   <2> QED BY <1>1, <1>2, <2>1, <2>4, <2>5, WriteKeeps
  <1>7. ASSUME NEW c \in Calls, NEW id \in 1..MaxSessions, TouchReads(c, id) \/ RevokeReads(c, id)
        PROVE  SessionInv'
   <2>1. PICK pc \in {"touch", "revoke"} : seCall' = [seCall EXCEPT ![c] = [pc |-> pc, id |-> id, read |-> Lookup(id)]]
     BY <1>7 DEF TouchReads, RevokeReads
   <2> DEFINE q == [pc |-> pc, id |-> id, read |-> Lookup(id)]
   <2>2. q \in CallType /\ q.pc = pc BY <1>3, SessionAssumption DEF CallType
   <2>3. seLock' = seLock /\ UNCHANGED <<seStore, seNow, seHist>>
     BY <1>7 DEF TouchReads, RevokeReads
   <2>4. seCall' = [seCall EXCEPT ![c] = q] BY <2>1
   <2> HIDE DEF q
   <2> QED BY <1>2, <2>2, <2>3, <2>4, ReadKeeps DEF CallType
  <1>8. ASSUME NEW c \in Calls, TouchLocks(c)
        PROVE  SessionInv'
   <2> DEFINE q == [seCall[c] EXCEPT !.pc = "renew", !.read = Lookup(seCall[c].id)]
   <2>1. seLock = "free" /\ seLock' = c /\ UNCHANGED <<seStore, seNow, seHist>>
     BY <1>8 DEF TouchLocks
   <2>2. seCall' = [seCall EXCEPT ![c] = q] BY <1>2, <1>8 DEF TouchLocks, Refetch
   <2>3. seCall[c] \in CallType /\ seCall[c].id \in Nat BY <1>2 DEF CallType
   <2>4. Lookup(seCall[c].id) \in SessionRecord BY <1>3, <2>3
   <2>5. q \in CallType /\ q.pc = "renew" /\ q.id = seCall[c].id /\ q.read = Lookup(q.id)
     BY <2>3, <2>4 DEF CallType
   <2> HIDE DEF q
   <2> QED BY <1>2, <2>1, <2>2, <2>5, ReadKeeps DEF CallType
  <1>9. ASSUME NEW c \in Calls, TouchSaves(c)
        PROVE  SessionInv'
   <2> DEFINE r == seCall[c].read
              s == [r EXCEPT !.last = seNow]
   <2>1. /\ seLock = c /\ seLock' = "free" /\ seNow' = seNow /\ seHist' = seHist
         /\ seCall' = [seCall EXCEPT ![c] = IdleCall]
         /\ r = Lookup(seCall[c].id) /\ seCall[c].id \in Nat
     BY <1>2, <1>9 DEF TouchSaves, AtCall, CallEnds, SessionInv, LockedSteps, CallType
   <2>2. CASE Usable(r) /\ SaveSession(s)
    <3>1. r # NoSession /\ ~r.revoked BY <2>2 DEF Usable
    <3>2. r \in SessionRecord /\ r.id \in 1..seHist.made /\ r.id \notin seHist.revoked
      BY <1>2, <2>1, <3>1, LookupFinds DEF SessionInv, RevokedStaysRevoked, Active
    <3> HIDE DEF r
    <3>3. s \in SessionRecord /\ s.id = r.id BY <1>2, <3>2 DEF SessionRecord
    <3> HIDE DEF s
    <3>4. seStore' \in Seq(SessionRecord) /\ SessionsMade' /\ RevokedStaysRevoked'
      BY <1>2, <2>1, <2>2, <3>2, <3>3, SaveKeeps
    <3> QED BY <1>1, <1>2, <2>1, <3>4, WriteKeeps
   <2>3. CASE UNCHANGED seStore BY <1>1, <1>2, <2>1, <2>3, ReadKeeps DEF CallType
   <2> QED BY <1>9, <2>2, <2>3 DEF TouchSaves
  <1>10. ASSUME NEW c \in Calls, RevokeSaves(c)
         PROVE  SessionInv'
   <2> DEFINE r == Lookup(seCall[c].id)
              s == [r EXCEPT !.revoked = TRUE]
   <2>1. /\ seLock = "free" /\ seLock' = seLock /\ seNow' = seNow
         /\ seCall' = [seCall EXCEPT ![c] = IdleCall] /\ seCall[c].id \in Nat
     BY <1>2, <1>10 DEF RevokeSaves, CallType
   <2>2. CASE /\ r # NoSession /\ SaveSession(s)
              /\ seHist' = [seHist EXCEPT !.revoked = @ \cup {s.id}]
    <3>1. r \in SessionRecord /\ r.id \in 1..seHist.made BY <1>3, <2>1, <2>2
    <3> HIDE DEF r
    <3>2. s \in SessionRecord /\ s.id = r.id /\ s.revoked BY <1>2, <3>1 DEF SessionRecord
    <3> HIDE DEF s
    <3>3. /\ seHist' \in [made : Nat, revoked : SUBSET Nat] /\ seHist'.made = seHist.made
          /\ seHist'.revoked = seHist.revoked \cup {s.id}
      BY <1>2, <2>2, <3>1, <3>2
    <3>4. seStore' \in Seq(SessionRecord) /\ SessionsMade' /\ RevokedStaysRevoked'
      BY <1>2, <2>2, <3>1, <3>2, <3>3, SaveKeeps, SMTT(30)
    <3> QED BY <1>1, <1>2, <2>1, <3>3, <3>4, WriteKeeps
   <2>3. CASE UNCHANGED <<seStore, seHist>> BY <1>1, <1>2, <2>1, <2>3, ReadKeeps DEF CallType
   <2>4. r # NoSession => s.id = r.id BY <1>3, <2>1 DEF SessionRecord
   <2> QED BY <1>10, <2>2, <2>3, <2>4 DEF RevokeSaves
  <1>11. ASSUME NEW c \in Calls, RevokeAll(c)
         PROVE  SessionInv'
   <2>1. /\ seLock = "free" /\ UNCHANGED <<seLock, seCall, seNow>> /\ seCall[c].pc = "idle"
         /\ seStore' = [i \in 1..Len(seStore) |-> [seStore[i] EXCEPT !.revoked = TRUE]]
         /\ seHist' = [seHist EXCEPT !.revoked = @ \cup {seStore[i].id : i \in Active}]
         /\ DOMAIN seStore = 1..Len(seStore) /\ Len(seStore) \in Nat
     BY <1>2, <1>11 DEF RevokeAll, AtCall
   <2>2. \A i \in 1..Len(seStore) :
            LET s == [seStore[i] EXCEPT !.revoked = TRUE]
            IN s \in SessionRecord /\ s.revoked /\ s.id = seStore[i].id
     BY <1>2, <2>1 DEF SessionRecord
   <2>3. seStore' \in Seq(SessionRecord) /\ DOMAIN seStore' = 1..Len(seStore) BY <2>1, <2>2
   <2>4. {seStore[i].id : i \in Active} \subseteq 1..seHist.made BY <1>2 DEF Active
   <2>5. /\ seHist' \in [made : Nat, revoked : SUBSET Nat] /\ seHist'.made = seHist.made
         /\ seHist'.revoked = seHist.revoked \cup {seStore[i].id : i \in Active}
     BY <1>2, <2>1, <2>4
   <2>6. SessionsMade' BY <1>2, <2>1, <2>2, <2>3, <2>4, <2>5 DEF SessionInv, SessionsMade
   <2>7. RevokedStaysRevoked' BY <2>1, <2>2, <2>3 DEF RevokedStaysRevoked, Active
   <2>8. SessionShape' BY <2>1, <2>3, <2>5 DEF SessionInv, SessionShape
   <2>9. LockedSteps' BY <2>1, SessionAssumption DEF SessionInv, LockedSteps
   <2> QED BY <2>6, <2>7, <2>8, <2>9 DEF SessionInv
  <1>12. CASE ClockTicks
   <2>1. UNCHANGED <<seStore, seLock, seCall, seHist>> /\ seNow' \in Nat
     BY <1>2, <1>12 DEF ClockTicks
   <2>2. \A id : Lookup(id)' = Lookup(id) BY <2>1 DEF Lookup, Places
   <2> QED
     BY <2>1, <2>2 DEF SessionInv, SessionShape, SessionsMade, LockedSteps, RevokedStaysRevoked, Active
  <1>13. CASE UNCHANGED seVars
   <2>1. \A id : Lookup(id)' = Lookup(id) BY <1>13 DEF seVars, Lookup, Places
   <2> QED
     BY <1>13, <2>1 DEF seVars, SessionInv, SessionShape, SessionsMade, LockedSteps, RevokedStaysRevoked, Active
  <1> QED BY <1>4, <1>5, <1>6, <1>7, <1>8, <1>9, <1>10, <1>11, <1>12, <1>13 DEF SessionNext

----------------------------------------
(* The cap on active sessions. *)

OneRecordEach == \A i, j \in DOMAIN seStore : seStore[i].id = seStore[j].id => i = j

\* Who made room under the lock still has it when the new session is saved.
RoomMade == \A c \in Calls : seCall[c].pc = "save" => Cardinality(Active) < MaxConcurrent

CapInv == SessionInv /\ OneRecordEach /\ ActiveWithinCap /\ RoomMade

ActiveIds == {seStore[i].id : i \in Active}

(* There are as many active sessions as there are ids of them. *)
LEMMA ActiveByIds ==
    SessionInv /\ OneRecordEach => /\ IsFiniteSet(ActiveIds) /\ Cardinality(ActiveIds) = Cardinality(Active)
                                  /\ Cardinality(Active) \in Nat
  <1> SUFFICES ASSUME SessionInv, OneRecordEach
               PROVE  /\ IsFiniteSet(ActiveIds) /\ Cardinality(ActiveIds) = Cardinality(Active)
                      /\ Cardinality(Active) \in Nat
    OBVIOUS
  <1>1. seStore \in Seq(SessionRecord) BY DEF SessionInv, SessionShape
  <1>2. IsFiniteSet(Active)
   <2>1. Len(seStore) \in Nat /\ DOMAIN seStore = 1..Len(seStore) BY <1>1
   <2>2. IsFiniteSet(1..Len(seStore)) BY <2>1, FS_Interval
   <2>3. Active \in SUBSET (1..Len(seStore)) BY <2>1 DEF Active
   <2> QED BY <2>2, <2>3, FS_Subset
  <1> DEFINE f == [i \in Active |-> seStore[i].id]
  <1>3. f \in Bijection(Active, ActiveIds)
   <2>1. f \in [Active -> ActiveIds] BY DEF ActiveIds
   <2>2. \A i, j \in Active : i # j => f[i] # f[j] BY DEF OneRecordEach, Active
   <2>3. \A x \in ActiveIds : \E i \in Active : f[i] = x BY DEF ActiveIds
   <2> QED BY <2>1, <2>2, <2>3 DEF Bijection, Injection, Surjection, IsInjective
  <1>4. ExistsBijection(Active, ActiveIds) BY <1>3 DEF ExistsBijection
  <1> QED BY <1>2, <1>4, FS_Bijection, FS_CardinalityType

(* A save leaves one record per session and no active session but the saved one and others
   that were active before (InMemorySessionStore.save). *)
LEMMA SaveIds ==
    ASSUME SessionInv, OneRecordEach, NEW s \in SessionRecord, SaveSession(s)
    PROVE  /\ OneRecordEach'
           /\ ActiveIds' \subseteq IF s.revoked THEN ActiveIds \ {s.id} ELSE ActiveIds \cup {s.id}
  <1>1. /\ seStore \in Seq(SessionRecord) /\ Len(seStore) \in Nat /\ DOMAIN seStore = 1..Len(seStore)
    BY DEF SessionInv, SessionShape
  <1>2. /\ seStore' \in Seq(SessionRecord)
        /\ \A j \in DOMAIN seStore' :
              \/ seStore'[j] = s
              \/ seStore'[j].id # s.id /\ \E i \in DOMAIN seStore : seStore'[j] = seStore[i]
    BY SaveStores
  <1>3. ActiveIds' \subseteq IF s.revoked THEN ActiveIds \ {s.id} ELSE ActiveIds \cup {s.id}
    BY <1>2 DEF ActiveIds, Active
  <1>4. OneRecordEach'
   <2>1. CASE Places(s.id) # {}
    <3>1. seStore' = [i \in DOMAIN seStore |-> IF seStore[i].id = s.id THEN s ELSE seStore[i]]
      BY <2>1 DEF SaveSession
    <3>2. DOMAIN seStore' = DOMAIN seStore /\ \A i \in DOMAIN seStore : seStore'[i].id = seStore[i].id
      BY <3>1
    <3> QED BY <3>2 DEF OneRecordEach
   <2>2. CASE Places(s.id) = {}
    <3>1. \A i \in DOMAIN seStore : seStore[i].id # s.id BY <2>2 DEF Places
    <3>2. CASE Len(seStore) >= MaxTotal
     <4>1. seStore' = Append(Tail(seStore), s) /\ seStore # <<>>
       BY <1>1, <2>2, <3>2, SessionAssumption DEF SaveSession
     <4> DEFINE w == Tail(seStore)
     <4>2. w \in Seq(SessionRecord) /\ Len(w) = Len(seStore) - 1 /\ \A i \in 1..Len(w) : w[i] = seStore[i + 1]
       BY <1>1, <4>1, HeadTailProperties
     <4> HIDE DEF w
     <4>3. /\ DOMAIN Append(w, s) = 1..(Len(w) + 1) /\ Len(w) \in Nat
           /\ \A j \in 1..(Len(w) + 1) : Append(w, s)[j] = IF j <= Len(w) THEN w[j] ELSE s
       BY <4>2
     <4>4. \A i \in 1..Len(w) : i + 1 \in DOMAIN seStore BY <1>1, <4>2
     <4>5. \A i, j \in 1..Len(w) : w[i].id = w[j].id => i = j
      <5>1. ASSUME NEW i \in 1..Len(w), NEW j \in 1..Len(w), w[i].id = w[j].id
            PROVE  i = j
       <6>1. i + 1 = j + 1 BY <4>2, <4>4, <5>1 DEF OneRecordEach
       <6> QED BY <4>3, <6>1
      <5> QED BY <5>1
     <4>6. \A i \in 1..Len(w) : w[i].id # s.id BY <3>1, <4>2, <4>4
     <4>7. \A j \in 1..(Len(w) + 1) : j <= Len(w) => j \in 1..Len(w) BY <4>3
     <4>8. \A j \in 1..(Len(w) + 1) : ~(j <= Len(w)) => j = Len(w) + 1 BY <4>3
     <4>9. seStore' = Append(w, s) BY <4>1 DEF w
     <4> QED BY <4>3, <4>5, <4>6, <4>7, <4>8, <4>9 DEF OneRecordEach
    <3>3. CASE ~(Len(seStore) >= MaxTotal)
     <4>1. seStore' = Append(seStore, s) BY <2>2, <3>3 DEF SaveSession
     <4> QED BY <1>1, <3>1, <4>1 DEF OneRecordEach
    <3> QED BY <3>2, <3>3
   <2> QED BY <2>1, <2>2
  <1> QED BY <1>3, <1>4

(* No session was issued at the start. *)
LEMMA CapStarts == SessionInit => CapInv
  <1> SUFFICES ASSUME SessionInit PROVE CapInv
    OBVIOUS
  <1>1. SessionInv BY SessionStarts
  <1>2. Active = {} /\ OneRecordEach BY DEF SessionInit, Active, OneRecordEach
  <1>3. ActiveWithinCap BY <1>2, FS_EmptySet, SessionAssumption DEF ActiveWithinCap
  <1>4. RoomMade BY DEF SessionInit, RoomMade, IdleCall
  <1> QED BY <1>1, <1>2, <1>3, <1>4 DEF CapInv

(* As many are active after a step as there are ids of them. *)
LEMMA ActiveByIdsNext ==
    ASSUME SessionInv', OneRecordEach'
    PROVE  /\ IsFiniteSet(ActiveIds') /\ Cardinality(ActiveIds') = Cardinality(Active')
           /\ Cardinality(Active') \in Nat
  <1>1. (SessionInv /\ OneRecordEach => /\ IsFiniteSet(ActiveIds) /\ Cardinality(ActiveIds) = Cardinality(Active)
                                       /\ Cardinality(Active) \in Nat)'
    BY ActiveByIds, PTL
  <1> QED BY <1>1

(* A step that activates no session keeps within the cap. *)
LEMMA FewerKeep ==
    ASSUME CapInv, SessionInv', OneRecordEach', ActiveIds' \subseteq ActiveIds,
           \A c \in Calls : seCall'[c].pc = "save" => seCall[c].pc = "save"
    PROVE  CapInv'
  <1>1. SessionInv /\ OneRecordEach /\ ActiveWithinCap /\ RoomMade BY DEF CapInv
  <1>2. /\ IsFiniteSet(ActiveIds) /\ Cardinality(ActiveIds) = Cardinality(Active)
        /\ Cardinality(Active) \in Nat
    BY <1>1, ActiveByIds
  <1>3. Cardinality(ActiveIds') = Cardinality(Active') /\ Cardinality(Active') \in Nat
    BY ActiveByIdsNext
  <1>4. Cardinality(Active') <= Cardinality(Active) BY <1>2, <1>3, FS_Subset
  <1>5. ActiveWithinCap' BY <1>1, <1>2, <1>3, <1>4, SessionAssumption DEF ActiveWithinCap
  <1>6. RoomMade' BY <1>1, <1>2, <1>3, <1>4, SessionAssumption DEF RoomMade
  <1> QED BY <1>5, <1>6 DEF CapInv

(* Every step of the sessions keeps the cap. *)
LEMMA CapSteps ==
    ASSUME CapInv, [SessionNext]_seVars
    PROVE  CapInv'
  <1>1. SessionInv /\ OneRecordEach /\ ActiveWithinCap /\ RoomMade /\ SessionInv'
    BY SessionSteps DEF CapInv
  <1>2. /\ seStore \in Seq(SessionRecord) /\ seNow \in Nat /\ seHist.made \in Nat
        /\ seCall \in [Calls -> CallType]
        /\ \A i \in DOMAIN seStore : seStore[i] \in SessionRecord /\ seStore[i].id \in 1..seHist.made
    BY <1>1 DEF SessionInv, SessionShape, SessionsMade, CallType
  <1>3. /\ IsFiniteSet(ActiveIds) /\ Cardinality(ActiveIds) = Cardinality(Active)
        /\ Cardinality(Active) \in Nat /\ Cardinality(Active) <= MaxConcurrent /\ MaxConcurrent \in Nat
    BY <1>1, ActiveByIds, SessionAssumption DEF ActiveWithinCap
  <1>4. ASSUME NEW id \in Nat
        PROVE  /\ Lookup(id) \in SessionRecord
               /\ Lookup(id) # NoSession => Lookup(id).id = id
               /\ Lookup(id) # NoSession /\ ~Lookup(id).revoked => id \in ActiveIds
   <2>1. NoSession \in SessionRecord BY DEF NoSession, SessionRecord
   <2> QED BY <1>1, <1>2, <2>1, LookupFinds DEF ActiveIds, Active
  <1>5. ASSUME UNCHANGED seStore, \A c \in Calls : seCall'[c].pc = "save" => seCall[c].pc = "save"
        PROVE  CapInv'
   <2>1. OneRecordEach' /\ ActiveIds' \subseteq ActiveIds
     BY <1>1, <1>5 DEF OneRecordEach, ActiveIds, Active
   <2> QED BY <1>1, <1>5, <2>1, FewerKeep
  <1>6. ASSUME NEW c \in Calls, NEW q \in CallType, seCall' = [seCall EXCEPT ![c] = q], q.pc # "save"
        PROVE  \A d \in Calls : seCall'[d].pc = "save" => seCall[d].pc = "save"
    BY <1>2, <1>6
  <1>7. IdleCall \in CallType /\ IdleCall.pc = "idle"
    BY DEF NoSession, SessionRecord, IdleCall, CallType
  <1>8. ASSUME NEW c \in Calls, CreateEvicts(c)
        PROVE  CapInv'
   <2>1. /\ seCall[c].pc = "evict" /\ seLock = c /\ seCall' = [seCall EXCEPT ![c].pc = "save"]
     BY <1>1, <1>8 DEF CreateEvicts, AtCall, SessionInv, LockedSteps
   <2>2. CASE ~MustEvict /\ UNCHANGED seStore
    <3>1. Cardinality(Active) < MaxConcurrent BY <1>3, <2>2 DEF MustEvict
    <3>2. Active' = Active BY <2>2 DEF Active
    <3>3. OneRecordEach' /\ ActiveWithinCap' /\ RoomMade'
      BY <1>1, <2>2, <3>1, <3>2 DEF OneRecordEach, ActiveWithinCap, RoomMade
    <3> QED BY <1>1, <3>3 DEF CapInv
   <2>3. CASE MustEvict /\ ~UNCHANGED seStore
    <3> DEFINE old == CHOOSE i \in Active : \A j \in Active : seStore[i].created <= seStore[j].created
               s == [seStore[old] EXCEPT !.revoked = TRUE]
    <3>1. SaveSession(s) BY <1>8, <2>3 DEF CreateEvicts
    <3>2. \E i \in Active : \A j \in Active : seStore[i].created <= seStore[j].created
      BY <1>1, <2>3, OldestActive
    <3>3. old \in Active BY <3>2
    <3>4. old \in DOMAIN seStore /\ seStore[old].id \in ActiveIds BY <3>3 DEF Active, ActiveIds
    <3> HIDE DEF old
    <3>5. s \in SessionRecord /\ s.revoked /\ s.id \in ActiveIds BY <1>2, <3>4 DEF SessionRecord
    <3> HIDE DEF s
    <3>6. OneRecordEach' /\ ActiveIds' \subseteq ActiveIds \ {s.id} BY <1>1, <3>1, <3>5, SaveIds
    <3>7. Cardinality(ActiveIds \ {s.id}) = Cardinality(ActiveIds) - 1 /\ IsFiniteSet(ActiveIds \ {s.id})
      BY <1>3, <3>5, FS_RemoveElement
    <3>8. Cardinality(ActiveIds') <= Cardinality(ActiveIds \ {s.id}) BY <3>6, <3>7, FS_Subset
    <3>9. Cardinality(Active') = Cardinality(ActiveIds') /\ Cardinality(Active') \in Nat
      BY <1>1, <3>6, ActiveByIdsNext
    <3>10. Cardinality(Active') < MaxConcurrent BY <1>3, <3>7, <3>8, <3>9
    <3> QED BY <1>1, <1>3, <3>6, <3>9, <3>10 DEF CapInv, ActiveWithinCap, RoomMade
   <2>4. CASE MustEvict /\ UNCHANGED seStore
    <3> DEFINE old == CHOOSE i \in Active : \A j \in Active : seStore[i].created <= seStore[j].created
               s == [seStore[old] EXCEPT !.revoked = TRUE]
    <3>1. SaveSession(s) BY <1>8, <2>4 DEF CreateEvicts
    <3>2. \E i \in Active : \A j \in Active : seStore[i].created <= seStore[j].created
      BY <1>1, <2>4, OldestActive
    <3>3. old \in Active BY <3>2
    <3>4. old \in DOMAIN seStore /\ ~seStore[old].revoked BY <3>3 DEF Active
    <3> HIDE DEF old
    <3>5. s \in SessionRecord /\ s.revoked /\ s.id = seStore[old].id BY <1>2, <3>4 DEF SessionRecord
    <3> HIDE DEF s
    <3>6. Places(s.id) # {} BY <3>4, <3>5 DEF Places
    <3>7. seStore'[old] = s BY <3>1, <3>4, <3>5, <3>6 DEF SaveSession
    <3> QED BY <2>4, <3>4, <3>5, <3>7
   <2> QED BY <1>8, <2>2, <2>3, <2>4 DEF CreateEvicts
  <1>9. ASSUME NEW c \in Calls, CreateSaves(c)
        PROVE  CapInv'
   <2> DEFINE s == [id |-> seHist.made + 1, revoked |-> FALSE, created |-> seNow, last |-> seNow]
   <2>1. /\ seCall[c].pc = "save" /\ seLock = c /\ SaveSession(s) /\ seCall' = [seCall EXCEPT ![c] = IdleCall]
     BY <1>1, <1>9 DEF CreateSaves, AtCall, CallEnds, SessionInv, LockedSteps
   <2>2. s \in SessionRecord /\ s.id \in Nat /\ ~s.revoked BY <1>2 DEF SessionRecord
   <2> HIDE DEF s
   <2>3. OneRecordEach' /\ ActiveIds' \subseteq ActiveIds \cup {s.id} BY <1>1, <2>1, <2>2, SaveIds
   <2>4. /\ IsFiniteSet(ActiveIds \cup {s.id})
         /\ Cardinality(ActiveIds \cup {s.id}) <= Cardinality(ActiveIds) + 1
     BY <1>3, FS_AddElement
   <2>5. /\ Cardinality(ActiveIds') <= Cardinality(ActiveIds \cup {s.id})
         /\ Cardinality(ActiveIds \cup {s.id}) \in Nat
     BY <2>3, <2>4, FS_Subset, FS_CardinalityType
   <2>6. Cardinality(Active') = Cardinality(ActiveIds') /\ Cardinality(Active') \in Nat
     BY <1>1, <2>3, ActiveByIdsNext
   <2>7. Cardinality(Active) < MaxConcurrent BY <1>1, <2>1 DEF RoomMade
   <2>8. ActiveWithinCap' BY <1>3, <2>4, <2>5, <2>6, <2>7 DEF ActiveWithinCap
   <2>9. RoomMade'
    <3>1. \A d \in Calls \ {c} : seCall[d].pc # "save" BY <1>1, <2>1 DEF SessionInv, LockedSteps
    <3>2. \A d \in Calls : seCall'[d].pc # "save" BY <1>2, <1>7, <2>1, <3>1
    <3> QED BY <3>2 DEF RoomMade
   <2> QED BY <1>1, <2>3, <2>8, <2>9 DEF CapInv
  <1>10. ASSUME NEW c \in Calls, TouchSaves(c)
         PROVE  CapInv'
   <2> DEFINE r == seCall[c].read
              s == [r EXCEPT !.last = seNow]
   <2>1. /\ seCall' = [seCall EXCEPT ![c] = IdleCall]
         /\ r = Lookup(seCall[c].id) /\ seCall[c].id \in Nat
     BY <1>1, <1>2, <1>10 DEF TouchSaves, AtCall, CallEnds, SessionInv, LockedSteps, CallType
   <2>2. \A d \in Calls : seCall'[d].pc = "save" => seCall[d].pc = "save" BY <1>6, <1>7, <2>1
   <2>3. CASE Usable(r) /\ SaveSession(s)
    <3>1. r # NoSession /\ ~r.revoked BY <2>3 DEF Usable
    <3>2. r \in SessionRecord /\ r.id \in ActiveIds BY <1>4, <2>1, <3>1
    <3> HIDE DEF r
    <3>3. s \in SessionRecord /\ s.id = r.id /\ ~s.revoked BY <1>2, <3>1, <3>2 DEF SessionRecord
    <3> HIDE DEF s
    <3>4. OneRecordEach' /\ ActiveIds' \subseteq ActiveIds \cup {s.id} BY <1>1, <2>3, <3>3, SaveIds
    <3> QED BY <1>1, <2>2, <3>2, <3>3, <3>4, FewerKeep
   <2>4. CASE UNCHANGED seStore BY <1>5, <2>2, <2>4
   <2> QED BY <1>10, <2>3, <2>4 DEF TouchSaves
  <1>11. ASSUME NEW c \in Calls, RevokeSaves(c)
         PROVE  CapInv'
   <2> DEFINE r == Lookup(seCall[c].id)
              s == [r EXCEPT !.revoked = TRUE]
   <2>1. seCall' = [seCall EXCEPT ![c] = IdleCall] /\ seCall[c].id \in Nat
     BY <1>2, <1>11 DEF RevokeSaves, CallType
   <2>2. \A d \in Calls : seCall'[d].pc = "save" => seCall[d].pc = "save" BY <1>6, <1>7, <2>1
   <2>3. CASE SaveSession(s)
    <3>1. r \in SessionRecord BY <1>4, <2>1
    <3> HIDE DEF r
    <3>2. s \in SessionRecord /\ s.revoked BY <3>1 DEF SessionRecord
    <3> HIDE DEF s
    <3>3. OneRecordEach' /\ ActiveIds' \subseteq ActiveIds BY <1>1, <2>3, <3>2, SaveIds
    <3> QED BY <1>1, <2>2, <3>3, FewerKeep
   <2>4. CASE UNCHANGED seStore BY <1>5, <2>2, <2>4
   <2> QED BY <1>11, <2>3, <2>4 DEF RevokeSaves
  <1>12. ASSUME NEW c \in Calls, RevokeAll(c)
         PROVE  CapInv'
   <2>1. seCall' = seCall /\ seStore' = [i \in DOMAIN seStore |-> [seStore[i] EXCEPT !.revoked = TRUE]]
     BY <1>12 DEF RevokeAll
   <2>2. \A i \in DOMAIN seStore : /\ [seStore[i] EXCEPT !.revoked = TRUE].id = seStore[i].id
                                   /\ [seStore[i] EXCEPT !.revoked = TRUE].revoked
     BY <1>2 DEF SessionRecord
   <2>5. DOMAIN seStore' = DOMAIN seStore /\ \A i \in DOMAIN seStore : seStore'[i].id = seStore[i].id
     BY <2>1, <2>2
   <2>3. OneRecordEach' BY <1>1, <2>5 DEF OneRecordEach
   <2>4. ActiveIds' \subseteq ActiveIds BY <2>1, <2>2 DEF ActiveIds, Active
   <2> QED BY <1>1, <2>1, <2>3, <2>4, FewerKeep
  <1>13. ASSUME NEW c \in Calls, CreateLocks(c) \/ TouchLocks(c)
                                 \/ \E id \in 1..MaxSessions : TouchReads(c, id) \/ RevokeReads(c, id)
         PROVE  CapInv'
   <2>1. UNCHANGED seStore BY <1>13 DEF CreateLocks, TouchLocks, TouchReads, RevokeReads
   <2>2. seCall'[c].pc # "save" /\ \A d \in Calls \ {c} : seCall'[d] = seCall[d]
     BY <1>2, <1>13 DEF CreateLocks, TouchLocks, TouchReads, RevokeReads, CallType
   <2>3. \A d \in Calls : seCall'[d].pc = "save" => seCall[d].pc = "save" BY <2>2
   <2> QED BY <1>5, <2>1, <2>3
  <1>14. CASE ClockTicks \/ UNCHANGED seVars BY <1>5, <1>14 DEF ClockTicks, seVars
  <1> QED BY <1>8, <1>9, <1>10, <1>11, <1>12, <1>13, <1>14 DEF SessionNext

----------------------------------------
(* Refresh tokens. *)

TokenShape ==
    /\ rtRows \in [TokenIds -> {"none", "live", "expired", "revoked"}]
    /\ rtActive \in BOOLEAN
    /\ rtReq \in [Requests -> [pc : {"idle", "rotated", "logout"}, token : TokenIds \cup {0}, saw : SUBSET TokenIds]]
    /\ DOMAIN rtLocks = TokenIds
    /\ rtHist \in [issued : Nat, heirs : [TokenIds -> Nat], toggles : Nat]

\* A request that rotates a token holds its row, which nobody revokes meanwhile.
RotatedIsHeld ==
    \A r \in Requests : rtReq[r].pc = "rotated" =>
        LET t == rtReq[r].token
        IN t \in TokenIds /\ rtLocks[t] = r /\ rtRows[t] \in {"live", "expired"}

\* Rows there are have been issued, and so were those a logout saw.
RowsAreIssued ==
    /\ \A t \in TokenIds : rtRows[t] # "none" => t <= rtHist.issued
    /\ \A r \in Requests : \A t \in rtReq[r].saw : t <= rtHist.issued

TokenInv == TokenShape /\ RotatedIsHeld /\ RowsAreIssued /\ ExchangedOnce

(* No refresh token was issued at the start. *)
LEMMA TokenStarts == TokenInit => TokenInv
  <1> SUFFICES ASSUME TokenInit
               PROVE  TokenInv
    OBVIOUS
  <1>1. TokenShape
   <2>1. rtReq \in [Requests -> [pc : {"idle", "rotated", "logout"}, token : TokenIds \cup {0}, saw : SUBSET TokenIds]]
     BY DEF TokenInit, IdleReq
   <2>2. rtHist \in [issued : Nat, heirs : [TokenIds -> Nat], toggles : Nat] BY DEF TokenInit
   <2> QED BY <2>1, <2>2 DEF TokenInit, TokenShape
  <1>2. RotatedIsHeld /\ RowsAreIssued /\ ExchangedOnce
    BY DEF TokenInit, IdleReq, RotatedIsHeld, RowsAreIssued, ExchangedOnce
  <1> QED BY <1>1, <1>2 DEF TokenInv

(* A step that leaves the requests and the tokens' successors alone, and revokes no row
   that a request holds. *)
LEMMA RowsOnly ==
    ASSUME TokenInv, TokenShape', rtReq' = rtReq, rtHist'.heirs = rtHist.heirs,
           rtHist'.issued = rtHist.issued, rtLocks' = rtLocks,
           \A t \in TokenIds : \/ rtRows'[t] = rtRows[t]
                               \/ rtRows[t] = "live" /\ rtRows'[t] = "expired"
                               \/ rtLocks[t] = "free" /\ rtRows[t] # "none" /\ rtRows'[t] = "revoked"
    PROVE  TokenInv'
  BY TokenAssumption DEF TokenInv, RotatedIsHeld, RowsAreIssued, ExchangedOnce, TokenShape

(* Every step of the refresh tokens keeps their invariant. *)
LEMMA TokenSteps ==
    ASSUME TokenInv, [TokenNext]_rtVars
    PROVE  TokenInv'
  <1> USE DEF TokenInv
  <1>1. ASSUME NEW r \in Requests, Login(r)
        PROVE  TokenInv'
   <2> DEFINE n == rtHist.issued + 1
   <2>1. /\ n \in TokenIds /\ rtHist.issued \in Nat
         /\ rtRows' = [rtRows EXCEPT ![n] = "live"]
         /\ rtHist'.issued = n /\ rtHist'.heirs = rtHist.heirs
         /\ UNCHANGED <<rtActive, rtReq, rtLocks>>
     BY <1>1, TokenAssumption DEF Login, TokenShape, TokenIds
   <2>2. TokenShape' BY <1>1, <2>1 DEF Login, TokenShape
   <2>3. rtRows[n] = "none" BY <2>1 DEF RowsAreIssued, TokenShape
   <2>4. RotatedIsHeld' BY <2>1, <2>3 DEF RotatedIsHeld, TokenShape
   <2>5. RowsAreIssued' BY <2>1 DEF RowsAreIssued, TokenShape, TokenIds
   <2>6. ExchangedOnce' BY <2>1, <2>3 DEF ExchangedOnce, TokenShape
   <2> QED BY <2>2, <2>4, <2>5, <2>6
  <1>2. ASSUME NEW r \in Requests, Refreshed(r)
        PROVE  TokenInv'
   <2> DEFINE n == rtHist.issued + 1
              t == rtReq[r].token
   <2>1. /\ n \in TokenIds /\ rtHist.issued \in Nat
         /\ rtReq[r].pc = "rotated"
         /\ rtRows' = [rtRows EXCEPT ![t] = "revoked", ![n] = "live"]
         /\ rtHist' = [rtHist EXCEPT !.issued = @ + 1, !.heirs[t] = @ + 1]
         /\ rtLocks' = Unlocked(r) /\ rtReq' = [rtReq EXCEPT ![r] = IdleReq]
         /\ UNCHANGED rtActive
     BY <1>2, TokenAssumption DEF Refreshed, AtReq, ReqEnds, TokenShape, TokenIds
   <2>2. t \in TokenIds /\ rtLocks[t] = r /\ rtRows[t] \in {"live", "expired"}
     BY <2>1 DEF RotatedIsHeld
   <2>3. rtRows[n] = "none" /\ n # t BY <2>1, <2>2 DEF RowsAreIssued, TokenShape
   <2>4. rtHist.heirs[t] = 0 BY <2>2 DEF ExchangedOnce, TokenShape
   <2>5. /\ rtHist'.issued = n
         /\ rtHist'.heirs = [rtHist.heirs EXCEPT ![t] = rtHist.heirs[t] + 1]
     BY <2>1 DEF TokenShape
   <2>6. TokenShape'
    <3>1. rtHist' = [issued |-> n, heirs |-> [rtHist.heirs EXCEPT ![t] = rtHist.heirs[t] + 1],
                     toggles |-> rtHist.toggles]
      BY <2>1 DEF TokenShape
    <3>2. [rtHist.heirs EXCEPT ![t] = rtHist.heirs[t] + 1] \in [TokenIds -> Nat]
      BY <2>2, <2>4 DEF TokenShape
    <3>3. rtHist' \in [issued : Nat, heirs : [TokenIds -> Nat], toggles : Nat]
     <4>1. n \in Nat /\ rtHist.toggles \in Nat BY <2>1 DEF TokenShape
     <4> HIDE DEF n
     <4> QED BY <3>1, <3>2, <4>1
    <3>4. /\ rtRows' \in [TokenIds -> {"none", "live", "expired", "revoked"}]
          /\ DOMAIN rtLocks' = TokenIds
      BY <2>1 DEF TokenShape, Unlocked
    <3>5. rtReq' \in [Requests -> [pc : {"idle", "rotated", "logout"}, token : TokenIds \cup {0},
                                   saw : SUBSET TokenIds]]
      BY <2>1 DEF TokenShape, IdleReq
    <3> QED BY <2>1, <3>3, <3>4, <3>5 DEF TokenShape
   <2>7. \A q \in Requests \ {r} : rtReq'[q] = rtReq[q] BY <2>1 DEF TokenShape
   <2>8. rtReq'[r] = IdleReq BY <2>1 DEF TokenShape
   <2>9. RotatedIsHeld'
     BY <2>1, <2>2, <2>3, <2>7, <2>8 DEF RotatedIsHeld, TokenShape, IdleReq, Unlocked
   <2>10. RowsAreIssued'
    <3>1. \A i \in TokenIds : rtRows'[i] # "none" => i <= n
      BY <2>1, <2>2 DEF RowsAreIssued, TokenShape, TokenIds
    <3>2. \A q \in Requests : \A i \in rtReq'[q].saw : i <= n
      BY <2>1, <2>7, <2>8 DEF RowsAreIssued, TokenShape, TokenIds, IdleReq
    <3> QED BY <2>5, <3>1, <3>2 DEF RowsAreIssued
   <2>11. ExchangedOnce'
    <3>1. ASSUME NEW i \in TokenIds
          PROVE  rtHist'.heirs[i] <= 1 /\ (rtHist'.heirs[i] = 1 => rtRows'[i] = "revoked")
     <4>1. CASE i = t BY <2>1, <2>2, <2>3, <2>4, <2>5, <4>1 DEF TokenShape
     <4>2. CASE i = n BY <2>1, <2>3, <2>5, <4>2 DEF TokenShape, ExchangedOnce
     <4>3. CASE i # t /\ i # n BY <2>1, <2>5, <4>3 DEF TokenShape, ExchangedOnce
     <4> QED BY <4>1, <4>2, <4>3
    <3> QED BY <3>1 DEF ExchangedOnce
   <2> QED BY <2>6, <2>9, <2>10, <2>11
  <1>3. ASSUME NEW r \in Requests, RotationUndone(r)
        PROVE  TokenInv'
   <2>1. /\ rtLocks' = Unlocked(r) /\ rtReq' = [rtReq EXCEPT ![r] = IdleReq]
         /\ UNCHANGED <<rtRows, rtActive, rtHist>>
     BY <1>3 DEF RotationUndone, ReqEnds
   <2>2. TokenShape' BY <2>1 DEF TokenShape, Unlocked, IdleReq
   <2>3. RotatedIsHeld' BY <2>1 DEF RotatedIsHeld, TokenShape, IdleReq, Unlocked
   <2>4. RowsAreIssued' /\ ExchangedOnce'
     BY <2>1 DEF RowsAreIssued, ExchangedOnce, TokenShape, IdleReq
   <2> QED BY <2>2, <2>3, <2>4
  <1>4. ASSUME NEW r \in Requests, LogoutAllBegins(r)
        PROVE  TokenInv'
   <2>1. /\ rtReq' = [rtReq EXCEPT ![r] = [pc |-> "logout", token |-> 0, saw |-> Unrevoked]]
         /\ UNCHANGED <<rtRows, rtActive, rtLocks, rtHist>>
     BY <1>4 DEF LogoutAllBegins
   <2>2. Unrevoked \in SUBSET TokenIds /\ \A t \in Unrevoked : t <= rtHist.issued
     BY DEF Unrevoked, RowsAreIssued
   <2>3. TokenShape' BY <2>1, <2>2 DEF TokenShape
   <2>4. RotatedIsHeld' BY <2>1 DEF RotatedIsHeld, TokenShape
   <2>5. RowsAreIssued' /\ ExchangedOnce' BY <2>1, <2>2 DEF RowsAreIssued, ExchangedOnce, TokenShape
   <2> QED BY <2>3, <2>4, <2>5
  <1>5. ASSUME NEW r \in Requests, LogoutAllEnds(r)
        PROVE  TokenInv'
   <2>1. /\ \A t \in rtReq[r].saw : rtLocks[t] = "free"
         /\ rtRows' = [t \in TokenIds |-> IF t \in rtReq[r].saw THEN "revoked" ELSE rtRows[t]]
         /\ rtReq' = [rtReq EXCEPT ![r] = IdleReq]
         /\ UNCHANGED <<rtActive, rtLocks, rtHist>>
     BY <1>5 DEF LogoutAllEnds, ReqEnds
   <2>2. TokenShape' BY <2>1 DEF TokenShape, IdleReq
   <2>3. RotatedIsHeld' BY <2>1, TokenAssumption DEF RotatedIsHeld, TokenShape, IdleReq
   <2>4. RowsAreIssued' /\ ExchangedOnce'
     BY <2>1 DEF RowsAreIssued, ExchangedOnce, TokenShape, IdleReq
   <2> QED BY <2>2, <2>3, <2>4
  <1>6. ASSUME NEW r \in Requests, NEW t \in TokenIds, Rotate(r, t)
        PROVE  TokenInv'
   <2>1. /\ rtReq[r].pc = "idle" /\ rtLocks[t] = "free" /\ rtRows[t] \in {"live", "expired"}
         /\ rtReq' = [rtReq EXCEPT ![r] = [pc |-> "rotated", token |-> t, saw |-> {}]]
         /\ rtLocks' = [rtLocks EXCEPT ![t] = r]
         /\ UNCHANGED <<rtRows, rtActive, rtHist>>
     BY <1>6 DEF Rotate, AtReq
   <2>2. TokenShape' BY <2>1 DEF TokenShape
   <2>3. RotatedIsHeld' BY <2>1, TokenAssumption DEF RotatedIsHeld, TokenShape
   <2>4. RowsAreIssued' /\ ExchangedOnce' BY <2>1 DEF RowsAreIssued, ExchangedOnce, TokenShape
   <2> QED BY <2>2, <2>3, <2>4
  <1>7. ASSUME NEW r \in Requests, NEW t \in TokenIds, LogoutOne(r, t)
        PROVE  TokenInv'
   <2>1. TokenShape' BY <1>7 DEF LogoutOne, TokenShape
   <2> QED BY <1>7, <2>1, RowsOnly DEF LogoutOne, TokenShape
  <1>8. ASSUME NEW t \in TokenIds, Expire(t)
        PROVE  TokenInv'
   <2>1. TokenShape' BY <1>8 DEF Expire, TokenShape
   <2> QED BY <1>8, <2>1, RowsOnly DEF Expire, TokenShape
  <1>9. CASE SetActive
   <2>1. /\ rtActive' = ~rtActive /\ rtHist' = [rtHist EXCEPT !.toggles = @ + 1]
         /\ UNCHANGED <<rtRows, rtReq, rtLocks>>
     BY <1>9 DEF SetActive
   <2>2. /\ rtHist' \in [issued : Nat, heirs : [TokenIds -> Nat], toggles : Nat]
         /\ rtHist'.issued = rtHist.issued /\ rtHist'.heirs = rtHist.heirs
     BY <2>1 DEF TokenShape
   <2>3. TokenShape' BY <2>1, <2>2, Zenon DEF TokenShape
   <2> QED BY <2>1, <2>2, <2>3, RowsOnly
  <1>10. CASE UNCHANGED rtVars
    BY <1>10 DEF rtVars, TokenShape, RotatedIsHeld, RowsAreIssued, ExchangedOnce
  <1> QED BY <1>1, <1>2, <1>3, <1>4, <1>5, <1>6, <1>7, <1>8, <1>9, <1>10 DEF TokenNext

----------------------------------------
(* The second factor. *)

AllCodes == UNION {CodeSet(n) : n \in Nat}

MfaRow == [secret : Nat, codes : SUBSET AllCodes]

MfaShape ==
    /\ crMfa \in MfaRow
    /\ crSets \in Nat /\ crRaced \in BOOLEAN
    /\ DOMAIN crCalls = MfaCalls
    /\ \A c \in InCall : crCalls[c].pc \in {"verify", "disable", "regen"} /\ crCalls[c].row \in MfaRow
    /\ crUsed \in [UNION {CodeSet(n) : n \in 1..MaxSets} -> Nat]

\* As long as no two requests held the row at once, the one that holds it has the row as
\* it is, which is switched on until that request is over.
RowIsCurrent ==
    ~crRaced => /\ \A c, d \in InCall : c = d
                /\ \A c \in InCall : crCalls[c].row = crMfa /\ crMfa.secret # 0

\* Codes still in the row, and codes of sets to come, were accepted by nobody.
FreshUnused ==
    ~crRaced => /\ \A k \in crMfa.codes : \E n \in 1..crSets : k \in CodeSet(n)
                /\ \A k \in DOMAIN crUsed :
                      k \in crMfa.codes \/ (\E n \in Nat : n > crSets /\ k \in CodeSet(n)) => crUsed[k] = 0

MfaInv == MfaShape /\ RowIsCurrent /\ FreshUnused /\ CodesSingleUse

(* A code belongs to one set. *)
LEMMA SetOfCode ==
    ASSUME NEW m \in Nat, NEW n \in Nat, NEW k, k \in CodeSet(m), k \in CodeSet(n)
    PROVE  m = n
  BY DEF CodeSet

(* No backup code was spent at the start. *)
LEMMA MfaStarts == MfaInit => MfaInv
  <1> SUFFICES ASSUME MfaInit
               PROVE  MfaInv
    OBVIOUS
  <1>1. InCall = {} /\ crMfa.codes = {} /\ ~crRaced BY DEF MfaInit, InCall
  <1>2. crRaced \in BOOLEAN /\ crUsed \in [UNION {CodeSet(n) : n \in 1..MaxSets} -> Nat]
    BY DEF MfaInit
  <1>3. MfaShape BY <1>1, <1>2 DEF MfaInit, MfaShape, MfaRow
  <1>4. RowIsCurrent /\ FreshUnused /\ CodesSingleUse
    BY <1>1 DEF MfaInit, RowIsCurrent, FreshUnused, CodesSingleUse
  <1> QED BY <1>3, <1>4 DEF MfaInv

(* A call that ends leaves the other calls as they were. *)
LEMMA CallOver ==
    ASSUME MfaInv, NEW c \in InCall, crCalls' = [crCalls EXCEPT ![c] = Resting]
    PROVE  /\ InCall' = InCall \ {c} /\ DOMAIN crCalls' = MfaCalls
           /\ \A d \in InCall' : d \in InCall /\ crCalls'[d] = crCalls[d]
           /\ ~crRaced => InCall' = {}
  <1>1. /\ InCall' = InCall \ {c} /\ DOMAIN crCalls' = MfaCalls
        /\ \A d \in InCall' : d \in InCall /\ crCalls'[d] = crCalls[d]
    BY DEF MfaInv, MfaShape, InCall
  <1> QED BY <1>1 DEF MfaInv, RowIsCurrent

(* What a request that is over makes of the row and of the sets. *)
LEMMA EffectKeeps ==
    ASSUME MfaInv, NEW c \in InCall, NEW k,
           crMfa' = Effect(crCalls[c].pc, crCalls[c].row, k),
           crSets' = IF crCalls[c].pc = "regen" THEN crSets + 1 ELSE crSets
    PROVE  /\ crMfa' \in MfaRow /\ crSets' \in Nat /\ crSets' >= crSets
           /\ ~crRaced => \/ crMfa'.codes \subseteq crMfa.codes \ {k} /\ crSets' = crSets
                          \/ crMfa'.codes = {} /\ crSets' = crSets
                          \/ crMfa'.codes = CodeSet(crSets + 1) /\ crSets' = crSets + 1
  <1> DEFINE q == crCalls[c]
  <1>1. q.pc \in {"verify", "disable", "regen"} /\ q.row \in MfaRow /\ crSets \in Nat
    BY DEF MfaInv, MfaShape
  <1>2. ~crRaced => q.row = crMfa BY DEF MfaInv, RowIsCurrent
  <1> HIDE DEF q
  <1>3. crMfa' = Effect(q.pc, q.row, k) /\ crSets' = IF q.pc = "regen" THEN crSets + 1 ELSE crSets
    BY DEF q
  <1>4. CASE q.pc = "verify"
   <2>1. crMfa' = [q.row EXCEPT !.codes = q.row.codes \ {k}] /\ crSets' = crSets
     BY <1>3, <1>4 DEF Effect
   <2>2. crMfa' \in MfaRow /\ crMfa'.codes = q.row.codes \ {k} BY <1>1, <2>1 DEF MfaRow
   <2> QED BY <1>1, <1>2, <2>1, <2>2
  <1>5. CASE q.pc = "disable"
   <2>1. crMfa' = [secret |-> 0, codes |-> {}] /\ crSets' = crSets BY <1>3, <1>5 DEF Effect
   <2> QED BY <1>1, <2>1 DEF MfaRow
  <1>6. CASE q.pc = "regen"
   <2>1. crMfa' = [q.row EXCEPT !.codes = CodeSet(crSets + 1)] /\ crSets' = crSets + 1
     BY <1>3, <1>6 DEF Effect
   <2>2. CodeSet(crSets + 1) \in SUBSET AllCodes BY <1>1 DEF AllCodes
   <2>3. crMfa' \in MfaRow /\ crMfa'.codes = CodeSet(crSets + 1) BY <1>1, <2>1, <2>2 DEF MfaRow
   <2> QED BY <1>1, <2>1, <2>3
  <1> QED BY <1>1, <1>4, <1>5, <1>6

\* A request ends having used up the codes of used, in the row it leaves.
EndsSpending(c, used) ==
    /\ crCalls' = [crCalls EXCEPT ![c] = Resting] /\ UNCHANGED crRaced
    /\ crMfa' \in MfaRow /\ crSets' \in Nat /\ crSets' >= crSets
    /\ ~crRaced => \/ crMfa'.codes \subseteq crMfa.codes \ used /\ crSets' = crSets
                   \/ crMfa'.codes = {} /\ crSets' = crSets
                   \/ crMfa'.codes = CodeSet(crSets + 1) /\ crSets' = crSets + 1
    /\ used \subseteq DOMAIN crUsed
    /\ ~crRaced => used \subseteq crMfa.codes
    /\ crUsed' \in [DOMAIN crUsed -> Nat]
    /\ \A x \in DOMAIN crUsed \ used : crUsed'[x] = crUsed[x]
    /\ \A x \in used : crUsed[x] = 0 => crUsed'[x] = 1

(* A call that ends with or without spending a code keeps the invariant. *)
LEMMA EndKeeps ==
    ASSUME MfaInv, NEW c \in InCall, NEW used, EndsSpending(c, used)
    PROVE  MfaInv'
  <1> USE DEF MfaInv
  <1> USE DEF EndsSpending
  <1>1. /\ InCall' \subseteq InCall /\ DOMAIN crCalls' = MfaCalls
        /\ \A d \in InCall' : d \in InCall /\ crCalls'[d] = crCalls[d]
        /\ ~crRaced => InCall' = {}
    BY CallOver
  <1>2. MfaShape'
   <2>1. \A d \in InCall' : crCalls'[d].pc \in {"verify", "disable", "regen"} /\ crCalls'[d].row \in MfaRow
     BY <1>1 DEF MfaShape
   <2>2. crUsed' \in [UNION {CodeSet(n) : n \in 1..MaxSets} -> Nat] BY DEF MfaShape
   <2>3. crRaced' \in BOOLEAN BY Zenon DEF MfaShape
   <2> QED BY <1>1, <2>1, <2>2, <2>3 DEF MfaShape
  <1>3. RowIsCurrent' BY <1>1 DEF RowIsCurrent
  <1>4. ASSUME ~crRaced
        PROVE  /\ \A k \in crMfa'.codes : \E n \in 1..crSets' : k \in CodeSet(n)
               /\ \A k \in DOMAIN crUsed :
                     k \in crMfa'.codes \/ (\E n \in Nat : n > crSets' /\ k \in CodeSet(n)) => crUsed'[k] = 0
   <2>1. crSets \in Nat /\ crSets + 1 \in Nat /\ crSets + 1 > crSets /\ crSets + 1 \in 1..(crSets + 1)
     BY DEF MfaShape
   <2>2. \A x \in used : \A n \in Nat : x \in CodeSet(n) => n <= crSets
    <3> SUFFICES ASSUME NEW x \in used, NEW n \in Nat, x \in CodeSet(n) PROVE n <= crSets
      OBVIOUS
    <3>1. PICK m \in 1..crSets : x \in CodeSet(m)
      BY <1>4 DEF FreshUnused
    <3>2. m \in Nat /\ m <= crSets BY <2>1
    <3>3. m = n BY <3>1, <3>2, SetOfCode
    <3> QED BY <3>2, <3>3
   <2>3. \A n \in Nat : n > crSets' => n > crSets /\ ~(n <= crSets) BY <2>1
   <2>4. \A k \in DOMAIN crUsed : (\E n \in Nat : n > crSets' /\ k \in CodeSet(n)) => crUsed'[k] = 0
     BY <1>4, <2>2, <2>3 DEF FreshUnused
   <2>5. CASE crMfa'.codes \subseteq crMfa.codes \ used /\ crSets' = crSets
     BY <1>4, <2>4, <2>5 DEF FreshUnused
   <2>6. CASE crMfa'.codes = {} /\ crSets' = crSets BY <2>4, <2>6
   <2>7. CASE crMfa'.codes = CodeSet(crSets + 1) /\ crSets' = crSets + 1
    <3>1. ~(crSets + 1 <= crSets) BY <2>1
    <3>2. \A k \in CodeSet(crSets + 1) : k \notin used BY <2>1, <2>2, <3>1
    <3>3. \A k \in DOMAIN crUsed : k \in CodeSet(crSets + 1) => crUsed'[k] = 0
      BY <1>4, <2>1, <3>2 DEF FreshUnused
    <3> QED BY <2>1, <2>4, <2>7, <3>3
   <2> QED BY <1>4, <2>5, <2>6, <2>7
  <1>5. FreshUnused' BY <1>4 DEF FreshUnused
  <1>6. CodesSingleUse'
   <2> SUFFICES ASSUME ~crRaced, NEW k \in DOMAIN crUsed
                PROVE  crUsed'[k] <= 1
     BY DEF CodesSingleUse
   <2>1. CASE k \in used BY <2>1 DEF FreshUnused
   <2>2. CASE k \notin used BY <2>2 DEF CodesSingleUse
   <2> QED BY <2>1, <2>2
  <1> QED BY <1>2, <1>3, <1>5, <1>6

(* Every step of the second factor keeps its invariant. *)
LEMMA MfaSteps ==
    ASSUME MfaInv, [MfaNext]_crVars
    PROVE  MfaInv'
  <1> USE DEF MfaInv
  <1>1. CASE Confirm
   <2>1. /\ crMfa.secret = 0 /\ crSets' = crSets + 1 /\ crSets \in Nat
         /\ crMfa' = [secret |-> crSets + 1, codes |-> CodeSet(crSets + 1)]
         /\ UNCHANGED <<crCalls, crUsed, crRaced, crStep>>
     BY <1>1 DEF Confirm, MfaShape
   <2>2. CodeSet(crSets + 1) \in SUBSET AllCodes BY <2>1 DEF AllCodes
   <2>3. InCall' = InCall BY <2>1 DEF InCall
   <2>4. MfaShape' BY <2>1, <2>2, <2>3 DEF MfaShape, MfaRow
   <2>5. RowIsCurrent' BY <2>1, <2>3 DEF RowIsCurrent
   <2>6. FreshUnused'
    <3> SUFFICES ASSUME ~crRaced
                 PROVE  /\ \A k \in crMfa'.codes : \E n \in 1..crSets' : k \in CodeSet(n)
                        /\ \A k \in DOMAIN crUsed :
                              k \in crMfa'.codes \/ (\E n \in Nat : n > crSets' /\ k \in CodeSet(n))
                              => crUsed[k] = 0
      BY <2>1 DEF FreshUnused
    <3>1. crSets + 1 \in 1..crSets' /\ crSets + 1 \in Nat /\ crSets + 1 > crSets BY <2>1
    <3>2. \A n \in Nat : n > crSets' => n > crSets BY <2>1
    <3>3. crMfa'.codes = CodeSet(crSets + 1) BY <2>1
    <3> QED BY <3>1, <3>2, <3>3 DEF FreshUnused
   <2>7. CodesSingleUse' BY <2>1 DEF CodesSingleUse
   <2> QED BY <2>4, <2>5, <2>6, <2>7
  <1>2. CASE StepPasses
    BY <1>2 DEF StepPasses, MfaShape, InCall, RowIsCurrent, FreshUnused, CodesSingleUse
  <1>3. ASSUME NEW c \in MfaCalls, NEW what \in {"verify", "disable", "regen"}, NEW issued,
               ReadRow(c, what, issued)
        PROVE  MfaInv'
   <2>1. /\ crMfa.secret # 0 /\ crCalls' = [crCalls EXCEPT ![c] = [pc |-> what, row |-> crMfa]]
         /\ crRaced' = (crRaced \/ InCall # {})
         /\ UNCHANGED <<crMfa, crSets, crUsed, crStep>>
     BY <1>3 DEF ReadRow
   <2>2. /\ DOMAIN crCalls' = MfaCalls /\ \A d \in MfaCalls \ {c} : crCalls'[d] = crCalls[d]
         /\ crCalls'[c].pc = what /\ crCalls'[c].row = crMfa
     BY <2>1 DEF MfaShape
   <2>3. InCall' \subseteq InCall \cup {c} BY <2>2 DEF InCall
   <2>4. MfaShape'
    <3>1. \A d \in InCall' : /\ crCalls'[d].pc \in {"verify", "disable", "regen"}
                             /\ crCalls'[d].row \in MfaRow
      BY <2>2, <2>3 DEF MfaShape, InCall
    <3>2. crRaced' \in BOOLEAN BY <2>1
    <3> QED BY <2>1, <2>2, <3>1, <3>2 DEF MfaShape
   <2>5. ~crRaced' => ~crRaced /\ InCall' \subseteq {c} BY <2>1, <2>3
   <2>6. RowIsCurrent' BY <2>1, <2>2, <2>5 DEF RowIsCurrent
   <2>7. FreshUnused' /\ CodesSingleUse' BY <2>1, <2>5 DEF FreshUnused, CodesSingleUse
   <2> QED BY <2>4, <2>6, <2>7
  <1>4. ASSUME NEW c \in MfaCalls, NEW k \in DOMAIN crUsed, BackupAccepted(c, k)
        PROVE  MfaInv'
   <2>1. /\ c \in InCall /\ k \in crCalls[c].row.codes
         /\ crMfa' = Effect(crCalls[c].pc, crCalls[c].row, k)
         /\ crSets' = IF crCalls[c].pc = "regen" THEN crSets + 1 ELSE crSets
         /\ crUsed' = [crUsed EXCEPT ![k] = IF crUsed[k] = 2 THEN 2 ELSE crUsed[k] + 1]
         /\ crCalls' = [crCalls EXCEPT ![c] = Resting] /\ UNCHANGED crRaced
     BY <1>4 DEF BackupAccepted, InCall, Unused
   <2>2. ~crRaced => {k} \subseteq crMfa.codes BY <2>1 DEF RowIsCurrent
   <2>3. /\ crUsed' \in [DOMAIN crUsed -> Nat]
         /\ \A x \in DOMAIN crUsed \ {k} : crUsed'[x] = crUsed[x]
         /\ \A x \in {k} : crUsed[x] = 0 => crUsed'[x] = 1
     BY <2>1 DEF MfaShape
   <2>4. /\ crMfa' \in MfaRow /\ crSets' \in Nat /\ crSets' >= crSets
         /\ ~crRaced => \/ crMfa'.codes \subseteq crMfa.codes \ {k} /\ crSets' = crSets
                        \/ crMfa'.codes = {} /\ crSets' = crSets
                        \/ crMfa'.codes = CodeSet(crSets + 1) /\ crSets' = crSets + 1
     BY <2>1, EffectKeeps
   <2>5. EndsSpending(c, {k}) BY <2>1, <2>2, <2>3, <2>4 DEF EndsSpending
   <2> QED BY <2>1, <2>5, EndKeeps
  <1>5. ASSUME NEW c \in MfaCalls, NEW code, TotpAccepted(c, code)
        PROVE  MfaInv'
   <2>1. /\ c \in InCall
         /\ crMfa' = IF crCalls[c].pc = "verify" THEN crMfa ELSE Effect(crCalls[c].pc, crCalls[c].row, <<0, 0>>)
         /\ crSets' = IF crCalls[c].pc = "regen" THEN crSets + 1 ELSE crSets
         /\ crCalls' = [crCalls EXCEPT ![c] = Resting] /\ UNCHANGED <<crRaced, crUsed>>
     BY <1>5 DEF TotpAccepted, InCall
   <2>2. crUsed \in [DOMAIN crUsed -> Nat] BY DEF MfaShape
   <2>3. /\ crMfa' \in MfaRow /\ crSets' \in Nat /\ crSets' >= crSets
         /\ ~crRaced => \/ crMfa'.codes \subseteq crMfa.codes /\ crSets' = crSets
                        \/ crMfa'.codes = {} /\ crSets' = crSets
                        \/ crMfa'.codes = CodeSet(crSets + 1) /\ crSets' = crSets + 1
    <3>1. CASE crCalls[c].pc = "verify" BY <2>1, <3>1 DEF MfaShape
    <3>2. CASE crCalls[c].pc # "verify"
     <4>1. crMfa' = Effect(crCalls[c].pc, crCalls[c].row, <<0, 0>>) BY <2>1, <3>2
     <4> QED BY <2>1, <4>1, EffectKeeps
    <3> QED BY <3>1, <3>2
   <2>4. crMfa.codes \ {} = crMfa.codes /\ DOMAIN crUsed \ {} = DOMAIN crUsed OBVIOUS
   <2>5. EndsSpending(c, {}) BY <2>1, <2>2, <2>3, <2>4 DEF EndsSpending
   <2> QED BY <2>1, <2>5, EndKeeps
  <1>6. ASSUME NEW c \in MfaCalls, CodeRefused(c)
        PROVE  MfaInv'
   <2>1. /\ c \in InCall /\ crCalls' = [crCalls EXCEPT ![c] = Resting]
         /\ UNCHANGED <<crMfa, crSets, crUsed, crRaced>>
     BY <1>6 DEF CodeRefused, InCall
   <2>2. /\ crUsed \in [DOMAIN crUsed -> Nat]
         /\ crMfa \in MfaRow /\ crSets \in Nat /\ crSets >= crSets
     BY DEF MfaShape
   <2>3. crMfa.codes \ {} = crMfa.codes OBVIOUS
   <2>4. EndsSpending(c, {}) BY <2>1, <2>2, <2>3 DEF EndsSpending
   <2> QED BY <2>1, <2>4, EndKeeps
  <1>7. CASE UNCHANGED crVars
    BY <1>7 DEF crVars, MfaShape, InCall, RowIsCurrent, FreshUnused, CodesSingleUse
  <1> QED BY <1>1, <1>2, <1>3, <1>4, <1>5, <1>6, <1>7 DEF MfaNext

----------------------------------------
(* The audit log. *)

AuditEvent(e) ==
    /\ e.seq \in Int
    /\ e = [seq |-> e.seq, actor |-> e.actor, payload |-> e.payload, prev |-> e.prev, hash |-> e.hash]

AuditShape ==
    /\ \E S : (\A e \in S : AuditEvent(e)) /\ auLog \in Seq(S) /\ auThen \in Seq(Seq(S))
    /\ auTampered \in Nat

AuditInv ==
    /\ AuditShape
    /\ auTampered = 0 => VerifyChain(auLog)
    /\ \A k \in DOMAIN auThen : auThen[k] # <<>> /\ Last(auThen[k]).payload # "secret"

(* The numbers in a log that verifies are the places, so the last event tells its
   length; and each event holds the hash of the one before, so that from the last event
   backwards two such logs cannot differ. *)
LEMMA ChainsAgree ==
    ASSUME NEW S, \A e \in S : AuditEvent(e), NEW a \in Seq(S), NEW b \in Seq(S),
           VerifyChain(a), VerifyChain(b), a # <<>>, b # <<>>, Last(a) = Last(b)
    PROVE  a = b
  <1> DEFINE n == Len(a)
             Bad == {k \in Nat : k < n /\ a[n - k] # b[n - k]}
  <1>1. /\ n \in Nat \ {0} /\ DOMAIN a = 1..n /\ \A i \in 1..n : a[i] \in S
        /\ Len(b) \in Nat \ {0} /\ DOMAIN b = 1..Len(b) /\ \A i \in 1..Len(b) : b[i] \in S
    BY EmptySeq
  <1>2. a[n].seq = n /\ b[Len(b)].seq = Len(b) BY <1>1 DEF VerifyChain
  <1>3. Len(b) = n BY <1>2 DEF Last
  <1>4. SUFFICES ASSUME Bad # {} PROVE FALSE
   <2>1. \A i \in 1..n : n - i \in Nat /\ n - i < n /\ n - (n - i) = i BY <1>1
   <2>2. ASSUME NEW i \in 1..n, Bad = {} PROVE a[i] = b[i] BY <2>1, <2>2
   <2> HIDE DEF Bad
   <2> QED BY <1>3, <2>2, SeqEqual
  <1>5. PICK m \in Bad : \A k \in Bad : m <= k
   <2>1. Bad \subseteq Nat OBVIOUS
   <2> HIDE DEF Bad
   <2> QED BY <1>4, <2>1, LeastNatural
  <1>6. m \in Nat /\ m < n /\ a[n - m] # b[n - m] BY <1>5
  <1>7. m # 0
   <2>1. a[n] = b[n] BY <1>3 DEF Last
   <2>2. n - 0 = n BY <1>1
   <2> QED BY <1>6, <2>1, <2>2
  <1>8. m - 1 \in Nat /\ m - 1 < n /\ ~(m <= m - 1) BY <1>1, <1>6, <1>7
  <1>9. a[n - (m - 1)] = b[n - (m - 1)] BY <1>5, <1>8
  <1>10. PICK i \in 1..n : i = n - m
   <2>1. n \in Nat /\ m \in Nat /\ m < n BY <1>1, <1>6
   <2> HIDE DEF n
   <2>2. n - m \in 1..n BY <2>1
   <2> QED BY <2>2
  <1>11. i + 1 \in 1..n /\ i + 1 = n - (m - 1) /\ i + 1 # 1 /\ (i + 1) - 1 = i
    BY <1>1, <1>6, <1>7, <1>10
  <1>12. a[i].hash = b[i].hash
   <2>1. a[i + 1].prev = a[i].hash /\ b[i + 1].prev = b[i].hash
     BY <1>1, <1>3, <1>11, SMTT(30) DEF VerifyChain
   <2> QED BY <1>9, <1>11, <2>1
  <1>13. <<a[i].seq, a[i].actor, a[i].payload, a[i].prev>> = <<b[i].seq, b[i].actor, b[i].payload, b[i].prev>>
    BY <1>1, <1>3, <1>12 DEF VerifyChain, HashEvent
  <1>14. AuditEvent(a[i]) /\ AuditEvent(b[i]) BY <1>1, <1>3
  <1>15. a[i] = b[i] BY <1>12, <1>13, <1>14 DEF AuditEvent
  <1> QED BY <1>6, <1>10, <1>15

(* An empty log verifies. *)
LEMMA AuditStarts == AuditInit => AuditInv
  <1> SUFFICES ASSUME AuditInit
               PROVE  AuditInv
    OBVIOUS
  <1>1. <<>> \in Seq({}) /\ <<>> \in Seq(Seq({})) /\ Len(<<>>) = 0 BY EmptySeq
  <1>2. AuditShape BY <1>1 DEF AuditInit, AuditShape
  <1> QED BY <1>1, <1>2 DEF AuditInit, AuditInv, VerifyChain

(* An appended row is chained to the row before it. *)
LEMMA AppendKeepsAudit ==
    ASSUME AuditInv, NEW actor, NEW p \in Payloads, AppendAudited(actor, p)
    PROVE  AuditInv'
  <1>1. PICK S : (\A e \in S : AuditEvent(e)) /\ auLog \in Seq(S) /\ auThen \in Seq(Seq(S))
    BY DEF AuditInv, AuditShape
  <1> DEFINE x == NewEvent(actor, p)
             T == S \cup {x}
             log == Append(auLog, x)
  <1>2. auLog' = log /\ auThen' = Append(auThen, log) /\ auTampered' = auTampered
    BY DEF AppendAudited
  <1>3. Len(auLog) \in Nat /\ DOMAIN auLog = 1..Len(auLog) /\ \A i \in 1..Len(auLog) : auLog[i] \in S
    BY <1>1
  <1>4. auLog # <<>> => Len(auLog) # 0 /\ Last(auLog) = auLog[Len(auLog)] /\ Last(auLog) \in S
   <2>1. auLog # <<>> => Len(auLog) # 0 BY <1>1, EmptySeq
   <2> QED BY <1>3, <2>1 DEF Last
  <1>5. /\ x.seq = (IF auLog = <<>> THEN 1 ELSE Last(auLog).seq + 1)
        /\ x.prev = (IF auLog = <<>> THEN Genesis ELSE Last(auLog).hash)
        /\ x.payload = Redacted(p) /\ x.hash = HashEvent(x.seq, x.actor, x.payload, x.prev)
        /\ x = [seq |-> x.seq, actor |-> x.actor, payload |-> x.payload, prev |-> x.prev, hash |-> x.hash]
    BY DEF NewEvent
  <1>6. AuditEvent(x)
   <2>1. x.seq \in Int BY <1>1, <1>4, <1>5 DEF AuditEvent
   <2> QED BY <1>5, <2>1 DEF AuditEvent
  <1>7. x.payload # "secret" BY <1>5 DEF Redacted, Payloads
  <1> HIDE DEF x
  <1>8. auLog \in Seq(T) /\ auThen \in Seq(Seq(T)) /\ (\A e \in T : AuditEvent(e))
   <2>1. Seq(S) \subseteq Seq(T) BY SeqMonotonic
   <2> QED BY <1>1, <1>6, <2>1, SeqMonotonic
  <1>9. /\ log \in Seq(T) /\ log # <<>> /\ Len(log) = Len(auLog) + 1 /\ DOMAIN log = 1..Len(log)
        /\ log[Len(log)] = x /\ \A i \in 1..Len(auLog) : log[i] = auLog[i]
   <2>1. x \in T OBVIOUS
   <2> HIDE DEF T
   <2>2. /\ log \in Seq(T) /\ log # <<>> /\ Len(log) = Len(auLog) + 1
         /\ log[Len(auLog) + 1] = x /\ \A i \in 1..Len(auLog) : log[i] = auLog[i]
     BY <1>8, <2>1, AppendProperties
   <2> HIDE DEF log
   <2> QED BY <2>2, LenProperties
  <1>10. /\ Append(auThen, log) \in Seq(Seq(T))
         /\ DOMAIN Append(auThen, log) = 1..(Len(auThen) + 1) /\ DOMAIN auThen = 1..Len(auThen)
         /\ \A k \in 1..(Len(auThen) + 1) :
               Append(auThen, log)[k] = IF k <= Len(auThen) THEN auThen[k] ELSE log
   <2> HIDE DEF log, T
   <2>1. Len(auThen) \in Nat /\ DOMAIN auThen = 1..Len(auThen) BY <1>8
   <2>2. /\ Append(auThen, log) \in Seq(Seq(T)) /\ Len(Append(auThen, log)) = Len(auThen) + 1
         /\ Append(auThen, log)[Len(auThen) + 1] = log
         /\ \A k \in 1..Len(auThen) : Append(auThen, log)[k] = auThen[k]
     BY <1>8, <1>9, AppendProperties
   <2>3. DOMAIN Append(auThen, log) = 1..(Len(auThen) + 1) BY <2>2, LenProperties
   <2>4. \A k \in 1..(Len(auThen) + 1) : k <= Len(auThen) \/ k = Len(auThen) + 1 BY <2>1
   <2>5. \A k \in 1..(Len(auThen) + 1) : k <= Len(auThen) => k \in 1..Len(auThen) BY <2>1
   <2>6. ~(Len(auThen) + 1 <= Len(auThen)) BY <2>1
   <2> QED BY <2>1, <2>2, <2>3, <2>4, <2>5, <2>6
  <1>11. AuditShape' BY <1>2, <1>8, <1>9, <1>10 DEF AuditInv, AuditShape
  <1>12. VerifyChain(auLog) => VerifyChain(log)
   <2> SUFFICES ASSUME VerifyChain(auLog), NEW i \in 1..Len(log)
                PROVE  /\ log[i].seq = i
                       /\ log[i].prev = IF i = 1 THEN Genesis ELSE log[i - 1].hash
                       /\ log[i].hash = HashEvent(log[i].seq, log[i].actor, log[i].payload, log[i].prev)
     BY <1>9 DEF VerifyChain
   <2>1. CASE i <= Len(auLog)
    <3>1. i \in 1..Len(auLog) /\ log[i] = auLog[i] /\ (i # 1 => i - 1 \in 1..Len(auLog))
      BY <1>3, <1>9, <2>1
    <3>2. i # 1 => log[i - 1] = auLog[i - 1] BY <1>9, <3>1
    <3> QED BY <1>3, <3>1, <3>2 DEF VerifyChain
   <2>2. CASE i = Len(auLog) + 1
    <3>1. log[i] = x BY <1>9, <2>2
    <3>2. CASE auLog = <<>> BY <1>5, <2>2, <3>1, <3>2, EmptySeq
    <3>3. CASE auLog # <<>>
     <4>1. Len(auLog) \in 1..Len(auLog) /\ i - 1 = Len(auLog) /\ i # 1 BY <1>3, <1>4, <2>2, <3>3
     <4>2. Last(auLog).seq = Len(auLog) /\ log[i - 1] = Last(auLog)
       BY <1>3, <1>4, <1>9, <3>3, <4>1 DEF VerifyChain
     <4> QED BY <1>5, <2>2, <3>1, <3>3, <4>1, <4>2
    <3> QED BY <3>2, <3>3
   <2> QED BY <1>3, <1>9, <2>1, <2>2
  <1>13. Last(log) = x BY <1>9 DEF Last
  <1>14. ASSUME NEW k \in DOMAIN auThen'
         PROVE  auThen'[k] # <<>> /\ Last(auThen'[k]).payload # "secret"
   <2> HIDE DEF log
   <2>1. k \in 1..(Len(auThen) + 1) /\ Len(auThen) \in Nat BY <1>1, <1>2, <1>10, <1>14
   <2>2. CASE k <= Len(auThen)
    <3>1. k \in DOMAIN auThen /\ auThen'[k] = auThen[k] BY <1>2, <1>10, <2>1, <2>2
    <3> QED BY <3>1 DEF AuditInv
   <2>3. CASE ~(k <= Len(auThen)) BY <1>2, <1>7, <1>9, <1>10, <1>13, <2>1, <2>3
   <2> QED BY <2>2, <2>3
  <1>15. auTampered' = 0 => VerifyChain(auLog') BY <1>2, <1>12 DEF AuditInv
  <1> QED BY <1>11, <1>14, <1>15 DEF AuditInv

(* A row changed afterwards breaks the chain at its place. *)
LEMMA TamperKeepsAudit ==
    ASSUME AuditInv, NEW i \in DOMAIN auLog, Tamper(i)
    PROVE  AuditInv'
  <1>1. PICK S : (\A e \in S : AuditEvent(e)) /\ auLog \in Seq(S) /\ auThen \in Seq(Seq(S))
    BY DEF AuditInv, AuditShape
  <1>2. Len(auLog) \in Nat /\ DOMAIN auLog = 1..Len(auLog) /\ \A j \in 1..Len(auLog) : auLog[j] \in S
    BY <1>1
  <1>3. auThen' = auThen /\ auTampered \in Nat /\ auTampered' = auTampered + 1
    BY DEF Tamper, AuditInv, AuditShape
  <1>4. ASSUME NEW e \in Edited(auLog[i])
        PROVE  AuditEvent(e) /\ AuditEvent(Rehashed(e))
   <2> DEFINE d == auLog[i]
   <2>1. AuditEvent(d) BY <1>1, <1>2
   <2>2. AuditEvent(e)
    <3>1. CASE e = [d EXCEPT !.payload = "forged"] BY <2>1, <3>1 DEF AuditEvent
    <3>2. CASE e = [d EXCEPT !.seq = @ + 1] BY <2>1, <3>2 DEF AuditEvent
    <3>3. ASSUME NEW j \in DOMAIN auLog, e = [d EXCEPT !.prev = auLog[j].hash]
          PROVE  AuditEvent(e)
      BY <2>1, <3>3 DEF AuditEvent
    <3> QED BY <3>1, <3>2, <3>3 DEF Edited
   <2>3. AuditEvent(Rehashed(e)) BY <2>2 DEF AuditEvent, Rehashed
   <2> QED BY <2>2, <2>3
  <1>5. \E T : (\A e \in T : AuditEvent(e)) /\ S \subseteq T /\ auLog' \in Seq(T)
   <2>1. ASSUME NEW e, AuditEvent(e), auLog' = [auLog EXCEPT ![i] = e]
         PROVE  \E T : (\A x \in T : AuditEvent(x)) /\ S \subseteq T /\ auLog' \in Seq(T)
    <3> DEFINE T == S \cup {e}
    <3>1. auLog \in Seq(T) /\ e \in T /\ i \in 1..Len(auLog) BY <1>1, <1>2, SeqMonotonic
    <3>2. auLog' \in Seq(T) BY <2>1, <3>1, ExceptSeq
    <3>3. (\A x \in T : AuditEvent(x)) /\ S \subseteq T BY <1>1, <2>1
    <3> HIDE DEF T
    <3> QED BY <3>2, <3>3
   <2>2. ASSUME NEW j \in DOMAIN auLog, auLog' = [auLog EXCEPT ![i] = auLog[j], ![j] = auLog[i]]
         PROVE  auLog' \in Seq(S)
     BY <1>1, <1>2, <2>2
   <2>3. ASSUME auLog' = RemoveAt(auLog, i)
         PROVE  auLog' \in Seq(S)
    <3>1. SubSeq(auLog, 1, i - 1) \in Seq(S) /\ SubSeq(auLog, i + 1, Len(auLog)) \in Seq(S)
      BY <1>1, <1>2, SubSeqProperties
    <3> QED BY <2>3, <3>1, ConcatProperties DEF RemoveAt
   <2>4. \/ \E e \in Edited(auLog[i]) : auLog' = [auLog EXCEPT ![i] = e] \/ auLog' = [auLog EXCEPT ![i] = Rehashed(e)]
         \/ \E j \in DOMAIN auLog : auLog' = [auLog EXCEPT ![i] = auLog[j], ![j] = auLog[i]]
         \/ auLog' = RemoveAt(auLog, i)
     BY DEF Tamper
   <2> QED BY <1>1, <1>4, <2>1, <2>2, <2>3, <2>4
  <1>6. AuditShape'
   <2>1. PICK T : (\A e \in T : AuditEvent(e)) /\ S \subseteq T /\ auLog' \in Seq(T)
     BY <1>5
   <2>2. Seq(S) \subseteq Seq(T) BY <2>1, SeqMonotonic
   <2>3. auThen' \in Seq(Seq(T)) BY <1>1, <1>3, <2>2, SeqMonotonic
   <2> QED BY <1>3, <2>1, <2>3 DEF AuditShape
  <1> QED BY <1>3, <1>6 DEF AuditInv

(* Every step of the audit log keeps its invariant. *)
LEMMA AuditSteps ==
    ASSUME AuditInv, [AuditNext]_auVars
    PROVE  AuditInv'
  <1>1. CASE UNCHANGED auVars BY <1>1 DEF auVars, AuditInv, AuditShape, VerifyChain
  <1> QED BY <1>1, AppendKeepsAudit, TamperKeepsAudit DEF AuditNext

(* Whatever was edited, rehashed, moved, removed and appended in between, a log that
   verifies and ends in an event that was the last of a log that verified is that log;
   and no secret is stored. *)
LEMMA AuditShows == AuditInv => TamperingShows
  <1> SUFFICES ASSUME AuditInv
               PROVE  TamperingShows
    OBVIOUS
  <1>1. PICK S : (\A e \in S : AuditEvent(e)) /\ auLog \in Seq(S) /\ auThen \in Seq(Seq(S))
    BY DEF AuditInv, AuditShape
  <1>2. ASSUME NEW k \in DOMAIN auThen, VerifyChain(auThen[k]), VerifyChain(auLog),
               auLog # <<>>, Last(auLog) = Last(auThen[k])
        PROVE  auLog = auThen[k]
   <2>1. auThen[k] \in Seq(S) /\ auThen[k] # <<>> BY <1>1 DEF AuditInv
   <2> QED BY <1>1, <1>2, <2>1, ChainsAgree
  <1> QED BY <1>2 DEF AuditInv, TamperingShows

----------------------------------------
(* Secrets at rest. *)

SecretShape ==
    /\ skKeys \in [current : Nat \ {0}, previous : Nat]
    /\ skStore \in [SecretNames -> [key : Nat, value : Nat]]
    /\ skCalls \in [SecretCalls -> {NoPut} \cup [name : SecretNames, key : Nat, value : Nat]]
    /\ skJob \in [key : Nat, todo : SUBSET SecretNames, texts : [SecretNames -> Nat]]
    /\ skDrained \in BOOLEAN
    /\ skLatest \in [SecretNames -> Nat]
    /\ skTouched \in SUBSET SecretNames /\ skPuts \in Nat

\* A re-encryption works under a key that is held, and under the current one once the
\* records were drained; what it read of a secret nobody touched since is its value.
JobFollowsKeys ==
    /\ skJob # NoJob => skJob.key \in {skKeys.current, skKeys.previous} \ {0}
    /\ skJob.key # 0 /\ skDrained => skJob.key = skKeys.current
    /\ \A n \in skJob.todo \ skTouched :
          skStore[n] # NoSecret /\ skJob.texts[n] = skStore[n].value

\* What the previous key is still needed for: when a re-encryption under these keys has
\* ended nothing, and while one runs what it has yet to write.
OnCurrentKey(n) == skStore[n] # NoSecret => skStore[n].key = skKeys.current
DrainedOfPrevious ==
    /\ skDrained => \A n \in SecretNames \ skTouched : OnCurrentKey(n)
    /\ skJob.key = skKeys.current =>
          \A n \in SecretNames \ (skTouched \cup skJob.todo) : OnCurrentKey(n)

SecretInv == SecretShape /\ JobFollowsKeys /\ DrainedOfPrevious /\ SecretsSurviveRotation

(* No secret is stored at the start. *)
LEMMA SecretStarts == SecretInit => SecretInv
  <1> SUFFICES ASSUME SecretInit
               PROVE  SecretInv
    OBVIOUS
  <1>1. skStore \in [SecretNames -> [key : Nat, value : Nat]] BY DEF SecretInit, NoSecret
  <1>2. skJob \in [key : Nat, todo : SUBSET SecretNames, texts : [SecretNames -> Nat]]
    BY DEF SecretInit, NoJob
  <1>3. skCalls \in [SecretCalls -> {NoPut} \cup [name : SecretNames, key : Nat, value : Nat]]
    BY DEF SecretInit
  <1>4. skDrained \in BOOLEAN BY Zenon DEF SecretInit
  <1>5. skKeys \in [current : Nat \ {0}, previous : Nat] BY DEF SecretInit
  <1>6. SecretShape BY <1>1, <1>2, <1>3, <1>4, <1>5 DEF SecretInit, SecretShape
  <1>7. JobFollowsKeys BY DEF SecretInit, JobFollowsKeys, NoJob
  <1>8. DrainedOfPrevious /\ SecretsSurviveRotation
    BY DEF SecretInit, DrainedOfPrevious, OnCurrentKey, SecretsSurviveRotation, NoSecret
  <1> QED BY <1>6, <1>7, <1>8 DEF SecretInv

(* Every write and every step of a rotation keeps the secrets readable. *)
LEMMA SecretSteps ==
    ASSUME SecretInv, [SecretNext]_skVars
    PROVE  SecretInv'
  <1> USE DEF SecretInv
  <1>1. ASSUME NEW c \in SecretCalls, NEW n \in SecretNames, PutEncrypts(c, n)
        PROVE  SecretInv'
   <2>1. SecretShape' BY <1>1 DEF PutEncrypts, SecretShape
   <2> QED
     BY <1>1, <2>1 DEF PutEncrypts, JobFollowsKeys, DrainedOfPrevious, OnCurrentKey,
                       SecretsSurviveRotation, Readable
  <1>2. ASSUME NEW c \in SecretCalls, PutWrites(c)
        PROVE  SecretInv'
   <2> DEFINE p == skCalls[c]
   <2>1. p \in [name : SecretNames, key : Nat, value : Nat] BY <1>2 DEF PutWrites, SecretShape
   <2>2. /\ UNCHANGED <<skKeys, skJob, skDrained, skPuts>>
         /\ skCalls' = [skCalls EXCEPT ![c] = NoPut]
         /\ skStore' = [skStore EXCEPT ![p.name] = [key |-> p.key, value |-> p.value]]
         /\ skLatest' = [skLatest EXCEPT ![p.name] = p.value]
         /\ skTouched' = IF p.key # skKeys.current THEN skTouched \cup {p.name}
                         ELSE IF skJob.key # 0 THEN skTouched \cup {p.name}
                         ELSE skTouched \ {p.name}
     BY <1>2 DEF PutWrites, Touched
   <2> HIDE DEF p
   <2>3. SecretShape' BY <2>1, <2>2 DEF SecretShape
   <2>4. \A n \in SecretNames : n # p.name =>
             /\ skStore'[n] = skStore[n] /\ skLatest'[n] = skLatest[n]
             /\ n \in skTouched' <=> n \in skTouched
     BY <2>2 DEF SecretShape
   <2>5. /\ skStore'[p.name] = [key |-> p.key, value |-> p.value]
         /\ skLatest'[p.name] = p.value
         /\ p.name \notin skTouched' => p.key = skKeys.current /\ skJob.key = 0
     BY <2>1, <2>2 DEF SecretShape
   <2>6. skJob.key = 0 => skJob = NoJob /\ skJob.todo = {} BY DEF JobFollowsKeys, NoJob
   <2>7. JobFollowsKeys' BY <2>1, <2>2, <2>4, <2>5, <2>6 DEF JobFollowsKeys, SecretShape
   <2>8. DrainedOfPrevious'
     BY <2>1, <2>2, <2>4, <2>5, <2>6 DEF DrainedOfPrevious, OnCurrentKey, SecretShape
   <2>9. SecretsSurviveRotation'
     BY <2>1, <2>2, <2>4, <2>5 DEF SecretsSurviveRotation, Readable, SecretShape
   <2> QED BY <2>3, <2>7, <2>8, <2>9
  <1>3. ASSUME NEW n \in SecretNames, DeleteSecret(n)
        PROVE  SecretInv'
   <2>1. /\ UNCHANGED <<skKeys, skCalls, skJob, skDrained, skPuts>>
         /\ skStore' = [skStore EXCEPT ![n] = NoSecret]
         /\ skLatest' = [skLatest EXCEPT ![n] = 0]
         /\ skTouched' = IF skJob.key # 0 THEN skTouched \cup {n} ELSE skTouched \ {n}
     BY <1>3 DEF DeleteSecret, Touched
   <2>2. SecretShape' BY <2>1 DEF SecretShape, NoSecret
   <2>3. \A o \in SecretNames : o # n =>
             /\ skStore'[o] = skStore[o] /\ skLatest'[o] = skLatest[o]
             /\ o \in skTouched' <=> o \in skTouched
     BY <2>1 DEF SecretShape
   <2>4. /\ skStore'[n] = NoSecret /\ skLatest'[n] = 0 /\ NoSecret.value = 0
         /\ n \notin skTouched' => skJob.key = 0
     BY <2>1 DEF SecretShape, NoSecret
   <2>5. skJob.key = 0 => skJob.todo = {} BY DEF JobFollowsKeys, NoJob
   <2>6. JobFollowsKeys' BY <2>1, <2>3, <2>4, <2>5 DEF JobFollowsKeys, SecretShape
   <2>7. DrainedOfPrevious' BY <2>1, <2>3, <2>4 DEF DrainedOfPrevious, OnCurrentKey, SecretShape
   <2>8. SecretsSurviveRotation'
     BY <2>1, <2>3, <2>4 DEF SecretsSurviveRotation, Readable, SecretShape
   <2> QED BY <2>2, <2>6, <2>7, <2>8
  <1>4. CASE RotateMasterKey
   <2>1. /\ UNCHANGED <<skStore, skCalls, skJob, skLatest, skTouched, skPuts>>
         /\ skKeys.previous = 0 /\ ~skDrained'
         /\ skKeys'.current = skKeys.current + 1 /\ skKeys'.previous = skKeys.current
     BY <1>4 DEF RotateMasterKey, RotateAllowed
   <2>2. SecretShape'
    <3>1. skKeys' = [current |-> skKeys.current + 1, previous |-> skKeys.current]
      BY <1>4 DEF RotateMasterKey
    <3>2. skKeys.current \in Nat \ {0} /\ skKeys.current + 1 \in Nat \ {0} BY DEF SecretShape
    <3>3. skKeys' \in [current : Nat \ {0}, previous : Nat] BY <3>1, <3>2
    <3>4. skDrained' \in BOOLEAN BY <1>4 DEF RotateMasterKey
    <3> QED BY <2>1, <3>3, <3>4 DEF SecretShape
   <2>3. skKeys.current # 0 /\ skKeys.current + 1 # skKeys.current BY DEF SecretShape
   <2>4. JobFollowsKeys' /\ skJob'.key # skKeys'.current
    <3>1. skJob = NoJob \/ skJob.key = skKeys.current BY <2>1 DEF JobFollowsKeys
    <3>2. NoJob.key = 0 /\ NoJob.key # skKeys.current + 1 BY DEF NoJob, SecretShape
    <3> QED BY <2>1, <2>3, <3>1, <3>2 DEF JobFollowsKeys
   <2>5. SecretsSurviveRotation' BY <2>1, <2>3 DEF SecretsSurviveRotation, Readable
   <2> QED BY <2>1, <2>2, <2>4, <2>5 DEF DrainedOfPrevious
  <1>5. CASE DropPreviousKey
   <2>1. /\ UNCHANGED <<skStore, skCalls, skJob, skDrained, skLatest, skTouched, skPuts>>
         /\ skDrained /\ skKeys'.current = skKeys.current /\ skKeys'.previous = 0
     BY <1>5 DEF DropPreviousKey, SecretShape
   <2>2. SecretShape' BY <1>5 DEF DropPreviousKey, SecretShape
   <2>3. skKeys.current # 0 BY DEF SecretShape
   <2>4. JobFollowsKeys' /\ DrainedOfPrevious'
     BY <2>1, <2>3 DEF JobFollowsKeys, DrainedOfPrevious, OnCurrentKey, NoJob
   <2>5. SecretsSurviveRotation'
     BY <2>1, <2>3 DEF SecretsSurviveRotation, DrainedOfPrevious, OnCurrentKey, Readable
   <2> QED BY <2>2, <2>4, <2>5
  <1>6. CASE ReencryptReads
   <2> DEFINE held == {n \in SecretNames : skStore[n] # NoSecret}
   <2>1. /\ UNCHANGED <<skKeys, skStore, skCalls, skDrained, skLatest, skTouched, skPuts>>
         /\ skJob' = [key |-> skKeys.current, todo |-> held,
                      texts |-> [n \in SecretNames |-> skStore[n].value]]
     BY <1>6 DEF ReencryptReads
   <2>2. SecretShape' BY <2>1 DEF SecretShape
   <2>3. JobFollowsKeys' /\ DrainedOfPrevious'
     BY <2>1 DEF JobFollowsKeys, DrainedOfPrevious, OnCurrentKey, SecretShape
   <2>4. SecretsSurviveRotation' BY <2>1 DEF SecretsSurviveRotation, Readable
   <2> QED BY <2>2, <2>3, <2>4
  <1>7. ASSUME NEW n \in SecretNames, ReencryptWrites(n)
        PROVE  SecretInv'
   <2>1. /\ UNCHANGED <<skKeys, skCalls, skDrained, skLatest, skTouched, skPuts>>
         /\ n \in skJob.todo /\ skJob'.key = skJob.key /\ skJob'.texts = skJob.texts
         /\ skJob'.todo = skJob.todo \ {n}
         /\ skStore' = [skStore EXCEPT ![n] = [key |-> skJob.key, value |-> skJob.texts[n]]]
     BY <1>7 DEF ReencryptWrites, JobKey, SecretShape
   <2>2. SecretShape' BY <1>7 DEF ReencryptWrites, JobKey, SecretShape
   <2>3. /\ skJob # NoJob /\ skJob.key # 0
         /\ skJob.key \in {skKeys.current, skKeys.previous}
     BY <2>1 DEF NoJob, JobFollowsKeys
   <2>4. \A o \in SecretNames : o # n => skStore'[o] = skStore[o] BY <2>1 DEF SecretShape
   <2>5. /\ skStore'[n].key = skJob.key /\ skStore'[n].value = skJob.texts[n]
         /\ n \notin skTouched => skJob.texts[n] = skStore[n].value
     BY <2>1 DEF SecretShape, JobFollowsKeys
   <2>6. JobFollowsKeys' BY <2>1, <2>3, <2>4 DEF JobFollowsKeys, SecretShape
   <2>7. DrainedOfPrevious'
     BY <2>1, <2>3, <2>4, <2>5 DEF DrainedOfPrevious, OnCurrentKey, JobFollowsKeys
   <2>8. SecretsSurviveRotation' BY <2>1, <2>3, <2>4, <2>5 DEF SecretsSurviveRotation, Readable
   <2> QED BY <2>2, <2>6, <2>7, <2>8
  <1>8. CASE ReencryptEnds
   <2>1. /\ UNCHANGED <<skKeys, skStore, skCalls, skLatest, skTouched, skPuts>>
         /\ skJob.todo = {} /\ skJob' = NoJob
         /\ skDrained' = (skDrained \/ skJob.key = skKeys.current)
     BY <1>8 DEF ReencryptEnds
   <2>2. SecretShape' BY <2>1 DEF SecretShape, NoJob
   <2>3. skJob'.key = 0 /\ skJob'.todo = {} /\ skKeys.current # 0 BY <2>1 DEF NoJob, SecretShape
   <2>4. JobFollowsKeys' /\ DrainedOfPrevious'
     BY <2>1, <2>3 DEF JobFollowsKeys, DrainedOfPrevious, OnCurrentKey
   <2>5. SecretsSurviveRotation' BY <2>1 DEF SecretsSurviveRotation, Readable
   <2> QED BY <2>2, <2>4, <2>5
  <1>9. CASE CrashSecrets
   <2>1. /\ UNCHANGED <<skKeys, skStore, skDrained, skLatest, skTouched, skPuts>>
         /\ skJob' = NoJob /\ skCalls' = [d \in SecretCalls |-> NoPut]
     BY <1>9 DEF CrashSecrets
   <2>2. SecretShape' BY <2>1 DEF SecretShape, NoJob
   <2>3. skJob'.key = 0 /\ skJob'.todo = {} /\ skKeys.current # 0 BY <2>1 DEF NoJob, SecretShape
   <2>4. JobFollowsKeys' /\ DrainedOfPrevious'
     BY <2>1, <2>3 DEF JobFollowsKeys, DrainedOfPrevious, OnCurrentKey
   <2>5. SecretsSurviveRotation' BY <2>1 DEF SecretsSurviveRotation, Readable
   <2> QED BY <2>2, <2>4, <2>5
  <1>10. CASE UNCHANGED skVars
    BY <1>10 DEF skVars, SecretShape, JobFollowsKeys, DrainedOfPrevious, OnCurrentKey,
                 SecretsSurviveRotation, Readable
  <1> QED BY <1>1, <1>2, <1>3, <1>4, <1>5, <1>6, <1>7, <1>8, <1>9, <1>10 DEF SecretNext

----------------------------------------
(* API keys. *)

KeyRow == [owner : KeyOwners, prefix : KeyPrefixes, live : BOOLEAN, userActive : BOOLEAN,
           scopes : SUBSET (Scopes \cup {"read"})]

\* The call that is being authenticated found the row of the token it carries.
CallFound ==
    \/ akCall = [row |-> NoApiKey]
    \/ \E i \in DOMAIN akKeys : \E token, live :
          akCall = [row |-> i, token |-> token, live |-> live] /\ token.key = i

\* The call served last was of the owner of the key it showed, within that key's scopes.
ServedOwner ==
    \/ akServed = [key |-> NoApiKey]
    \/ \E i \in DOMAIN akKeys : \E required :
          /\ akServed = [key |-> i, as |-> akKeys[i].owner, need |-> required]
          /\ ScopeSatisfied(akKeys[i].scopes, required)

KeyInv == akKeys \in Seq(KeyRow) /\ CallFound /\ ServedOwner

(* There is no key at the start. *)
LEMMA KeyStarts == KeyInit => KeyInv
  BY DEF KeyInit, KeyInv, CallFound, ServedOwner

(* A key stays its owner's, with its scopes, when others are issued, end or are disabled. *)
LEMMA KeysChange ==
    ASSUME KeyInv, akKeys' \in Seq(KeyRow), UNCHANGED <<akCall, akServed>>,
           \A i \in DOMAIN akKeys : /\ i \in DOMAIN akKeys'
                                    /\ akKeys'[i].owner = akKeys[i].owner
                                    /\ akKeys'[i].scopes = akKeys[i].scopes
    PROVE  KeyInv'
  <1>1. CallFound' BY DEF KeyInv, CallFound
  <1>2. ServedOwner'
   <2>1. CASE akServed = [key |-> NoApiKey] BY <2>1 DEF ServedOwner
   <2>2. CASE akServed # [key |-> NoApiKey]
    <3>1. PICK i \in DOMAIN akKeys : \E required :
             /\ akServed = [key |-> i, as |-> akKeys[i].owner, need |-> required]
             /\ ScopeSatisfied(akKeys[i].scopes, required)
      BY <2>2 DEF KeyInv, ServedOwner
    <3>2. PICK required :
             /\ akServed = [key |-> i, as |-> akKeys[i].owner, need |-> required]
             /\ ScopeSatisfied(akKeys[i].scopes, required)
      BY <3>1
    <3>3. /\ akServed' = [key |-> i, as |-> akKeys'[i].owner, need |-> required]
          /\ ScopeSatisfied(akKeys'[i].scopes, required)
      BY <3>2
    <3> QED BY <3>3 DEF ServedOwner, ScopeSatisfied
   <2> QED BY <2>1, <2>2
  <1> QED BY <1>1, <1>2 DEF KeyInv

(* Every step of the keys keeps the served call its owner's. *)
LEMMA KeySteps ==
    ASSUME KeyInv, [KeyNext]_akVars
    PROVE  KeyInv'
  <1>1. ASSUME NEW o \in KeyOwners, NEW p \in KeyPrefixes, NEW scopes \in SUBSET Scopes, IssueKey(o, p, scopes)
        PROVE  KeyInv'
   <2> DEFINE row == [owner |-> o, prefix |-> p, live |-> TRUE, userActive |-> TRUE, scopes |-> Normalised(scopes)]
   <2>1. row \in KeyRow BY DEF KeyRow, Normalised
   <2>2. akKeys' = Append(akKeys, row) BY <1>1 DEF IssueKey
   <2> HIDE DEF row
   <2>3. akKeys' \in Seq(KeyRow) /\ \A i \in DOMAIN akKeys : i \in DOMAIN akKeys' /\ akKeys'[i] = akKeys[i]
     BY <2>1, <2>2 DEF KeyInv
   <2> QED BY <1>1, <2>3, KeysChange DEF IssueKey
  <1>2. ASSUME NEW i \in DOMAIN akKeys, EndKey(i) \/ DisableOwner(i)
        PROVE  KeyInv'
   <2>1. akKeys \in Seq(KeyRow) /\ akKeys[i] \in KeyRow BY DEF KeyInv
   <2>2. PICK r \in KeyRow : /\ akKeys' = [akKeys EXCEPT ![i] = r]
                             /\ r.owner = akKeys[i].owner /\ r.scopes = akKeys[i].scopes
    <3>1. CASE EndKey(i)
     <4> DEFINE r == [akKeys[i] EXCEPT !.live = FALSE]
     <4>1. r \in KeyRow /\ r.owner = akKeys[i].owner /\ r.scopes = akKeys[i].scopes
       BY <2>1 DEF KeyRow
     <4>2. akKeys' = [akKeys EXCEPT ![i] = r] BY <3>1 DEF EndKey
     <4> QED BY <4>1, <4>2
    <3>2. CASE DisableOwner(i)
     <4> DEFINE r == [akKeys[i] EXCEPT !.userActive = FALSE]
     <4>1. r \in KeyRow /\ r.owner = akKeys[i].owner /\ r.scopes = akKeys[i].scopes
       BY <2>1 DEF KeyRow
     <4>2. akKeys' = [akKeys EXCEPT ![i] = r] BY <3>2 DEF DisableOwner
     <4> QED BY <4>1, <4>2
    <3> QED BY <1>2, <3>1, <3>2
   <2>3. akKeys' \in Seq(KeyRow) BY <2>1, <2>2
   <2>4. \A j \in DOMAIN akKeys : /\ j \in DOMAIN akKeys'
                                  /\ akKeys'[j].owner = akKeys[j].owner
                                  /\ akKeys'[j].scopes = akKeys[j].scopes
     BY <2>1, <2>2
   <2>5. UNCHANGED <<akCall, akServed>> BY <1>2 DEF EndKey, DisableOwner
   <2> QED BY <2>3, <2>4, <2>5, KeysChange
  <1>3. ASSUME NEW token \in Tokens, FindKey(token)
        PROVE  KeyInv'
    BY <1>3 DEF FindKey, KeyMatches, KeyInv, CallFound, ServedOwner
  <1>4. ASSUME NEW required \in DOMAIN Level, ServeCall(required)
        PROVE  KeyInv'
   <2>1. PICK i \in DOMAIN akKeys : akCall.row = i /\ akCall.token.key = i
     BY <1>4 DEF ServeCall, KeyInv, CallFound
   <2>2. CallFound' /\ akKeys' = akKeys BY <1>4 DEF ServeCall, CallFound
   <2>3. CASE akServed' = akServed BY <2>2, <2>3 DEF KeyInv, ServedOwner
   <2>4. CASE akServed' # akServed BY <1>4, <2>1, <2>2, <2>4 DEF ServeCall, KeyInv, ServedOwner
   <2> QED BY <2>3, <2>4
  <1>5. CASE UNCHANGED akVars BY <1>5 DEF akVars, KeyInv, CallFound, ServedOwner
  <1> QED BY <1>1, <1>2, <1>3, <1>4, <1>5 DEF KeyNext

(* The invariant says whom a call is served as. *)
LEMMA KeyServes == KeyInv => KeyActsForOwner
  BY DEF KeyInv, ServedOwner, KeyActsForOwner, ScopeSatisfied

----------------------------------------
(* OAuth and OpenID Connect. *)

FlowShape ==
    /\ ofFlow \in [FlowIds -> [pc : {"new", "authorize", "exchange", "token", "done", "failed"},
                               who : FlowIds \cup {NoOne}]]
    /\ ofJwks \in {"none", "current", "old"}

\* A flow that got past its redirect carries its own identity.
OwnIdentity == \A f \in FlowIds : ofFlow[f].pc \in {"exchange", "token", "done"} => ofFlow[f].who = f

\* The id token accepted last.
TokenAccepted ==
    \/ ofToken = [made |-> FALSE]
    \/ \E t \in IdTokens : /\ ofToken = [made |-> TRUE, token |-> t]
                           /\ t.key = "current" /\ t.alg = "RS256" /\ t.iss /\ t.aud /\ t.age <= Skew

FlowInv == FlowShape /\ OwnIdentity /\ TokenAccepted

(* No flow has begun at the start. *)
LEMMA FlowStarts == FlowInit => FlowInv
  BY DEF FlowInit, FlowInv, FlowShape, OwnIdentity, TokenAccepted, Stage

(* A flow that moves with its own identity, or ends without one. *)
LEMMA FlowMoves ==
    ASSUME FlowInv, NEW f \in FlowIds, NEW pc \in {"authorize", "exchange", "token", "done", "failed"},
           NEW who \in {f, NoOne, ofFlow[f].who}, Sets(f, Stage(pc, who)),
           pc \in {"exchange", "token", "done"} => who = f
    PROVE  OwnIdentity' /\ ofFlow' \in [FlowIds -> [pc : {"new", "authorize", "exchange", "token", "done", "failed"},
                                                    who : FlowIds \cup {NoOne}]]
  <1> DEFINE s == Stage(pc, who)
  <1>1. s.pc = pc /\ s.who = who /\ s \in [pc : {"new", "authorize", "exchange", "token", "done", "failed"}, who : FlowIds \cup {NoOne}]
    BY DEF FlowInv, FlowShape, Stage
  <1> HIDE DEF s
  <1>2. ofFlow' = [ofFlow EXCEPT ![f] = s] BY DEF Sets, s
  <1> QED BY <1>1, <1>2 DEF FlowInv, FlowShape, OwnIdentity

(* Every step of the clients keeps identities with their flows. *)
LEMMA FlowSteps ==
    ASSUME FlowInv, [FlowNext]_ofVars
    PROVE  FlowInv'
  <1> USE DEF FlowInv
  <1>1. ASSUME NEW f \in FlowIds, BeginFlow(f)
        PROVE  FlowInv'
    BY <1>1, FlowMoves DEF BeginFlow, FlowShape, TokenAccepted
  <1>2. ASSUME NEW f \in FlowIds, UserConsents(f)
        PROVE  FlowInv'
    BY <1>2 DEF UserConsents, FlowShape, OwnIdentity, TokenAccepted
  <1>3. ASSUME NEW f \in FlowIds, ExchangeCode(f)
        PROVE  FlowInv'
   <2>1. ofFlow[f].who = f BY <1>3 DEF ExchangeCode, OwnIdentity
   <2>2. Sets(f, Stage("token", ofFlow[f].who)) \/ Sets(f, Stage("failed", NoOne))
     BY <1>3 DEF ExchangeCode, GithubExchange, GoogleExchange, OidcExchange
   <2> QED BY <1>3, <2>1, <2>2, FlowMoves DEF ExchangeCode, FlowShape, TokenAccepted
  <1>4. ASSUME NEW f \in FlowIds, ReadProfile(f)
        PROVE  FlowInv'
   <2>1. ofFlow[f].who = f BY <1>4 DEF ReadProfile, OwnIdentity
   <2>2. Sets(f, Stage("done", ofFlow[f].who)) \/ Sets(f, Stage("failed", NoOne))
     BY <1>4 DEF ReadProfile
   <2> QED BY <1>4, <2>1, <2>2, FlowMoves DEF ReadProfile, FlowShape, TokenAccepted
  <1>5. ASSUME NEW f \in FlowIds, NEW r \in FlowIds, RedirectArrives(f, r)
        PROVE  FlowInv'
   <2>1. (r = f /\ Sets(f, Stage("exchange", f))) \/ ofFlow' = ofFlow
     BY <1>5 DEF RedirectArrives, StateValid
   <2>2. CASE r = f /\ Sets(f, Stage("exchange", f))
     BY <1>5, <2>2, FlowMoves DEF RedirectArrives, FlowShape, TokenAccepted
   <2>3. CASE ofFlow' = ofFlow
     BY <1>5, <2>3 DEF RedirectArrives, FlowShape, OwnIdentity, TokenAccepted
   <2> QED BY <2>1, <2>2, <2>3
  <1>6. ASSUME NEW f \in FlowIds, NEW token \in IdTokens, VerifyIdToken(f, token)
        PROVE  FlowInv'
   <2>1. ofFlow[f].who = f BY <1>6 DEF VerifyIdToken, OwnIdentity
   <2>2. PICK pc \in {"done", "token", "failed"} : Sets(f, Stage(pc, ofFlow[f].who))
     BY <1>6 DEF VerifyIdToken
   <2>3. OwnIdentity' /\ FlowShape' BY <1>6, <2>1, <2>2, FlowMoves DEF VerifyIdToken, FlowShape
   <2>4. TokenAccepted'
    <3>1. CASE Verified(token, IF ProviderOf[f] = "google" THEN "current" ELSE ofJwks)
     <4>1. token.key \in {"current", "forged"} /\ token.key \in {"none", "current", "old"}
       BY <3>1 DEF Verified, IdTokens, FlowShape
     <4> QED BY <1>6, <3>1, <4>1 DEF VerifyIdToken, Verified, Timely, TokenAccepted
    <3>2. CASE ~Verified(token, IF ProviderOf[f] = "google" THEN "current" ELSE ofJwks)
      BY <1>6, <3>2 DEF VerifyIdToken, TokenAccepted
    <3> QED BY <3>1, <3>2
   <2> QED BY <2>3, <2>4
  <1>7. ASSUME NEW force \in BOOLEAN, FetchJwks(force)
        PROVE  FlowInv'
    BY <1>7 DEF FetchJwks, FlowShape, OwnIdentity, TokenAccepted
  <1>8. CASE KeysRotate BY <1>8 DEF KeysRotate, FlowShape, OwnIdentity, TokenAccepted
  <1>9. CASE UNCHANGED ofVars BY <1>9 DEF ofVars, FlowShape, OwnIdentity, TokenAccepted
  <1> QED BY <1>1, <1>2, <1>3, <1>4, <1>5, <1>6, <1>7, <1>8, <1>9 DEF FlowNext

(* The invariant says whose identity a flow obtains, and which id tokens are accepted. *)
LEMMA FlowObtains == FlowInv => IdentityIsFlowOwner /\ AcceptedIsGenuine
  BY DEF FlowInv, OwnIdentity, TokenAccepted, IdentityIsFlowOwner, AcceptedIsGenuine

----------------------------------------
(* User accounts and their logins. *)

\* Whom a request may be about, and what a row may hold of them.
Identities == Profiles \cup {[ext |-> NoExt, mail |-> m] : m \in Mails}
RowMails == {NoMail} \cup Mails \cup {prof.mail : prof \in Profiles} \cup {<<p, prof.ext>> : p \in {"github", "ldap"}, prof \in Profiles}
RowExts == {NoExt} \cup {prof.ext : prof \in Profiles}
RowRoles == {"user"} \cup {MapRoles(prof.roles) : prof \in Profiles}
UserRow == [mail : RowMails, provider : Flows \cup {"ldap", "local"}, ext : RowExts, active : BOOLEAN, role : RowRoles]

\* A page that was handed out to a browser, with its state.
Page(b, p, st) == [browser |-> b, provider |-> p, state |-> st]

AccountShape ==
    /\ acUsers \in Seq(UserRow)
    /\ acCookie \in [Browsers -> [Flows -> Nat]]
    /\ IsFiniteSet(acFlows) /\ \A f \in acFlows : f = Page(f.browser, f.provider, f.state) /\ f.state \in Nat \ {0}
                                                  /\ f.provider \in Flows
    /\ acReq = [r \in LoginRequests |-> acReq[r]]

\* The state in a cookie is of a page that browser was handed.
CookiesOfPages ==
    \A b \in Browsers, p \in Flows : acCookie[b][p] # 0 => Page(b, p, acCookie[b][p]) \in acFlows

\* A request of a redirect answers a page of its browser; with an identity, it is one of
\* its provider, and a local one has no external id.
RequestSound(q, pages) ==
    \/ q = NoRequest
    \/ \E b, p, st : /\ q = [pc |-> "exchange", browser |-> b, provider |-> p, state |-> st]
                     /\ p \in Flows /\ Page(b, p, st) \in pages
    \/ \E pc \in {"lookup", "insert", "mint"} : \E b, p, st : \E who \in Identities :
          /\ q = [pc |-> pc, browser |-> b, provider |-> p, state |-> st, who |-> who]
          /\ p \in Flows \cup {"ldap", "local"}
          /\ p \in Flows => Page(b, p, st) \in pages
          /\ IF p = "local" THEN who.ext = NoExt /\ who.mail \in Mails /\ pc = "insert" ELSE who \in Profiles

\* A local row has no external id.
LocalRows == \A u \in UserIds : acUsers[u].provider = "local" => acUsers[u].ext = NoExt

\* The tokens handed out last are of a row with the identity authenticated, and of a page
\* of the browser that got them.
TokenSound ==
    \/ acToken = NoToken
    \/ \E u \in UserIds : \E p, e, b, st :
          /\ acToken = [user |-> u, provider |-> p, ext |-> e, browser |-> b, state |-> st]
          /\ acUsers[u].provider = p /\ acUsers[u].ext = e
          /\ p \in Flows => Page(b, p, st) \in acFlows

AccountInv ==
    /\ AccountShape /\ CookiesOfPages /\ LocalRows /\ OneRowPerIdentity /\ TokenSound
    /\ \A r \in LoginRequests : RequestSound(acReq[r], acFlows)

(* There is no account at the start. *)
LEMMA AccountStarts == AccountInit => AccountInv
  <1> SUFFICES ASSUME AccountInit
               PROVE  AccountInv
    OBVIOUS
  <1>1. AccountShape BY FS_EmptySet DEF AccountInit, AccountShape
  <1>2. CookiesOfPages /\ LocalRows /\ OneRowPerIdentity /\ TokenSound
    BY DEF AccountInit, CookiesOfPages, LocalRows, OneRowPerIdentity, TokenSound, UserIds
  <1>3. \A r \in LoginRequests : RequestSound(acReq[r], acFlows) BY DEF AccountInit, RequestSound
  <1> QED BY <1>1, <1>2, <1>3 DEF AccountInv

(* The rows keep their identities: what is known about tokens stays true. *)
LEMMA RowsKeepIdentity ==
    ASSUME TokenSound, acFlows \subseteq acFlows', acToken' = acToken,
           \A u \in UserIds : /\ u \in UserIds'
                              /\ acUsers'[u].provider = acUsers[u].provider /\ acUsers'[u].ext = acUsers[u].ext
    PROVE  TokenSound'
  BY DEF TokenSound

(* Pages are only added: what requests answer stays handed out. *)
LEMMA RequestStays ==
    ASSUME NEW q, NEW pages, NEW more, RequestSound(q, pages), pages \subseteq more
    PROVE  RequestSound(q, more)
  BY DEF RequestSound

(* One request moves. *)
LEMMA RequestMoves ==
    ASSUME AccountInv, acFlows' = acFlows, NEW r \in LoginRequests, NEW q, RequestSound(q, acFlows), Adopt(r, q)
    PROVE  /\ acReq' = [s \in LoginRequests |-> acReq'[s]]
           /\ (\A s \in LoginRequests : RequestSound(acReq[s], acFlows))'
  <1>1. acReq' = [s \in LoginRequests |-> IF s = r THEN q ELSE acReq[s]]
    BY DEF AccountInv, AccountShape, Adopt
  <1>2. \A s \in LoginRequests : RequestSound(acReq'[s], acFlows') BY <1>1 DEF AccountInv
  <1> QED BY <1>1, <1>2

\* Two versions of a row are of the same user.
SameIdentity(old, new) == old.mail = new.mail /\ old.provider = new.provider /\ old.ext = new.ext

(* Rows that change without changing their identities. *)
LEMMA RowsChange ==
    ASSUME AccountInv, acFlows' = acFlows, acToken' = acToken, UserIds' = UserIds,
           \A v \in UserIds : SameIdentity(acUsers[v], acUsers'[v])
    PROVE  TokenSound' /\ LocalRows' /\ OneRowPerIdentity'
  <1>1. TokenSound' BY RowsKeepIdentity DEF AccountInv, SameIdentity
  <1>2. LocalRows' BY DEF AccountInv, SameIdentity, LocalRows
  <1>3. OneRowPerIdentity' BY DEF AccountInv, SameIdentity, OneRowPerIdentity
  <1> QED BY <1>1, <1>2, <1>3

\* A request that has an identity.
Identified(q, pages, pc, b, p, st, who) ==
    /\ pc \in {"lookup", "insert", "mint"} /\ who \in Identities
    /\ q = [pc |-> pc, browser |-> b, provider |-> p, state |-> st, who |-> who]
    /\ p \in Flows \cup {"ldap", "local"}
    /\ p \in Flows => Page(b, p, st) \in pages
    /\ IF p = "local" THEN who.ext = NoExt /\ who.mail \in Mails /\ pc = "insert" ELSE who \in Profiles

(* A request with an identity, by its fields. *)
LEMMA RequestOf ==
    ASSUME NEW q, NEW pages, RequestSound(q, pages), q.pc \in {"lookup", "insert", "mint"}
    PROVE  \E pc, b, p, st, who : Identified(q, pages, pc, b, p, st, who)
  BY DEF RequestSound, NoRequest, Identified

(* A request whose code is to be exchanged, by its fields. *)
LEMMA RequestOpen ==
    ASSUME NEW q, NEW pages, RequestSound(q, pages), q.pc = "exchange"
    PROVE  \E b, p, st : /\ q = [pc |-> "exchange", browser |-> b, provider |-> p, state |-> st]
                         /\ p \in Flows /\ Page(b, p, st) \in pages
  BY DEF RequestSound, NoRequest

(* The response takes a state out of a cookie. *)
LEMMA CookieSpent ==
    ASSUME AccountInv, NEW q, Respond(q), acFlows' = acFlows
    PROVE  acCookie' \in [Browsers -> [Flows -> Nat]] /\ CookiesOfPages'
  <1>1. CASE q.browser \in Browsers
   <2> DEFINE own == acCookie[q.browser]
              new == [own EXCEPT ![q.provider] = 0]
   <2>1. own \in [Flows -> Nat] /\ acCookie' = [acCookie EXCEPT ![q.browser] = new]
     BY <1>1 DEF AccountInv, AccountShape, Respond
   <2>2. new \in [Flows -> Nat] /\ \A p \in Flows : new[p] \in {0, own[p]} BY <2>1
   <2> HIDE DEF new
   <2>3. acCookie' \in [Browsers -> [Flows -> Nat]] BY <1>1, <2>1, <2>2 DEF AccountInv, AccountShape
   <2>4. \A b \in Browsers, p \in Flows : acCookie'[b][p] \in {0, acCookie[b][p]}
     BY <1>1, <2>1, <2>2 DEF AccountInv, AccountShape
   <2> QED BY <2>3, <2>4 DEF AccountInv, CookiesOfPages
  <1>2. CASE q.browser \notin Browsers BY <1>2 DEF AccountInv, AccountShape, CookiesOfPages, Respond
  <1> QED BY <1>1, <1>2

(* Every step of the accounts keeps rows, cookies, requests and tokens in accord. *)
LEMMA AccountSteps ==
    ASSUME AccountInv, [AccountNext]_acVars
    PROVE  AccountInv'
  <1> USE DEF AccountInv
  <1> DEFINE RequestsSound == \A r \in LoginRequests : RequestSound(acReq[r], acFlows)
  <1>1. ASSUME NEW b \in Browsers, NEW p \in Flows, Authorize(b, p)
        PROVE  AccountInv'
   <2> DEFINE st == Cardinality(acFlows) + 1
              f == Page(b, p, st)
   <2>1. st \in Nat \ {0} BY FS_CardinalityType DEF AccountShape
   <2> HIDE DEF st
   <2>2. /\ acFlows' = acFlows \cup {f} /\ acCookie' = [acCookie EXCEPT ![b] = [acCookie[b] EXCEPT ![p] = st]]
         /\ UNCHANGED <<acUsers, acReq, acToken>>
     BY <1>1 DEF Authorize, st, Page
   <2>3. AccountShape'
    <3>1. IsFiniteSet(acFlows') BY <2>2, FS_AddElement DEF AccountShape
    <3>2. \A g \in acFlows' : g = Page(g.browser, g.provider, g.state) /\ g.state \in Nat \ {0} /\ g.provider \in Flows
      BY <2>1, <2>2 DEF AccountShape, Page
    <3>3. acCookie' \in [Browsers -> [Flows -> Nat]] BY <2>1, <2>2 DEF AccountShape
    <3> QED BY <2>2, <3>1, <3>2, <3>3 DEF AccountShape
   <2>4. CookiesOfPages'
    <3>1. \A c \in Browsers, q \in Flows : acCookie'[c][q] = IF c = b /\ q = p THEN st ELSE acCookie[c][q]
      BY <2>2 DEF AccountShape
    <3> QED BY <2>2, <3>1 DEF CookiesOfPages
   <2>5. LocalRows' /\ OneRowPerIdentity' /\ TokenSound' /\ RequestsSound'
    <3>1. acFlows \subseteq acFlows' BY <2>2
    <3>2. TokenSound' BY <2>2, <3>1, RowsKeepIdentity DEF UserIds
    <3>3. RequestsSound'
     <4>1. \A r \in LoginRequests : RequestSound(acReq[r], acFlows') BY <3>1, RequestStays
     <4> QED BY <2>2, <4>1
    <3> QED BY <2>2, <3>2, <3>3 DEF LocalRows, OneRowPerIdentity, UserIds
   <2> QED BY <2>3, <2>4, <2>5
  <1>2. ASSUME NEW r \in LoginRequests, NEW q, RequestSound(q, acFlows), Adopt(r, q),
               UNCHANGED <<acUsers, acCookie, acFlows, acToken>>
        PROVE  AccountInv'
   <2>1. (acReq = [s \in LoginRequests |-> acReq[s]])' /\ RequestsSound' BY <1>2, RequestMoves
   <2>2. TokenSound' /\ LocalRows' /\ OneRowPerIdentity' /\ CookiesOfPages'
     BY <1>2 DEF TokenSound, LocalRows, OneRowPerIdentity, CookiesOfPages, UserIds
   <2> QED BY <1>2, <2>1, <2>2 DEF AccountShape
  <1>3. ASSUME NEW r \in LoginRequests, NEW b \in Browsers, NEW f \in acFlows, Callback(r, b, f)
        PROVE  AccountInv'
   <2> DEFINE q == [pc |-> "exchange", browser |-> b, provider |-> f.provider, state |-> f.state]
   <2>1. RequestSound(q, acFlows)
    <3>1. Page(b, f.provider, f.state) \in acFlows /\ f.provider \in Flows
      BY <1>3 DEF Callback, StateMatches, CookiesOfPages, AccountShape
    <3> QED BY <3>1 DEF RequestSound
   <2> QED BY <1>2, <1>3, <2>1 DEF Callback
  <1>4. ASSUME NEW r \in LoginRequests, Exchange(r)
        PROVE  AccountInv'
   <2>1. PICK b, p, st : /\ acReq[r] = [pc |-> "exchange", browser |-> b, provider |-> p, state |-> st]
                         /\ p \in Flows /\ Page(b, p, st) \in acFlows
    <3>1. RequestSound(acReq[r], acFlows) /\ acReq[r].pc = "exchange" BY <1>4 DEF Exchange
    <3> HIDE DEF AccountInv
    <3> QED BY <3>1, RequestOpen
   <2>2. p # "local" BY <2>1, FlowsAssumption
   <2>3. RequestSound(NoRequest, acFlows) BY DEF RequestSound
   <2>4. ASSUME NEW prof \in Profiles
         PROVE  RequestSound([pc |-> "lookup", browser |-> b, provider |-> p, state |-> st, who |-> prof], acFlows)
     BY <2>1, <2>2 DEF RequestSound, Identities
   <2>5. \/ Adopt(r, NoRequest)
         \/ \E prof \in Profiles : Adopt(r, [pc |-> "lookup", browser |-> b, provider |-> p, state |-> st, who |-> prof])
     BY <1>4, <2>1 DEF Exchange
   <2> QED BY <1>2, <1>4, <2>3, <2>4, <2>5 DEF Exchange
  <1>5. ASSUME NEW r \in LoginRequests, NEW prof \in Profiles, LdapLogin(r, prof)
        PROVE  AccountInv'
   <2> DEFINE q == [pc |-> "lookup", browser |-> "none", provider |-> "ldap", state |-> 0, who |-> prof]
   <2>1. RequestSound(q, acFlows) BY FlowsAssumption, ZenonT(60) DEF RequestSound, Identities
   <2> QED BY <1>2, <1>5, <2>1 DEF LdapLogin
  <1>6. ASSUME NEW r \in LoginRequests, FindIdentity(r)
        PROVE  AccountInv'
   <2>0. PICK pc, b, p, st, who : Identified(acReq[r], acFlows, pc, b, p, st, who)
     BY <1>6, RequestOf DEF FindIdentity
   <2>1. /\ pc \in {"lookup", "insert", "mint"} /\ who \in Identities
         /\ acReq[r] = [pc |-> pc, browser |-> b, provider |-> p, state |-> st, who |-> who]
         /\ p \in Flows \cup {"ldap", "local"}
         /\ p \in Flows => Page(b, p, st) \in acFlows
         /\ IF p = "local" THEN who.ext = NoExt /\ who.mail \in Mails /\ pc = "insert" ELSE who \in Profiles
     BY <2>0 DEF Identified
   <2>2. pc = "lookup" /\ p # "local" /\ who \in Profiles BY <1>6, <2>1 DEF FindIdentity
   <2>3. PICK q : Adopt(r, q) /\ q \in {NoRequest, [acReq[r] EXCEPT !.pc = "mint"], [acReq[r] EXCEPT !.pc = "insert"]}
     BY <1>6 DEF FindIdentity
   <2>4. RequestSound(q, acFlows)
    <3>1. \/ q = NoRequest
          \/ \E d \in {"mint", "insert"} : q = [pc |-> d, browser |-> b, provider |-> p, state |-> st, who |-> who]
      BY <2>1, <2>3
    <3> QED BY <2>1, <2>2, <3>1 DEF RequestSound
   <2>5. (acReq = [s \in LoginRequests |-> acReq[s]])' /\ RequestsSound'
     BY <1>6, <2>3, <2>4, RequestMoves DEF FindIdentity
   <2>6. /\ acUsers' \in Seq(UserRow) /\ UserIds' = UserIds
         /\ \A v \in UserIds : SameIdentity(acUsers[v], acUsers'[v])
    <3> DEFINE role == MapRoles(who.roles)
               new(v) == IF v \in Found(p, who) /\ p = "ldap" THEN [acUsers[v] EXCEPT !.role = role] ELSE acUsers[v]
    <3>1. acUsers' = [v \in UserIds |-> new(v)] BY <1>6, <2>1 DEF FindIdentity
    <3>2. ASSUME NEW v \in UserIds
          PROVE  new(v) \in UserRow /\ SameIdentity(acUsers[v], new(v))
     <4>1. acUsers[v] \in UserRow /\ role \in RowRoles BY <2>2 DEF AccountShape, UserIds, RowRoles
     <4> HIDE DEF role
     <4> QED BY <4>1 DEF UserRow, SameIdentity
    <3> HIDE DEF new
    <3>3. UserIds = 1..Len(acUsers) /\ Len(acUsers) \in Nat BY DEF AccountShape, UserIds
    <3>4. acUsers' \in Seq(UserRow) /\ UserIds' = UserIds BY <3>1, <3>2, <3>3 DEF UserIds
    <3> QED BY <3>1, <3>2, <3>4
   <2> QED BY <1>6, <2>5, <2>6, RowsChange DEF FindIdentity, AccountShape, CookiesOfPages
  <1>7. ASSUME NEW r \in LoginRequests, InsertUser(r)
        PROVE  AccountInv'
   <2>0. PICK pc, b, p, st, who : Identified(acReq[r], acFlows, pc, b, p, st, who)
     BY <1>7, RequestOf DEF InsertUser
   <2>1. /\ pc \in {"lookup", "insert", "mint"} /\ who \in Identities
         /\ acReq[r] = [pc |-> pc, browser |-> b, provider |-> p, state |-> st, who |-> who]
         /\ p \in Flows \cup {"ldap", "local"}
         /\ p \in Flows => Page(b, p, st) \in acFlows
         /\ IF p = "local" THEN who.ext = NoExt /\ who.mail \in Mails /\ pc = "insert" ELSE who \in Profiles
     BY <2>0 DEF Identified
   <2>2. RequestSound(NoRequest, acFlows) /\ Adopt(r, NoRequest)
     BY <1>7 DEF RequestSound, InsertUser
   <2>3. acFlows' = acFlows BY <1>7 DEF InsertUser
   <2>4. (acReq = [s \in LoginRequests |-> acReq[s]])' /\ RequestsSound' BY <2>2, <2>3, RequestMoves
   <2>5. CASE UNCHANGED <<acUsers, acToken, acCookie>>
     BY <2>3, <2>4, <2>5 DEF AccountShape, CookiesOfPages, LocalRows, OneRowPerIdentity, TokenSound, UserIds
   <2>6. CASE ~UNCHANGED <<acUsers, acToken, acCookie>>
    <3> DEFINE n == Len(acUsers) + 1
    <3>1. PICK row : /\ row = IF p = "local"
                              THEN [mail |-> who.mail, provider |-> "local", ext |-> NoExt, active |-> TRUE, role |-> "user"]
                              ELSE NewRow(p, who)
                     /\ ~Conflicts(row) /\ acUsers' = Append(acUsers, row)
      BY <1>7, <2>1, <2>6 DEF InsertUser
    <3>2. Respond(acReq[r]) /\ acToken' = [user |-> n, provider |-> p, ext |-> who.ext, browser |-> b, state |-> st]
      BY <1>7, <2>1, <2>6 DEF InsertUser, Token
    <3>3. row \in UserRow /\ row.provider = p /\ row.ext = who.ext /\ (p = "local" => row.ext = NoExt)
     <4>1. CASE p = "local" BY <2>1, <3>1, <4>1 DEF UserRow, RowMails, RowExts, RowRoles
     <4>2. CASE p # "local"
      <5>1. ProfileMail(p, who) \in RowMails /\ who.ext \in RowExts /\ MapRoles(who.roles) \in RowRoles /\ "user" \in RowRoles
        BY <2>1, <4>2 DEF ProfileMail, RowMails, RowExts, RowRoles
      <5> QED BY <2>1, <3>1, <4>2, <5>1 DEF NewRow, UserRow
     <4> QED BY <4>1, <4>2
    <3>4. acUsers \in Seq(UserRow) /\ Len(acUsers) \in Nat /\ UserIds = 1..Len(acUsers)
      BY DEF AccountShape, UserIds
    <3>5. /\ acUsers' \in Seq(UserRow) /\ UserIds' = UserIds \cup {n} /\ n \notin UserIds
          /\ acUsers'[n] = row /\ \A u \in UserIds : acUsers'[u] = acUsers[u]
      BY <3>1, <3>3, <3>4 DEF UserIds
    <3>6. TokenSound' BY <2>1, <2>3, <3>2, <3>3, <3>5 DEF TokenSound
    <3>7. LocalRows' BY <3>3, <3>5 DEF LocalRows
    <3>8. OneRowPerIdentity'
     <4>1. \A u \in UserIds : /\ acUsers[u].mail # row.mail
                              /\ acUsers[u].provider = row.provider /\ acUsers[u].ext = row.ext => row.ext = NoExt
       BY <3>1 DEF Conflicts
     <4>2. \A u \in UserIds' : (u \in UserIds /\ acUsers'[u] = acUsers[u]) \/ (u = n /\ acUsers'[u] = row)
       BY <3>5
     <4> HIDE DEF n
     <4> QED BY <4>1, <4>2 DEF OneRowPerIdentity
    <3>9. acCookie' \in [Browsers -> [Flows -> Nat]] /\ CookiesOfPages' BY <2>3, <3>2, CookieSpent
    <3> QED BY <2>3, <2>4, <3>5, <3>6, <3>7, <3>8, <3>9 DEF AccountShape
   <2> QED BY <2>5, <2>6
  <1>8. ASSUME NEW r \in LoginRequests, MintTokens(r)
        PROVE  AccountInv'
   <2>0. PICK pc, b, p, st, who : Identified(acReq[r], acFlows, pc, b, p, st, who)
     BY <1>8, RequestOf DEF MintTokens
   <2>1. /\ pc \in {"lookup", "insert", "mint"} /\ who \in Identities
         /\ acReq[r] = [pc |-> pc, browser |-> b, provider |-> p, state |-> st, who |-> who]
         /\ p \in Flows \cup {"ldap", "local"}
         /\ p \in Flows => Page(b, p, st) \in acFlows
         /\ IF p = "local" THEN who.ext = NoExt /\ who.mail \in Mails /\ pc = "insert" ELSE who \in Profiles
     BY <2>0 DEF Identified
   <2>2. RequestSound(NoRequest, acFlows) /\ Adopt(r, NoRequest)
     BY <1>8 DEF RequestSound, MintTokens
   <2>3. UNCHANGED <<acUsers, acFlows>> BY <1>8 DEF MintTokens
   <2>4. (acReq = [s \in LoginRequests |-> acReq[s]])' /\ RequestsSound' BY <2>2, <2>3, RequestMoves
   <2>5. CASE UNCHANGED <<acToken, acCookie>>
     BY <2>3, <2>4, <2>5 DEF AccountShape, CookiesOfPages, LocalRows, OneRowPerIdentity, TokenSound, UserIds
   <2>6. CASE ~UNCHANGED <<acToken, acCookie>>
    <3>1. Respond(acReq[r]) /\ \E u \in RowFor(p, who) : acToken' = Token(u, acReq[r])
      BY <1>8, <2>1, <2>6 DEF MintTokens
    <3>2. PICK u \in UserIds : /\ acUsers[u].provider = p /\ acUsers[u].ext = who.ext
                               /\ acToken' = [user |-> u, provider |-> p, ext |-> who.ext, browser |-> b, state |-> st]
      BY <2>1, <3>1 DEF RowFor, Token
    <3>3. TokenSound' BY <2>1, <2>3, <3>2 DEF TokenSound, UserIds
    <3>4. acCookie' \in [Browsers -> [Flows -> Nat]] /\ CookiesOfPages' BY <2>3, <3>1, CookieSpent
    <3> QED BY <2>3, <2>4, <3>3, <3>4 DEF AccountShape, LocalRows, OneRowPerIdentity, UserIds
   <2> QED BY <2>5, <2>6
  <1>9. ASSUME NEW r \in LoginRequests, NEW m \in Mails, RegisterUser(r, m)
        PROVE  AccountInv'
   <2> DEFINE who == [ext |-> NoExt, mail |-> m]
              q == [pc |-> "insert", browser |-> "none", provider |-> "local", state |-> 0, who |-> who]
   <2>1. who \in Identities /\ who.ext = NoExt /\ who.mail = m BY DEF Identities
   <2> HIDE DEF who
   <2>2. RequestSound(q, acFlows) BY <2>1, FlowsAssumption DEF RequestSound
   <2>3. Adopt(r, q) BY <1>9 DEF RegisterUser, LocalRequest, who
   <2> QED BY <1>2, <1>9, <2>2, <2>3 DEF RegisterUser
  <1>10. ASSUME NEW r \in LoginRequests, NEW m \in Mails, LocalLogin(r, m)
        PROVE  AccountInv'
   <2>1. PICK u \in UserIds : /\ acUsers[u].provider = "local"
                              /\ acToken' = Token(u, LocalRequest(m, "mint"))
     BY <1>10 DEF LocalLogin
   <2>2. acToken' = [user |-> u, provider |-> "local", ext |-> NoExt, browser |-> "none", state |-> 0]
     BY <2>1 DEF Token, LocalRequest
   <2>3. "local" \notin Flows /\ acUsers[u].ext = NoExt BY <2>1, FlowsAssumption DEF LocalRows
   <2>4. UNCHANGED <<acUsers, acCookie, acFlows, acReq>> BY <1>10 DEF LocalLogin
   <2>5. TokenSound' BY <2>1, <2>2, <2>3, <2>4 DEF TokenSound, UserIds
   <2> QED BY <2>4, <2>5 DEF LocalRows, OneRowPerIdentity, CookiesOfPages, UserIds, AccountShape
  <1>11. ASSUME NEW u \in UserIds, NEW on \in BOOLEAN, SwitchAccount(u, on)
         PROVE  AccountInv'
   <2>1. acUsers \in Seq(UserRow) /\ acUsers[u] \in UserRow BY DEF AccountShape, UserIds
   <2> DEFINE row == [acUsers[u] EXCEPT !.active = on]
   <2>2. /\ row \in UserRow /\ row.mail = acUsers[u].mail /\ row.provider = acUsers[u].provider
         /\ row.ext = acUsers[u].ext
     BY <2>1 DEF UserRow
   <2>3. acUsers' = [acUsers EXCEPT ![u] = row] BY <1>11 DEF SwitchAccount
   <2> HIDE DEF row
   <2>4. /\ acUsers' \in Seq(UserRow) /\ UserIds' = UserIds
         /\ \A v \in UserIds : SameIdentity(acUsers[v], acUsers'[v])
     BY <2>1, <2>2, <2>3 DEF UserIds, SameIdentity
   <2>5. UNCHANGED <<acCookie, acFlows, acReq, acToken>> BY <1>11 DEF SwitchAccount
   <2> QED BY <2>4, <2>5, RowsChange DEF AccountShape, CookiesOfPages
  <1>12. CASE RotateKeys
    BY <1>12 DEF RotateKeys, TokenSound, LocalRows, OneRowPerIdentity, CookiesOfPages, UserIds, AccountShape, RequestSound
  <1>13. CASE RestartApi
   <2>1. TokenSound' /\ LocalRows' /\ OneRowPerIdentity' /\ CookiesOfPages'
     BY <1>13 DEF RestartApi, TokenSound, LocalRows, OneRowPerIdentity, CookiesOfPages, UserIds
   <2>2. AccountShape' /\ RequestsSound' BY <1>13 DEF RestartApi, AccountShape, RequestSound
   <2> QED BY <2>1, <2>2
  <1>14. CASE UNCHANGED acVars
    BY <1>14 DEF acVars, TokenSound, LocalRows, OneRowPerIdentity, CookiesOfPages, UserIds, AccountShape, RequestSound
  <1> QED
    BY <1>1, <1>3, <1>4, <1>5, <1>6, <1>7, <1>8, <1>9, <1>10, <1>11, <1>12, <1>13, <1>14 DEF AccountNext

(* The invariant says whose the rows and the tokens are. *)
LEMMA AccountsOwned == AccountInv => OneRowPerIdentity /\ TokensForOwners /\ FlowStartedHere
  <1> SUFFICES ASSUME AccountInv
               PROVE  OneRowPerIdentity /\ TokensForOwners /\ FlowStartedHere
    OBVIOUS
  <1>1. CASE acToken = NoToken
    BY <1>1, FlowsAssumption DEF AccountInv, NoToken, TokensForOwners, FlowStartedHere
  <1>2. CASE acToken # NoToken
   <2>1. PICK u, p, e, b, st :
            /\ u \in UserIds
            /\ acToken = [user |-> u, provider |-> p, ext |-> e, browser |-> b, state |-> st]
            /\ acUsers[u].provider = p /\ acUsers[u].ext = e
            /\ p \in Flows => Page(b, p, st) \in acFlows
     BY <1>2 DEF AccountInv, TokenSound
   <2> QED BY <2>1 DEF AccountInv, TokensForOwners, FlowStartedHere, Page
  <1> QED BY <1>1, <1>2 DEF AccountInv

----------------------------------------
(* The WebSocket handshake and the rooms. *)

SocketFields == {"pc", "session", "rooms", "shown", "ip"}

\* A socket joined rooms while open only, the accounts' as a user whose token it showed.
SocketSound(r) ==
    /\ r = [x \in SocketFields |-> r[x]]
    /\ r.pc = "open" => r.session \in r.shown
    /\ \A room \in r.rooms : /\ r.pc = "open"
                             /\ room.kind = "account" => \E t \in r.shown : t.user = room.of \/ t.role = "admin"

HandshakeInv ==
    /\ hsSocket = [s \in Sockets |-> hsSocket[s]]
    /\ \A s \in Sockets : SocketSound(hsSocket[s])

(* A socket that comes has joined no room. *)
LEMMA NewSocketSound == SocketSound(NewSocket)
  BY DEF SocketSound, SocketFields, NewSocket

(* No socket has joined a room at the start. *)
LEMMA HandshakeStarts == HandshakeInit => HandshakeInv
  BY NewSocketSound DEF HandshakeInit, HandshakeInv

(* A socket that changes stays sound, and the others are as they were. *)
LEMMA SocketChanges ==
    ASSUME HandshakeInv, NEW s \in Sockets, NEW r, SocketSound(r), hsSocket' = [hsSocket EXCEPT ![s] = r]
    PROVE  HandshakeInv'
  <1>1. hsSocket' = [t \in Sockets |-> IF t = s THEN r ELSE hsSocket[t]] BY DEF HandshakeInv
  <1>2. \A t \in Sockets : SocketSound(hsSocket'[t]) BY <1>1 DEF HandshakeInv
  <1> QED BY <1>1, <1>2 DEF HandshakeInv

(* A socket that arrives or is refused. *)
LEMMA ArrivalSound ==
    ASSUME NEW q, SocketSound(q), q.pc = "new", NEW ip, NEW r,
           r = [q EXCEPT !.pc = "auth", !.ip = ip] \/ r = [q EXCEPT !.pc = "closed"]
    PROVE  SocketSound(r)
  <1>1. q = [x \in SocketFields |-> q[x]] /\ q.rooms = {} BY DEF SocketSound
  <1>2. r = [x \in SocketFields |-> r[x]] /\ r.rooms = {} /\ r.pc # "open" BY <1>1 DEF SocketFields
  <1> QED BY <1>2 DEF SocketSound

(* A socket that shows a token. *)
LEMMA PresentedSound ==
    ASSUME NEW q, SocketSound(q), NEW token, NEW r,
           r = [q EXCEPT !.pc = "open", !.session = token, !.shown = q.shown \cup {token}]
    PROVE  SocketSound(r)
  <1>1. q = [x \in SocketFields |-> q[x]] BY DEF SocketSound
  <1>2. /\ r = [x \in SocketFields |-> r[x]] /\ r.rooms = q.rooms /\ r.pc = "open"
        /\ r.session = token /\ r.shown = q.shown \cup {token}
    BY <1>1 DEF SocketFields
  <1> QED BY <1>2 DEF SocketSound

(* A socket that joins a room it may join, or leaves one. *)
LEMMA RoomsSound ==
    ASSUME NEW q, SocketSound(q), q.pc = "open", NEW rooms, NEW r,
           \A room \in rooms : room \in q.rooms \/ MayJoin(q.session, room),
           r = [q EXCEPT !.rooms = rooms]
    PROVE  SocketSound(r)
  <1>1. q = [x \in SocketFields |-> q[x]] /\ q.session \in q.shown BY DEF SocketSound
  <1>2. /\ r = [x \in SocketFields |-> r[x]] /\ r.rooms = rooms /\ r.pc = "open"
        /\ r.session = q.session /\ r.shown = q.shown
    BY <1>1 DEF SocketFields
  <1>3. ASSUME NEW room \in rooms, room.kind = "account"
        PROVE  \E t \in q.shown : t.user = room.of \/ t.role = "admin"
   <2>1. CASE room \in q.rooms BY <1>3, <2>1 DEF SocketSound
   <2>2. CASE MayJoin(q.session, room) BY <1>1, <1>3, <2>2 DEF MayJoin
   <2> QED BY <2>1, <2>2
  <1> QED BY <1>1, <1>2, <1>3 DEF SocketSound

(* Every step of the sockets keeps the rooms granted. *)
LEMMA HandshakeSteps ==
    ASSUME HandshakeInv, [HandshakeNext]_hsVars
    PROVE  HandshakeInv'
  <1>1. ASSUME NEW s \in Sockets
        PROVE  SocketSound(hsSocket[s])
    BY DEF HandshakeInv
  <1>2. ASSUME NEW s \in Sockets, NEW client, NEW sent, NEW via, Arrive(s, client, sent, via)
        PROVE  HandshakeInv'
   <2> DEFINE ip == RemoteIp(Through(client, sent, via))
   <2> HIDE DEF ip
   <2>1. PICK r : /\ hsSocket' = [hsSocket EXCEPT ![s] = r]
                  /\ r = [hsSocket[s] EXCEPT !.pc = "auth", !.ip = ip] \/ r = [hsSocket[s] EXCEPT !.pc = "closed"]
     BY <1>2 DEF Arrive, ip
   <2>2. SocketSound(r) BY <1>1, <1>2, <2>1, ArrivalSound DEF Arrive
   <2> QED BY <2>1, <2>2, SocketChanges
  <1>3. ASSUME NEW s \in Sockets, NEW token, Authenticate(s, token) \/ Reauthenticate(s, token)
        PROVE  HandshakeInv'
   <2>1. PICK r : /\ hsSocket' = [hsSocket EXCEPT ![s] = r]
                  /\ r = [hsSocket[s] EXCEPT !.pc = "open", !.session = token, !.shown = hsSocket[s].shown \cup {token}]
     BY <1>3 DEF Authenticate, Reauthenticate, Presents
   <2>2. SocketSound(r) BY <1>1, <2>1, PresentedSound
   <2> QED BY <2>1, <2>2, SocketChanges
  <1>4. ASSUME NEW s \in Sockets, SocketEnds(s)
        PROVE  HandshakeInv'
    BY <1>4, NewSocketSound, SocketChanges DEF SocketEnds
  <1>5. ASSUME NEW s \in Sockets, NEW room \in AllRooms, JoinChannel(s, room) \/ LeaveChannel(s, room)
        PROVE  HandshakeInv'
   <2>1. PICK rooms, r : /\ hsSocket' = [hsSocket EXCEPT ![s] = r]
                         /\ r = [hsSocket[s] EXCEPT !.rooms = rooms]
                         /\ \A e \in rooms : e \in hsSocket[s].rooms \/ MayJoin(hsSocket[s].session, e)
    <3>1. CASE JoinChannel(s, room)
     <4> WITNESS hsSocket[s].rooms \cup {room}, [hsSocket[s] EXCEPT !.rooms = hsSocket[s].rooms \cup {room}]
     <4> QED BY <3>1 DEF JoinChannel
    <3>2. CASE LeaveChannel(s, room)
     <4> WITNESS hsSocket[s].rooms \ {room}, [hsSocket[s] EXCEPT !.rooms = hsSocket[s].rooms \ {room}]
     <4> QED BY <3>2 DEF LeaveChannel
    <3> QED BY <1>5, <3>1, <3>2
   <2>2. SocketSound(r) BY <1>1, <1>5, <2>1, RoomsSound DEF JoinChannel, LeaveChannel
   <2> QED BY <2>1, <2>2, SocketChanges
  <1>6. CASE RefillBuckets \/ UNCHANGED hsVars BY <1>6 DEF RefillBuckets, hsVars, HandshakeInv
  <1> QED BY <1>2, <1>3, <1>4, <1>5, <1>6 DEF HandshakeNext

(* The invariant says which rooms a socket sits in. *)
LEMMA HandshakeGrants == HandshakeInv => RoomsWereGranted
  BY DEF HandshakeInv, SocketSound, RoomsWereGranted

(* The address behind the proxies. *)

\* The request that is authenticated came from a client over proxies.
RequestInv == \E client \in Clients, sent \in SentHeaders, via \in ProxyPaths :
                 hsRequest = Through(client, sent, via)

HeaderEntries == Clients \cup Proxies \cup {Junk}

(* Each proxy appends whom it talked to: the client comes last, or last but the outer proxy. *)
LEMMA ThroughProxies ==
    ASSUME NEW client \in Clients, NEW sent \in SentHeaders, NEW via \in ProxyPaths,
           NEW q, q = Through(client, sent, via)
    PROVE  /\ q.client = client
           /\ \/ q.via = 0 /\ q.peer = client
              \/ /\ q.via \in {1, 2} /\ q.peer \in Proxies
                 /\ q.header \in Seq(HeaderEntries) /\ Len(q.header) >= q.via
                 /\ q.header[Len(q.header) + 1 - q.via] = client
                 /\ q.via = 2 => q.header[Len(q.header)] \in Proxies
  <1>1. /\ q.client = client /\ q.via = Len(via)
        /\ q.header = IF via = <<>> THEN sent ELSE (sent \o <<client>>) \o SubSeq(via, 1, Len(via) - 1)
        /\ q.peer = IF via = <<>> THEN client ELSE Last(via)
    BY DEF Through
  <1>2. sent \in Seq(HeaderEntries)
   <2>1. ASSUME NEW a \in HeaderEntries, NEW b \in HeaderEntries
         PROVE  <<>> \in Seq(HeaderEntries) /\ <<a>> \in Seq(HeaderEntries) /\ <<a, b>> \in Seq(HeaderEntries)
     OBVIOUS
   <2>2. Junk \in HeaderEntries /\ Clients \subseteq HeaderEntries /\ Proxies \subseteq HeaderEntries
     BY DEF HeaderEntries
   <2> HIDE DEF HeaderEntries
   <2>3. CASE sent = <<>> BY <2>1, <2>2, <2>3
   <2>4. CASE sent = <<Junk>> BY <2>1, <2>2, <2>4
   <2>5. CASE \E a \in Clients \cup Proxies : sent = <<a>> BY <2>1, <2>2, <2>5
   <2>6. CASE \E a \in Clients : sent = <<a, Junk>> BY <2>1, <2>2, <2>6
   <2> QED BY <2>3, <2>4, <2>5, <2>6 DEF SentHeaders
  <1>3. PICK mid : /\ mid = sent \o <<client>> /\ mid \in Seq(HeaderEntries) /\ Len(mid) \in Nat /\ Len(mid) >= 1
                   /\ mid[Len(mid)] = client
   <2>1. client \in HeaderEntries /\ Len(sent) \in Nat BY <1>2 DEF HeaderEntries
   <2> DEFINE m == sent \o <<client>>
   <2>2. m \in Seq(HeaderEntries) /\ Len(m) = Len(sent) + 1 /\ m[Len(sent) + 1] = client
     BY <1>2, <2>1
   <2>3. Len(m) \in Nat /\ Len(m) >= 1 /\ m[Len(m)] = client BY <2>1, <2>2
   <2> HIDE DEF m
   <2> QED BY <2>2, <2>3 DEF m
  <1>4. CASE via = <<>> BY <1>1, <1>4
  <1>5. ASSUME NEW p \in Proxies, via = <<p>>
        PROVE  q.via = 1 /\ q.peer \in Proxies /\ q.header = mid
   <2>1. Len(via) = 1 /\ Last(via) = p /\ via # <<>> BY <1>5 DEF Last
   <2>2. SubSeq(via, 1, 0) = <<>> BY <1>5
   <2>3. mid \o <<>> = mid BY <1>3
   <2> QED BY <1>1, <1>3, <2>1, <2>2, <2>3
  <1>6. ASSUME NEW p \in Proxies, NEW r \in Proxies, via = <<p, r>>
        PROVE  /\ q.via = 2 /\ q.peer \in Proxies /\ q.header \in Seq(HeaderEntries) /\ Len(q.header) >= 2
               /\ q.header[Len(q.header) + 1 - 2] = client /\ q.header[Len(q.header)] \in Proxies
   <2>1. Len(via) = 2 /\ Last(via) = r /\ via # <<>> /\ via[1] = p /\ via \in Seq(Proxies)
     BY <1>6 DEF Last
   <2>2. PICK rest : /\ rest = SubSeq(via, 1, 1) /\ rest \in Seq(Proxies) /\ Len(rest) = 1 /\ rest[1] = p
    <3> DEFINE x == SubSeq(via, 1, 1)
    <3>1. x \in Seq(Proxies) /\ Len(x) = 1 /\ x[1] = p BY <2>1
    <3> HIDE DEF x
    <3> QED BY <3>1 DEF x
   <2>3. q.header = mid \o rest BY <1>1, <1>3, <2>1, <2>2
   <2>4. rest \in Seq(HeaderEntries) BY <2>2 DEF HeaderEntries
   <2>5. /\ mid \o rest \in Seq(HeaderEntries) /\ Len(mid \o rest) = Len(mid) + 1
         /\ (mid \o rest)[Len(mid)] = client /\ (mid \o rest)[Len(mid) + 1] = p
     BY <1>3, <2>2, <2>4
   <2> QED BY <1>1, <1>3, <2>1, <2>3, <2>5
  <1> QED
   <2>1. (\E p \in Proxies : via = <<p>>) \/ (\E p, r \in Proxies : via = <<p, r>>) \/ via = <<>>
     BY DEF ProxyPaths
   <2>2. CASE \E p \in Proxies : via = <<p>>
    <3>1. q.via = 1 /\ q.peer \in Proxies /\ q.header = mid BY <1>5, <2>2
    <3>2. Len(mid) + 1 - 1 = Len(mid) BY <1>3
    <3> QED BY <1>1, <1>3, <3>1, <3>2
   <2>3. CASE \E p, r \in Proxies : via = <<p, r>> BY <1>1, <1>6, <2>3
   <2> QED BY <1>1, <1>4, <2>1, <2>2, <2>3

(* Reading the header from its end finds the client (resolve_client_ip, _get_remote_ip). *)
LEMMA RequestResolves == RequestInv => AddressIsClient
  <1> SUFFICES ASSUME NEW client \in Clients, NEW sent \in SentHeaders, NEW via \in ProxyPaths,
                      hsRequest = Through(client, sent, via)
               PROVE  AddressIsClient
    BY DEF RequestInv
  <1> DEFINE q == hsRequest
             near == {i \in DOMAIN q.header : i > Len(q.header) - MaxHops /\ q.header[i] \notin Proxies \cup {Junk}}
  <1>1. /\ q.client = client
        /\ \/ q.via = 0 /\ q.peer = client
           \/ /\ q.via \in {1, 2} /\ q.peer \in Proxies
              /\ q.header \in Seq(HeaderEntries) /\ Len(q.header) >= q.via
              /\ q.header[Len(q.header) + 1 - q.via] = client
              /\ q.via = 2 => q.header[Len(q.header)] \in Proxies
    BY ThroughProxies
  <1>2. client \notin Proxies \cup {Junk} /\ MaxHops \in Nat BY AddressAssumption
  <1>3. Resolve(q) = IF q.peer \notin Proxies \/ near = {} THEN q.peer
                     ELSE q.header[CHOOSE i \in near : \A j \in near : j <= i]
    BY DEF Resolve
  <1>4. CASE q.via = 0 /\ q.peer = client BY <1>1, <1>2, <1>3, <1>4 DEF RemoteIp, AddressIsClient
  <1>5. CASE /\ q.via \in {1, 2} /\ q.peer \in Proxies
             /\ q.header \in Seq(HeaderEntries) /\ Len(q.header) >= q.via
             /\ q.header[Len(q.header) + 1 - q.via] = client
             /\ q.via = 2 => q.header[Len(q.header)] \in Proxies
   <2> DEFINE n == Len(q.header)
              k == n + 1 - q.via
   <2>1. n \in Nat /\ DOMAIN q.header = 1..n /\ k \in 1..n /\ q.header[k] = client BY <1>5
   <2>2. ASSUME q.via <= MaxHops
         PROVE  Resolve(q) = client
    <3>1. k \in near BY <1>2, <1>5, <2>1, <2>2
    <3>2. \A j \in near : j <= k
     <4>1. CASE q.via = 1 BY <2>1, <4>1
     <4>2. CASE q.via = 2 BY <1>5, <2>1, <4>2
     <4> QED BY <1>5, <4>1, <4>2
    <3>3. \A i \in near : i \in Nat BY <2>1
    <3> HIDE DEF near, k, n
    <3>4. (CHOOSE i \in near : \A j \in near : j <= i) = k
     <4>1. \A i \in near : (\A j \in near : j <= i) => i = k BY <3>1, <3>2, <3>3
     <4> QED BY <3>1, <3>2, <4>1
    <3> QED BY <1>3, <1>5, <2>1, <3>1, <3>4
   <2>3. ASSUME q.via <= 1
         PROVE  RemoteIp(q) = client
    <3>1. q.via = 1 /\ k = n BY <1>5, <2>1, <2>3
    <3>2. q.header # <<>> /\ Last(q.header) = client BY <2>1, <3>1 DEF Last
    <3> QED BY <1>2, <1>5, <3>2 DEF RemoteIp
   <2> QED BY <1>1, <2>2, <2>3 DEF AddressIsClient
  <1> QED BY <1>1, <1>4, <1>5

(* A socket that is not used stands for a client that sends nothing. *)
LEMMA NoRequestIsOne ==
    \E client \in Clients, sent \in SentHeaders, via \in ProxyPaths : NoRequestYet = Through(client, sent, via)
  <1>1. (CHOOSE c \in Clients : TRUE) \in Clients /\ <<>> \in SentHeaders /\ <<>> \in ProxyPaths
    BY AddressAssumption DEF SentHeaders, ProxyPaths
  <1> QED BY <1>1 DEF NoRequestYet

(* No request was made at the start. *)
LEMMA RequestStarts == HandshakeInit => RequestInv
  BY NoRequestIsOne DEF HandshakeInit, RequestInv

(* Every request comes from a client. *)
LEMMA RequestSteps ==
    ASSUME RequestInv, [HandshakeNext]_hsVars
    PROVE  RequestInv'
  <1>1. ASSUME hsRequest' = NoRequestYet PROVE RequestInv' BY <1>1, NoRequestIsOne DEF RequestInv
  <1>2. ASSUME hsRequest' = hsRequest PROVE RequestInv' BY <1>2 DEF RequestInv
  <1>3. ASSUME NEW s \in Sockets, NEW client \in Clients, NEW sent \in SentHeaders, NEW via \in ProxyPaths,
               Arrive(s, client, sent, via)
        PROVE  RequestInv'
    BY <1>3 DEF Arrive, RequestInv
  <1>4. CASE RefillBuckets \/ UNCHANGED hsVars BY <1>2, <1>4 DEF RefillBuckets, hsVars
  <1>5. ASSUME NEW s \in Sockets, NEW token, Authenticate(s, token) \/ Reauthenticate(s, token)
        PROVE  RequestInv'
    BY <1>1, <1>2, <1>5 DEF Authenticate, Reauthenticate
  <1>6. ASSUME NEW s \in Sockets, SocketEnds(s) PROVE RequestInv' BY <1>1, <1>6 DEF SocketEnds
  <1>7. ASSUME NEW s \in Sockets, NEW room \in AllRooms, JoinChannel(s, room) \/ LeaveChannel(s, room)
        PROVE  RequestInv'
    BY <1>2, <1>7 DEF JoinChannel, LeaveChannel
  <1> QED BY <1>3, <1>4, <1>5, <1>6, <1>7 DEF HandshakeNext

----------------------------------------
(* The topics of a user. *)

Connected(u) == {s \in TopicSockets : utAt[s] = "open" /\ utWho[s] = u}

TopicsShape ==
    /\ utAt \in [TopicSockets -> {"auth", "known", "open", "done"}]
    /\ utWho \in [TopicSockets -> TopicUsers \cup {Nobody}]
    /\ \A s \in TopicSockets : utAt[s] \in {"known", "open"} => utWho[s] \in TopicUsers
    /\ utConns = [u \in TopicUsers |-> utConns[u]]
    /\ \A u \in TopicUsers : utConns[u] = [s \in Connected(u) |-> utConns[u][s]]

\* What was sent went to sockets that have authenticated, as the user it was for.
SentToUser == \A g \in utGot : /\ g[1] \in TopicSockets /\ utAt[g[1]] # "auth"
                               /\ utWho[g[1]] = g[2] /\ g[3] \in ValidTopics

\* The broadcast under way goes on to sockets of its user, and waits for those that are
\* still subscribed.
CastShape(k) ==
    k = [on |-> k.on, user |-> k.user, topic |-> k.topic, left |-> k.left, standing |-> k.standing, tried |-> k.tried]
CastSound(k) ==
    /\ CastShape(k)
    /\ k.left \subseteq TopicSockets
    /\ \A s \in k.left : k.topic \in ValidTopics /\ utAt[s] # "auth" /\ utWho[s] = k.user
    /\ k.on => /\ k.on = TRUE /\ k.user \in TopicUsers /\ k.topic \in ValidTopics
               /\ k.standing \subseteq k.left \cup k.tried
               /\ \A s \in k.standing : s \in DOMAIN utConns[k.user] /\ k.topic \in utConns[k.user][s]

TopicsInv == TopicsShape /\ SentToUser /\ CastSound(utCast)

(* Nobody is connected at the start. *)
LEMMA TopicsStart == TopicsInit => TopicsInv
  <1> SUFFICES ASSUME TopicsInit
               PROVE  TopicsInv
    OBVIOUS
  <1>1. TopicsShape
   <2>1. \A u \in TopicUsers : Connected(u) = {} BY DEF TopicsInit, Connected
   <2>2. \A u \in TopicUsers : utConns[u] = [s \in {} |-> {}] BY DEF TopicsInit, NoConns
   <2>3. \A u \in TopicUsers : utConns[u] = [s \in Connected(u) |-> utConns[u][s]] BY <2>1, <2>2
   <2> QED BY <2>3 DEF TopicsInit, TopicsShape
  <1>2. SentToUser /\ CastSound(utCast) BY DEF TopicsInit, SentToUser, CastSound, CastShape, Idle
  <1> QED BY <1>1, <1>2 DEF TopicsInv

(* A step of a socket that is connected before and after leaves the broadcast's recipients
   where they were. *)
LEMMA TopicsSteps ==
    ASSUME TopicsInv, [TopicsNext]_utVars
    PROVE  TopicsInv'
  <1> USE DEF TopicsInv
  <1> DEFINE k == utCast
  <1>0. CastShape(k) BY DEF CastSound
  <1>1. ASSUME NEW s \in TopicSockets, AuthenticateFails(s)
        PROVE  TopicsInv'
   <2>1. \A u \in TopicUsers : Connected(u)' = Connected(u)
     BY <1>1 DEF AuthenticateFails, HandlerAt, TopicsShape, Connected
   <2>2. TopicsShape' BY <1>1, <2>1 DEF AuthenticateFails, HandlerAt, TopicsShape
   <2>3. SentToUser' /\ CastSound(utCast)'
     BY <1>1 DEF AuthenticateFails, HandlerAt, TopicsShape, SentToUser, CastSound, CastShape
   <2> QED BY <2>2, <2>3
  <1>2. ASSUME NEW s \in TopicSockets, NEW u \in TopicUsers, Authenticates(s, u)
        PROVE  TopicsInv'
   <2>1. \A v \in TopicUsers : Connected(v)' = Connected(v)
     BY <1>2 DEF Authenticates, HandlerAt, TopicsShape, Connected
   <2>2. TopicsShape' BY <1>2, <2>1 DEF Authenticates, HandlerAt, TopicsShape
   <2>3. SentToUser' /\ CastSound(utCast)'
     BY <1>2 DEF Authenticates, HandlerAt, TopicsShape, SentToUser, CastSound, CastShape
   <2> QED BY <2>2, <2>3
  <1>3. ASSUME NEW s \in TopicSockets, Attach(s)
        PROVE  TopicsInv'
   <2> DEFINE u == utWho[s]
              old == utConns[u]
              new == WithSocket(old, s)
   <2>1. u \in TopicUsers /\ s \notin Connected(u) /\ old = [t \in Connected(u) |-> old[t]]
     BY <1>3 DEF Attach, HandlerAt, TopicsShape, Connected
   <2>2. \A v \in TopicUsers : Connected(v)' = IF v = u THEN Connected(v) \cup {s} ELSE Connected(v)
     BY <1>3 DEF Attach, HandlerAt, TopicsShape, Connected
   <2>3. new = [t \in Connected(u) \cup {s} |-> new[t]] /\ \A t \in Connected(u) : new[t] = old[t]
     BY <2>1 DEF WithSocket
   <2>4. utConns' = [utConns EXCEPT ![u] = new] BY <1>3 DEF Attach
   <2> HIDE DEF new, old, u
   <2>5. utConns' = [v \in TopicUsers |-> IF v = u THEN new ELSE utConns[v]]
     BY <2>1, <2>4 DEF TopicsShape
   <2>6. TopicsShape'
    <3>1. \A v \in TopicUsers : utConns'[v] = [t \in Connected(v)' |-> utConns'[v][t]]
      BY <2>1, <2>2, <2>3, <2>5 DEF TopicsShape
    <3> QED BY <1>3, <2>5, <3>1 DEF Attach, HandlerAt, TopicsShape
   <2>7. SentToUser' BY <1>3 DEF Attach, HandlerAt, TopicsShape, SentToUser
   <2>8. CastSound(utCast)'
    <3>1. ASSUME k.on, NEW t \in k.standing
          PROVE  t \in DOMAIN utConns'[k.user] /\ k.topic \in utConns'[k.user][t]
     <4>1. k.user \in TopicUsers /\ t \in Connected(k.user) /\ k.topic \in utConns[k.user][t]
       BY <3>1 DEF CastSound, TopicsShape
     <4> QED BY <2>1, <2>3, <2>5, <4>1 DEF TopicsShape, old
    <3> QED BY <1>3, <3>1 DEF Attach, HandlerAt, CastSound, CastShape, TopicsShape
   <2> QED BY <2>6, <2>7, <2>8
  <1>4. ASSUME NEW s \in TopicSockets, NEW topics, SubscribeTopics(s, topics)
        PROVE  TopicsInv'
   <2> DEFINE u == utWho[s]
              old == utConns[u]
              new == [old EXCEPT ![s] = @ \cup (topics \cap ValidTopics)]
   <2>1. u \in TopicUsers /\ s \in DOMAIN old BY <1>4 DEF SubscribeTopics, TopicsShape
   <2>2. DOMAIN new = DOMAIN old /\ \A t \in DOMAIN old : old[t] \subseteq new[t] OBVIOUS
   <2>3. utConns' = [utConns EXCEPT ![u] = new] BY <1>4 DEF SubscribeTopics
   <2>4. new = [t \in DOMAIN old |-> new[t]] OBVIOUS
   <2> HIDE DEF new, u
   <2>5. \A v \in TopicUsers : DOMAIN utConns'[v] = DOMAIN utConns[v] /\ \A t \in DOMAIN utConns[v] : utConns[v][t] \subseteq utConns'[v][t]
     BY <2>1, <2>2, <2>3 DEF TopicsShape
   <2>6. TopicsShape'
    <3>1. \A v \in TopicUsers : Connected(v)' = Connected(v) BY <1>4 DEF SubscribeTopics, Connected
    <3>2. \A v \in TopicUsers : utConns'[v] = [t \in Connected(v) |-> utConns'[v][t]]
      BY <2>1, <2>2, <2>3, <2>4 DEF TopicsShape
    <3>3. utConns' = [v \in TopicUsers |-> utConns'[v]] BY <2>3 DEF TopicsShape
    <3>4. UNCHANGED <<utAt, utWho>> BY <1>4 DEF SubscribeTopics
    <3> QED BY <3>1, <3>2, <3>3, <3>4 DEF TopicsShape
   <2>7. SentToUser' /\ CastSound(utCast)'
     BY <1>4, <2>5 DEF SubscribeTopics, SentToUser, CastSound, CastShape, TopicsShape
   <2> QED BY <2>6, <2>7
  <1>5. ASSUME NEW s \in TopicSockets, NEW topics, UnsubscribeTopics(s, topics)
        PROVE  TopicsInv'
   <2> DEFINE u == utWho[s]
              old == utConns[u]
              new == [old EXCEPT ![s] = @ \ topics]
   <2>1. u \in TopicUsers /\ s \in DOMAIN old BY <1>5 DEF UnsubscribeTopics, TopicsShape
   <2>2. /\ DOMAIN new = DOMAIN old
         /\ \A t \in DOMAIN old : old[t] \ topics \subseteq new[t] /\ (t # s => new[t] = old[t])
     OBVIOUS
   <2>3. utConns' = [utConns EXCEPT ![u] = new] BY <1>5 DEF UnsubscribeTopics
   <2>4. new = [t \in DOMAIN old |-> new[t]] OBVIOUS
   <2> HIDE DEF new, u
   <2>5. \A v \in TopicUsers : /\ DOMAIN utConns'[v] = DOMAIN utConns[v]
                               /\ \A t \in DOMAIN utConns[v] : \A e : e \in utConns[v][t] /\ (t # s \/ e \notin topics) => e \in utConns'[v][t]
     BY <2>1, <2>2, <2>3 DEF TopicsShape
   <2>6. TopicsShape'
    <3>1. \A v \in TopicUsers : Connected(v)' = Connected(v)
      BY <1>5 DEF UnsubscribeTopics, Connected
    <3>2. \A v \in TopicUsers : utConns'[v] = [t \in Connected(v) |-> utConns'[v][t]]
      BY <2>1, <2>2, <2>3, <2>4 DEF TopicsShape
    <3>3. utConns' = [v \in TopicUsers |-> utConns'[v]] BY <2>3 DEF TopicsShape
    <3>4. UNCHANGED <<utAt, utWho>> BY <1>5 DEF UnsubscribeTopics
    <3> QED BY <3>1, <3>2, <3>3, <3>4 DEF TopicsShape
   <2>7. SentToUser' BY <1>5 DEF UnsubscribeTopics, SentToUser
   <2>8. CastSound(utCast)'
    <3>1. CASE k.topic \in topics
     <4>1. utCast' = [k EXCEPT !.standing = k.standing \ {s}]
       BY <1>5, <3>1 DEF UnsubscribeTopics, NoLonger
     <4>2. /\ CastShape(utCast') /\ utCast'.on = k.on /\ utCast'.user = k.user /\ utCast'.topic = k.topic
           /\ utCast'.left = k.left /\ utCast'.tried = k.tried /\ utCast'.standing = k.standing \ {s}
       BY <1>0, <4>1 DEF CastShape
     <4> QED BY <1>5, <2>5, <4>2 DEF UnsubscribeTopics, CastSound, TopicsShape
    <3>2. CASE k.topic \notin topics
      BY <1>5, <2>5, <3>2 DEF UnsubscribeTopics, NoLonger, CastSound, CastShape, TopicsShape
    <3> QED BY <3>1, <3>2
   <2> QED BY <2>6, <2>7, <2>8
  <1>6. ASSUME NEW s \in TopicSockets, Detach(s)
        PROVE  TopicsInv'
   <2> DEFINE u == utWho[s]
              old == utConns[u]
              new == Restrict(old, DOMAIN old \ {s})
   <2>1. u \in TopicUsers /\ s \in Connected(u) /\ old = [t \in Connected(u) |-> old[t]]
     BY <1>6 DEF Detach, HandlerAt, TopicsShape, Connected
   <2>2. \A v \in TopicUsers : Connected(v)' = IF v = u THEN Connected(v) \ {s} ELSE Connected(v)
     BY <1>6 DEF Detach, HandlerAt, TopicsShape, Connected
   <2>3. new = [t \in Connected(u) \ {s} |-> new[t]] /\ \A t \in Connected(u) \ {s} : new[t] = old[t]
     BY <2>1 DEF Restrict
   <2>4. utConns' = [utConns EXCEPT ![u] = new] BY <1>6 DEF Detach
   <2> HIDE DEF new, old, u
   <2>5. utConns' = [v \in TopicUsers |-> IF v = u THEN new ELSE utConns[v]]
     BY <2>1, <2>4 DEF TopicsShape
   <2>6. TopicsShape'
    <3>1. \A v \in TopicUsers : utConns'[v] = [t \in Connected(v)' |-> utConns'[v][t]]
      BY <2>1, <2>2, <2>3, <2>5 DEF TopicsShape
    <3> QED BY <1>6, <2>5, <3>1 DEF Detach, HandlerAt, TopicsShape
   <2>7. SentToUser' BY <1>6 DEF Detach, HandlerAt, TopicsShape, SentToUser
   <2>8. CastSound(utCast)'
    <3>1. /\ CastShape(utCast') /\ utCast'.on = k.on /\ utCast'.user = k.user /\ utCast'.topic = k.topic
          /\ utCast'.left = k.left /\ utCast'.tried = k.tried
          /\ utCast'.standing = IF k.topic \in ValidTopics THEN k.standing \ {s} ELSE k.standing
      BY <1>0, <1>6 DEF CastShape, Detach, NoLonger
    <3>2. ASSUME k.on, NEW t \in utCast'.standing
          PROVE  t \in DOMAIN utConns'[k.user] /\ k.topic \in utConns'[k.user][t]
     <4>1. /\ k.user \in TopicUsers /\ t \in Connected(k.user) /\ k.topic \in utConns[k.user][t]
           /\ t # s /\ t \in k.standing
       BY <3>1, <3>2 DEF CastSound, TopicsShape
     <4> QED BY <2>1, <2>3, <2>5, <4>1 DEF TopicsShape, old
    <3>3. k.on => utCast'.standing \subseteq k.standing BY <3>1
    <3> QED BY <1>6, <3>1, <3>2, <3>3 DEF Detach, HandlerAt, CastSound, TopicsShape
   <2> QED BY <2>6, <2>7, <2>8
  <1>7. ASSUME NEW u \in TopicUsers, NEW topic, BroadcastTopic(u, topic)
        PROVE  TopicsInv'
   <2>1. TopicsShape' /\ SentToUser' BY <1>7 DEF BroadcastTopic, TopicsShape, Connected, SentToUser
   <2>2. CastSound(utCast)'
    <3>1. CASE topic \in ValidTopics /\ Recipients(u, topic) # {}
     <4> DEFINE to == Recipients(u, topic)
     <4>1. \A t \in to : t \in Connected(u) /\ t \in DOMAIN utConns[u] /\ topic \in utConns[u][t]
       BY DEF Recipients, TopicsShape
     <4>2. utCast' = [on |-> TRUE, user |-> u, topic |-> topic, left |-> to, standing |-> to, tried |-> {}]
       BY <1>7, <3>1 DEF BroadcastTopic
     <4> HIDE DEF to
     <4> QED BY <1>7, <3>1, <4>1, <4>2 DEF BroadcastTopic, CastSound, CastShape, Connected
    <3>2. CASE ~(topic \in ValidTopics /\ Recipients(u, topic) # {})
     <4>1. utCast' = Idle BY <1>7, <3>2 DEF BroadcastTopic
     <4> QED BY <4>1 DEF CastSound, CastShape, Idle
    <3> QED BY <3>1, <3>2
   <2> QED BY <2>1, <2>2
  <1>8. ASSUME NEW s \in TopicSockets, NEW ok \in BOOLEAN, SendTopic(s, ok)
        PROVE  TopicsInv'
   <2>0. TopicsShape' BY <1>8 DEF SendTopic, TopicsShape, Connected
   <2>1. SentToUser'
    <3>1. ASSUME ok
          PROVE  utWho[s] = k.user /\ k.topic \in ValidTopics /\ utAt[s] = "open"
      BY <1>8, <3>1 DEF SendTopic, CastSound
    <3>2. ASSUME NEW g \in utGot'
          PROVE  g \in utGot \/ (ok /\ g[1] = s /\ g[2] = k.user /\ g[3] = k.topic)
      BY <1>8 DEF SendTopic
    <3> QED BY <1>8, <3>1, <3>2 DEF SendTopic, SentToUser
   <2>2. /\ CastShape(utCast') /\ utCast'.on = k.on /\ utCast'.user = k.user /\ utCast'.topic = k.topic
         /\ utCast'.left = k.left \ {s} /\ utCast'.tried = k.tried \cup {s} /\ utCast'.standing = k.standing
    <3>1. utCast' = [k EXCEPT !.left = k.left \ {s}, !.tried = k.tried \cup {s}]
      BY <1>8 DEF SendTopic
    <3> QED BY <1>0, <3>1 DEF CastShape
   <2>3. CastSound(utCast)' BY <1>8, <2>2 DEF SendTopic, CastSound
   <2> QED BY <2>0, <2>1, <2>3
  <1>9. CASE BroadcastEnds
   <2>1. TopicsShape' /\ SentToUser' BY <1>9 DEF BroadcastEnds, TopicsShape, Connected, SentToUser
   <2>2. CastSound(utCast)' BY <1>9 DEF BroadcastEnds, CastSound, CastShape, Idle
   <2> QED BY <2>1, <2>2
  <1>10. ASSUME NEW u \in TopicUsers, DeactivateUser(u)
         PROVE  TopicsInv'
    BY <1>10 DEF DeactivateUser, TopicsShape, SentToUser, CastSound, CastShape, Connected
  <1>11. CASE UNCHANGED utVars
    BY <1>11 DEF utVars, TopicsShape, SentToUser, CastSound, CastShape, Connected
  <1> QED BY <1>1, <1>2, <1>3, <1>4, <1>5, <1>6, <1>7, <1>8, <1>9, <1>10, <1>11 DEF TopicsNext

(* The invariant says who is registered, who hears what, and whom a broadcast tries. *)
LEMMA TopicsStay == TopicsInv => TopicsStayWithUser
  <1> SUFFICES ASSUME TopicsInv
               PROVE  TopicsStayWithUser
    OBVIOUS
  <1>1. \A u \in TopicUsers : DOMAIN utConns[u] = {s \in TopicSockets : utAt[s] = "open" /\ utWho[s] = u}
    BY DEF TopicsInv, TopicsShape, Connected
  <1> QED BY <1>1 DEF TopicsInv, SentToUser, CastSound, TopicsStayWithUser
----------------------------------------
(* The deletion of accounts. *)

DsrRow == [user : Persons, kind : {"delete", "export"}, status : {"pending", "cancelled", "completed"},
           schedule : {"scheduled", "cancelled", "purged", "none"}, due : Nat]

\* A schedule stands while its request is pending, and falls with it.
RowInStep(d) ==
    <<d.kind, d.status, d.schedule>> \in
       {<<"delete", "pending", "scheduled">>, <<"delete", "cancelled", "cancelled">>,
        <<"delete", "completed", "purged">>, <<"export", "completed", "none">>}

ErasureShape ==
    /\ erUser \in [Persons -> {"active", "disabled", "tombstone"}]
    /\ erOwns \in [Persons -> SUBSET Tables]
    /\ erDsr \in Seq(DsrRow) /\ erDay \in Nat
    /\ \A c \in PrivacyCalls : erCalls[c].pc \in {"delete", "cancel", "export"} => erCalls[c].user \in Persons
    /\ erCalls = [c \in PrivacyCalls |-> erCalls[c]]

ErasureInv ==
    /\ ErasureShape
    /\ \A d \in DOMAIN erDsr : RowInStep(erDsr[d])
    /\ PurgedWasDue /\ CancelledStays

(* Nobody asked for a deletion at the start. *)
LEMMA ErasureStarts == ErasureInit => ErasureInv
  BY DEF ErasureInit, ErasureInv, ErasureShape, PurgedWasDue, CancelledStays, NoPrivacyCall

(* A request that is added, for a user whose account is not active if it is a deletion. *)
LEMMA RowAdded ==
    ASSUME ErasureInv, NEW p \in Persons, NEW row \in DsrRow, row.user = p, RowInStep(row),
           erDsr' = Append(erDsr, row), UNCHANGED <<erOwns, erDay>>,
           \/ erUser' = erUser /\ row.schedule = "none"
           \/ erUser' = [erUser EXCEPT ![p] = "disabled"]
    PROVE  /\ erDsr' \in Seq(DsrRow)
           /\ (\A d \in DOMAIN erDsr : RowInStep(erDsr[d]))'
           /\ PurgedWasDue' /\ CancelledStays'
  <1>1. erDsr \in Seq(DsrRow) /\ Len(erDsr) \in Nat /\ DOMAIN erDsr = 1..Len(erDsr)
    BY DEF ErasureInv, ErasureShape
  <1> DEFINE n == Len(erDsr) + 1
  <1>2. /\ erDsr' \in Seq(DsrRow) /\ DOMAIN erDsr' = 1..n /\ erDsr'[n] = row
        /\ \A d \in DOMAIN erDsr : erDsr'[d] = erDsr[d] /\ d \in DOMAIN erDsr'
        /\ \A d \in DOMAIN erDsr' : d \in DOMAIN erDsr \/ d = n
    BY <1>1
  <1> HIDE DEF n
  <1>3. \A q \in Persons : erUser'[q] = erUser[q] \/ (q = p /\ erUser'[q] = "disabled")
    BY DEF ErasureInv, ErasureShape
  <1>4. PurgedWasDue' BY <1>2, <1>3 DEF ErasureInv, PurgedWasDue
  <1>5. CancelledStays'
   <2>1. ASSUME NEW d \in DOMAIN erDsr', erDsr'[d].schedule = "scheduled", erUser'[erDsr'[d].user] = "active"
         PROVE  \E e \in DOMAIN erDsr' : e > d /\ erDsr'[e].user = erDsr'[d].user /\ erDsr'[e].status = "cancelled"
    <3>1. d \in DOMAIN erDsr BY <1>2, <1>3, <2>1 DEF ErasureInv, ErasureShape
    <3>2. erDsr[d] \in DsrRow BY <1>1, <3>1
    <3>4. erDsr[d].user \in Persons BY <3>2 DEF DsrRow
    <3>3. PICK e \in DOMAIN erDsr : e > d /\ erDsr[e].user = erDsr[d].user /\ erDsr[e].status = "cancelled"
      BY <1>2, <1>3, <2>1, <3>1, <3>4 DEF ErasureInv, CancelledStays
    <3> QED BY <1>2, <3>1, <3>3
   <2> QED BY <2>1 DEF ErasureInv, CancelledStays
  <1>6. (\A d \in DOMAIN erDsr : RowInStep(erDsr[d]))' BY <1>2 DEF ErasureInv
  <1> QED BY <1>2, <1>4, <1>5, <1>6

(* Cancelling the newest of a user's pending deletions leaves none that stands and is not
   followed by one that was cancelled. *)
LEMMA CancelKeeps ==
    ASSUME ErasureInv, NEW c \in PrivacyCalls, CancelDeletion(c)
    PROVE  ErasureInv'
  <1> DEFINE p == erCalls[c].user
             live == ActiveDeletion(p)
  <1>1. erDsr \in Seq(DsrRow) /\ Len(erDsr) \in Nat /\ DOMAIN erDsr = 1..Len(erDsr) /\ p \in Persons
    BY DEF ErasureInv, ErasureShape, CancelDeletion
  <1>2. erCalls' = [q \in PrivacyCalls |-> erCalls'[q]]
        /\ \A q \in PrivacyCalls : erCalls'[q].pc \in {"delete", "cancel", "export"} => erCalls'[q].user \in Persons
    BY DEF ErasureInv, ErasureShape, CancelDeletion, NoPrivacyCall
  <1>3. CASE live = {}
    BY <1>2, <1>3 DEF CancelDeletion, ErasureInv, ErasureShape, PurgedWasDue, CancelledStays
  <1>4. CASE live # {}
   <2> DEFINE n == Newest(live)
   <2>1. n \in live /\ \A e \in live : e <= n
    <3>1. live \subseteq 1..Len(erDsr) BY <1>1 DEF ActiveDeletion
    <3>2. PICK m \in live : \A e \in live : e <= m
     <4> HIDE DEF live
     <4> QED BY <1>1, <1>4, <3>1, LastPosition
    <3> HIDE DEF live
    <3> QED BY <3>2 DEF Newest
   <2>2. n \in DOMAIN erDsr /\ erDsr[n].user = p /\ erDsr[n].status = "pending" /\ erDsr[n].kind = "delete"
     BY <2>1 DEF ActiveDeletion
   <2>3. \A d \in DOMAIN erDsr : erDsr[d].user = p /\ erDsr[d].schedule = "scheduled" => d <= n
     BY <2>1 DEF ActiveDeletion, ErasureInv, RowInStep
   <2>4. erDsr' = [erDsr EXCEPT ![n] = Cancelled(n)] /\ erUser' = [erUser EXCEPT ![p] = "active"]
     BY <1>4 DEF CancelDeletion
   <2> HIDE DEF n, live
   <2>5. /\ Cancelled(n) \in DsrRow /\ Cancelled(n).user = p /\ Cancelled(n).status = "cancelled"
         /\ Cancelled(n).schedule = "cancelled" /\ Cancelled(n).kind = "delete"
    <3>1. erDsr[n] \in DsrRow /\ RowInStep(erDsr[n]) BY <1>1, <2>2 DEF ErasureInv
    <3>2. erDsr[n].schedule = "scheduled" BY <2>2, <3>1 DEF RowInStep
    <3> QED BY <2>2, <3>1, <3>2 DEF Cancelled, DsrRow
   <2> DEFINE row == Cancelled(n)
   <2> HIDE DEF row
   <2>6. /\ erDsr' \in Seq(DsrRow) /\ DOMAIN erDsr' = DOMAIN erDsr /\ erDsr'[n] = row
         /\ \A d \in DOMAIN erDsr : d # n => erDsr'[d] = erDsr[d]
     BY <1>1, <2>2, <2>4, <2>5 DEF row
   <2>7. /\ row.user = p /\ row.status = "cancelled" /\ row.schedule = "cancelled" /\ row.kind = "delete"
     BY <2>5 DEF row
   <2>8. \A d \in DOMAIN erDsr' : RowInStep(erDsr'[d]) BY <2>6, <2>7 DEF ErasureInv, RowInStep
   <2>9. PurgedWasDue'
    <3>1. ASSUME NEW q \in Persons, erUser'[q] = "tombstone"
          PROVE  \E d \in DOMAIN erDsr' : /\ erDsr'[d].user = q /\ erDsr'[d].kind = "delete"
                                          /\ erDsr'[d].status = "completed" /\ erDsr'[d].due <= erDay
     <4>1. erUser[q] = "tombstone" BY <1>1, <2>4, <3>1 DEF ErasureInv, ErasureShape
     <4>2. PICK d \in DOMAIN erDsr : /\ erDsr[d].user = q /\ erDsr[d].kind = "delete"
                                     /\ erDsr[d].status = "completed" /\ erDsr[d].due <= erDay
       BY <4>1 DEF ErasureInv, PurgedWasDue
     <4> QED BY <2>2, <2>6, <4>2
    <3> QED BY <3>1 DEF PurgedWasDue, CancelDeletion
   <2>10. CancelledStays'
    <3>1. ASSUME NEW d \in DOMAIN erDsr', erDsr'[d].schedule = "scheduled", erUser'[erDsr'[d].user] = "active"
          PROVE  \E e \in DOMAIN erDsr' : e > d /\ erDsr'[e].user = erDsr'[d].user /\ erDsr'[e].status = "cancelled"
     <4>1. d # n /\ erDsr'[d] = erDsr[d] /\ d \in DOMAIN erDsr BY <2>6, <2>7, <3>1
     <4>2. CASE erDsr[d].user = p BY <1>1, <2>2, <2>3, <2>6, <2>7, <3>1, <4>1, <4>2
     <4>3. CASE erDsr[d].user # p
      <5>1. erDsr[d] \in DsrRow BY <1>1, <4>1
      <5>2. erDsr[d].user \in Persons BY <5>1 DEF DsrRow
      <5>3. erUser[erDsr[d].user] = "active"
        BY <2>4, <3>1, <4>1, <4>3, <5>2 DEF ErasureInv, ErasureShape
      <5>4. PICK e \in DOMAIN erDsr : e > d /\ erDsr[e].user = erDsr[d].user /\ erDsr[e].status = "cancelled"
        BY <3>1, <4>1, <5>3 DEF ErasureInv, CancelledStays
      <5> QED BY <2>2, <2>6, <4>1, <5>4
     <4> QED BY <4>2, <4>3
    <3> QED BY <3>1 DEF CancelledStays, CancelDeletion, ErasureInv
   <2>11. ErasureShape'
    <3>1. erUser' \in [Persons -> {"active", "disabled", "tombstone"}]
      BY <2>4 DEF ErasureInv, ErasureShape
    <3> QED BY <1>2, <2>6, <3>1 DEF ErasureShape, ErasureInv, CancelDeletion
   <2> QED BY <2>8, <2>9, <2>10, <2>11 DEF ErasureInv
  <1> QED BY <1>3, <1>4

(* The purge completes what is due, and touches nobody else. *)
LEMMA PurgeKeeps ==
    ASSUME ErasureInv, ProcessDueDeletions
    PROVE  ErasureInv'
  <1> DEFINE gone == {erDsr[d].user : d \in DueSchedules}
  <1>1. /\ erDsr \in Seq(DsrRow) /\ Len(erDsr) \in Nat /\ DOMAIN erDsr = 1..Len(erDsr)
        /\ \A d \in DOMAIN erDsr : erDsr[d] \in DsrRow /\ RowInStep(erDsr[d])
    BY DEF ErasureInv, ErasureShape
  <1>2. /\ \A p \in Persons : erUser'[p] = IF p \in gone THEN "tombstone" ELSE erUser[p]
        /\ erUser' \in [Persons -> {"active", "disabled", "tombstone"}]
    BY DEF ProcessDueDeletions, ErasureInv, ErasureShape
  <1>3. /\ DOMAIN erDsr' = 1..Len(erDsr)
        /\ \A d \in DOMAIN erDsr : d \notin DueSchedules => erDsr'[d] = erDsr[d]
        /\ \A d \in DueSchedules : erDsr'[d] = [erDsr[d] EXCEPT !.status = "completed", !.schedule = "purged"]
    BY <1>1 DEF ProcessDueDeletions, DueSchedules
  <1>4. \A d \in DueSchedules : /\ erDsr'[d] \in DsrRow /\ RowInStep(erDsr'[d]) /\ d \in DOMAIN erDsr
                                /\ erDsr'[d].user = erDsr[d].user /\ erDsr'[d].kind = "delete"
                                /\ erDsr'[d].status = "completed" /\ erDsr'[d].schedule = "purged"
                                /\ erDsr'[d].due <= erDay /\ erDsr[d].status = "pending"
   <2>1. ASSUME NEW d \in DueSchedules
         PROVE  /\ erDsr'[d] \in DsrRow /\ RowInStep(erDsr'[d]) /\ d \in DOMAIN erDsr
                /\ erDsr'[d].user = erDsr[d].user /\ erDsr'[d].kind = "delete"
                /\ erDsr'[d].status = "completed" /\ erDsr'[d].schedule = "purged"
                /\ erDsr'[d].due <= erDay /\ erDsr[d].status = "pending"
    <3>1. d \in DOMAIN erDsr /\ erDsr[d].schedule = "scheduled" /\ erDsr[d].due <= erDay
      BY DEF DueSchedules
    <3>2. erDsr[d] \in DsrRow /\ RowInStep(erDsr[d]) BY <1>1, <3>1
    <3>3. erDsr[d].kind = "delete" /\ erDsr[d].status = "pending" BY <3>1, <3>2 DEF RowInStep
    <3> QED BY <1>3, <3>1, <3>2, <3>3 DEF DsrRow, RowInStep
   <2> QED BY <2>1
  <1>5. /\ \A d \in DOMAIN erDsr' : /\ erDsr'[d] \in DsrRow /\ RowInStep(erDsr'[d])
                                    /\ erDsr'[d].user = erDsr[d].user /\ erDsr[d].user \in Persons
        /\ DOMAIN erDsr' = DOMAIN erDsr
   <2>1. \A d \in DOMAIN erDsr : erDsr[d].user \in Persons BY <1>1 DEF DsrRow
   <2> QED BY <1>1, <1>3, <1>4, <2>1
  <1>6. erDsr' \in Seq(DsrRow)
   <2>1. erDsr' = [d \in 1..Len(erDsr) |-> erDsr'[d]] BY <1>1 DEF ProcessDueDeletions
   <2> QED BY <1>1, <1>5, <2>1
  <1>7. ErasureShape'
   <2>1. erOwns' \in [Persons -> SUBSET Tables] BY DEF ProcessDueDeletions, ErasureInv, ErasureShape
   <2> QED BY <1>2, <1>6, <2>1 DEF ProcessDueDeletions, ErasureInv, ErasureShape
  <1>8. PurgedWasDue'
   <2>1. ASSUME NEW q \in Persons, erUser'[q] = "tombstone"
         PROVE  \E d \in DOMAIN erDsr' : /\ erDsr'[d].user = q /\ erDsr'[d].kind = "delete"
                                         /\ erDsr'[d].status = "completed" /\ erDsr'[d].due <= erDay
    <3>1. CASE q \in gone BY <1>1, <1>3, <1>4, <3>1
    <3>2. CASE q \notin gone
     <4>1. PICK d \in DOMAIN erDsr : /\ erDsr[d].user = q /\ erDsr[d].kind = "delete"
                                     /\ erDsr[d].status = "completed" /\ erDsr[d].due <= erDay
       BY <1>2, <2>1, <3>2 DEF ErasureInv, PurgedWasDue
     <4>2. d \notin DueSchedules BY <1>4, <4>1
     <4> QED BY <1>1, <1>3, <4>1, <4>2
    <3> QED BY <3>1, <3>2
   <2>2. erDay' = erDay BY DEF ProcessDueDeletions
   <2> QED BY <2>1, <2>2 DEF PurgedWasDue
  <1>9. CancelledStays'
   <2>1. ASSUME NEW d \in DOMAIN erDsr', erDsr'[d].schedule = "scheduled", erUser'[erDsr'[d].user] = "active"
         PROVE  \E e \in DOMAIN erDsr' : e > d /\ erDsr'[e].user = erDsr'[d].user /\ erDsr'[e].status = "cancelled"
    <3>1. d \in DOMAIN erDsr /\ erDsr'[d] = erDsr[d] BY <1>3, <1>4, <1>5, <2>1
    <3>2. erUser[erDsr[d].user] = "active" BY <1>2, <1>5, <2>1, <3>1
    <3>3. PICK e \in DOMAIN erDsr : e > d /\ erDsr[e].user = erDsr[d].user /\ erDsr[e].status = "cancelled"
      BY <2>1, <3>1, <3>2 DEF ErasureInv, CancelledStays
    <3>4. e \notin DueSchedules BY <1>4, <3>3
    <3> QED BY <1>3, <1>5, <3>1, <3>3, <3>4
   <2> QED BY <2>1 DEF CancelledStays
  <1> QED BY <1>5, <1>7, <1>8, <1>9 DEF ErasureInv

(* Every step keeps purges due and cancellations standing. *)
LEMMA DeletionSteps ==
    ASSUME ErasureInv, [ErasureNext]_erVars
    PROVE  ErasureInv'
  <1>1. ASSUME NEW c \in PrivacyCalls, NEW p \in Persons, NEW what \in {"delete", "cancel", "export"},
               CallPrivacy(c, p, what)
        PROVE  ErasureInv'
    BY <1>1 DEF CallPrivacy, ErasureInv, ErasureShape, PurgedWasDue, CancelledStays
  <1>2. ASSUME NEW c \in PrivacyCalls, RequestDeletion(c)
        PROVE  ErasureInv'
   <2> DEFINE p == erCalls[c].user
              row == Scheduled(p)
   <2>1. /\ p \in Persons /\ erDsr' = Append(erDsr, row) /\ UNCHANGED <<erOwns, erDay>>
         /\ erUser' = [erUser EXCEPT ![p] = "disabled"]
         /\ erCalls' = [erCalls EXCEPT ![c] = NoPrivacyCall]
     BY <1>2 DEF RequestDeletion, ErasureInv, ErasureShape
   <2>2. row \in DsrRow /\ row.user = p /\ RowInStep(row)
     BY <2>1, GraceAssumption DEF Scheduled, RecordRequest, DsrRow, RowInStep, ErasureInv, ErasureShape
   <2> HIDE DEF p, row
   <2>3. /\ erDsr' \in Seq(DsrRow) /\ PurgedWasDue' /\ CancelledStays'
         /\ (\A d \in DOMAIN erDsr : RowInStep(erDsr[d]))'
     BY <2>1, <2>2, RowAdded
   <2>4. ErasureShape' BY <2>1, <2>3 DEF ErasureInv, ErasureShape, NoPrivacyCall
   <2> QED BY <2>3, <2>4 DEF ErasureInv
  <1>3. ASSUME NEW c \in PrivacyCalls, ExportData(c)
        PROVE  ErasureInv'
   <2> DEFINE p == erCalls[c].user
              row == RecordRequest(p, "export", "completed", "none")
   <2>1. /\ p \in Persons /\ erDsr' = Append(erDsr, row) /\ UNCHANGED <<erOwns, erDay>>
         /\ erUser' = erUser
         /\ erCalls' = [erCalls EXCEPT ![c] = NoPrivacyCall]
     BY <1>3 DEF ExportData, ErasureInv, ErasureShape
   <2>2. row \in DsrRow /\ row.user = p /\ RowInStep(row) /\ row.schedule = "none"
     BY <2>1, GraceAssumption DEF RecordRequest, DsrRow, RowInStep, ErasureInv, ErasureShape
   <2> HIDE DEF p, row
   <2>3. /\ erDsr' \in Seq(DsrRow) /\ PurgedWasDue' /\ CancelledStays'
         /\ (\A d \in DOMAIN erDsr : RowInStep(erDsr[d]))'
     BY <2>1, <2>2, RowAdded
   <2>4. ErasureShape' BY <2>1, <2>3 DEF ErasureInv, ErasureShape, NoPrivacyCall
   <2> QED BY <2>3, <2>4 DEF ErasureInv
  <1>4. CASE GraceDayPasses
   <2>1. PurgedWasDue'
    <3>1. \A d \in DOMAIN erDsr : erDsr[d].due \in Nat
     <4>1. \A d \in DOMAIN erDsr : erDsr[d] \in DsrRow BY DEF ErasureInv, ErasureShape
     <4> QED BY <4>1 DEF DsrRow
    <3> QED BY <1>4, <3>1 DEF GraceDayPasses, ErasureInv, ErasureShape, PurgedWasDue
   <2> QED BY <1>4, <2>1 DEF GraceDayPasses, ErasureInv, ErasureShape, CancelledStays
  <1>5. CASE UNCHANGED erVars
    BY <1>5 DEF erVars, ErasureInv, ErasureShape, PurgedWasDue, CancelledStays
  <1> QED BY <1>1, <1>2, <1>3, <1>4, <1>5, CancelKeeps, PurgeKeeps DEF ErasureNext

\* The schedules of a user that stand are of one day, none is of a user who was purged, and
\* a deletion in flight is of a user who was not, whose other deletions are of today.
PurgeTimed ==
    /\ \A c \in PrivacyCalls : erCalls[c].pc = "delete" => erUser[erCalls[c].user] # "tombstone"
    /\ \A c \in PrivacyCalls, d \in DOMAIN erDsr :
          erCalls[c].pc = "delete" /\ erDsr[d].user = erCalls[c].user /\ erDsr[d].schedule = "scheduled"
             => erDsr[d].due = erDay + Grace
    /\ \A d \in DOMAIN erDsr : erDsr[d].schedule = "scheduled" => erUser[erDsr[d].user] # "tombstone"
    /\ \A d, e \in DOMAIN erDsr : erDsr[d].schedule = "scheduled" /\ erDsr[e].schedule = "scheduled"
          /\ erDsr[d].user = erDsr[e].user => erDsr[d].due = erDsr[e].due

PurgeInv == ErasureInv /\ PurgeTimed /\ PurgeIsWhole

(* Nobody is purged at the start. *)
LEMMA PurgeStarts == ErasureInit => PurgeInv
  BY ErasureStarts DEF ErasureInit, PurgeInv, PurgeTimed, PurgeIsWhole, NoPrivacyCall

(* A deletion that is recorded is of a user who was not purged, and of the day of those that
   stand already. *)
LEMMA RequestTimed ==
    ASSUME PurgeInv, NEW c \in PrivacyCalls, RequestDeletion(c)
    PROVE  PurgeTimed' /\ PurgeIsWhole'
  <1> DEFINE p == erCalls[c].user
             row == Scheduled(p)
  <1>1. /\ p \in Persons /\ erDsr' = Append(erDsr, row) /\ erOwns' = erOwns /\ erDay' = erDay
        /\ erUser' = [erUser EXCEPT ![p] = "disabled"] /\ erUser[p] # "tombstone"
        /\ erUser \in [Persons -> {"active", "disabled", "tombstone"}]
        /\ erCalls' = [erCalls EXCEPT ![c] = NoPrivacyCall]
        /\ \A d \in DOMAIN erDsr : erDsr[d].user = p /\ erDsr[d].schedule = "scheduled"
              => erDsr[d].due = erDay + Grace
        /\ \A q \in PrivacyCalls : erCalls'[q].pc = "delete" =>
              erCalls'[q] = erCalls[q] /\ erCalls[q].pc = "delete" /\ erCalls[q].user \in Persons
    BY DEF RequestDeletion, PurgeInv, PurgeTimed, ErasureInv, ErasureShape, NoPrivacyCall
  <1>2. row.user = p /\ row.due = erDay + Grace BY DEF Scheduled, RecordRequest
  <1> DEFINE n == Len(erDsr) + 1
  <1>3. /\ erDsr'[n] = row /\ n \in DOMAIN erDsr'
        /\ \A d \in DOMAIN erDsr : erDsr'[d] = erDsr[d] /\ erDsr[d].user \in Persons
        /\ \A d \in DOMAIN erDsr' : d \in DOMAIN erDsr \/ d = n
   <2>1. erDsr \in Seq(DsrRow) BY DEF PurgeInv, ErasureInv, ErasureShape
   <2>2. \A d \in DOMAIN erDsr : erDsr[d] \in DsrRow BY <2>1
   <2>3. \A d \in DOMAIN erDsr : erDsr[d].user \in Persons BY <2>2 DEF DsrRow
   <2> QED BY <1>1, <2>1, <2>3
  <1> HIDE DEF p, row, n
  <1>4. \A q \in Persons : erUser'[q] = IF q = p THEN "disabled" ELSE erUser[q] BY <1>1
  <1>5. PurgeIsWhole' BY <1>1, <1>4 DEF PurgeInv, PurgeIsWhole
  <1>6. PurgeTimed'
   <2>1. \A q \in PrivacyCalls : erCalls'[q].pc = "delete" => erUser'[erCalls'[q].user] # "tombstone"
     BY <1>1, <1>4 DEF PurgeInv, PurgeTimed
   <2>2. \A q \in PrivacyCalls, d \in DOMAIN erDsr' :
            erCalls'[q].pc = "delete" /\ erDsr'[d].user = erCalls'[q].user /\ erDsr'[d].schedule = "scheduled"
               => erDsr'[d].due = erDay + Grace
     BY <1>1, <1>2, <1>3 DEF PurgeInv, PurgeTimed
   <2>3. \A d \in DOMAIN erDsr' : erDsr'[d].schedule = "scheduled" => erUser'[erDsr'[d].user] # "tombstone"
     BY <1>1, <1>2, <1>3, <1>4 DEF PurgeInv, PurgeTimed
   <2>4. \A d, e \in DOMAIN erDsr' : erDsr'[d].schedule = "scheduled" /\ erDsr'[e].schedule = "scheduled"
            /\ erDsr'[d].user = erDsr'[e].user => erDsr'[d].due = erDsr'[e].due
     BY <1>1, <1>2, <1>3 DEF PurgeInv, PurgeTimed
   <2> QED BY <1>1, <2>1, <2>2, <2>3, <2>4 DEF PurgeTimed
  <1> QED BY <1>5, <1>6

(* A user whose deletion is withdrawn had one that stood, so was not purged. *)
LEMMA CancelTimed ==
    ASSUME PurgeInv, NEW c \in PrivacyCalls, CancelDeletion(c)
    PROVE  PurgeTimed' /\ PurgeIsWhole'
  <1> DEFINE p == erCalls[c].user
             live == ActiveDeletion(p)
  <1>1. /\ erDsr \in Seq(DsrRow) /\ Len(erDsr) \in Nat /\ DOMAIN erDsr = 1..Len(erDsr) /\ p \in Persons
        /\ erUser \in [Persons -> {"active", "disabled", "tombstone"}]
        /\ \A q \in PrivacyCalls : erCalls[q].pc = "delete" => erCalls[q].user \in Persons
        /\ erOwns' = erOwns /\ erDay' = erDay
    BY DEF PurgeInv, ErasureInv, ErasureShape, CancelDeletion
  <1>2. \A q \in PrivacyCalls : erCalls'[q].pc = "delete" => erCalls'[q] = erCalls[q]
    BY DEF CancelDeletion, NoPrivacyCall, PurgeInv, ErasureInv, ErasureShape
  <1>3. \A d \in DOMAIN erDsr : erDsr[d].user \in Persons
   <2>1. \A d \in DOMAIN erDsr : erDsr[d] \in DsrRow BY <1>1
   <2> QED BY <2>1 DEF DsrRow
  <1>4. CASE live = {} BY <1>1, <1>2, <1>4 DEF CancelDeletion, PurgeInv, PurgeTimed, PurgeIsWhole
  <1>5. CASE live # {}
   <2> DEFINE n == Newest(live)
   <2>1. \E d \in DOMAIN erDsr : erDsr[d].user = p /\ erDsr[d].schedule = "scheduled"
     BY <1>5 DEF ActiveDeletion, PurgeInv, ErasureInv, RowInStep
   <2>2. erUser[p] # "tombstone" BY <2>1 DEF PurgeInv, PurgeTimed
   <2>3. erDsr' = [erDsr EXCEPT ![n] = Cancelled(n)] /\ erUser' = [erUser EXCEPT ![p] = "active"]
     BY <1>5 DEF CancelDeletion
   <2> HIDE DEF n, live, p
   <2>4. /\ DOMAIN erDsr' = DOMAIN erDsr
         /\ \A d \in DOMAIN erDsr : erDsr'[d] = erDsr[d] \/ erDsr'[d] = Cancelled(d)
     BY <2>3
   <2>5. \A d \in DOMAIN erDsr : Cancelled(d).schedule # "scheduled"
    <3>1. \A d \in DOMAIN erDsr : erDsr[d] \in DsrRow BY <1>1
    <3> QED BY <3>1 DEF Cancelled, DsrRow
   <2>6. \A d \in DOMAIN erDsr' : erDsr'[d].schedule = "scheduled" => erDsr'[d] = erDsr[d]
     BY <2>4, <2>5
   <2>7. \A q \in Persons : erUser'[q] = IF q = p THEN "active" ELSE erUser[q] BY <1>1, <2>3
   <2>8. PurgeIsWhole' BY <1>1, <2>2, <2>7 DEF PurgeInv, PurgeIsWhole
   <2>9. PurgeTimed' BY <1>1, <1>2, <1>3, <2>2, <2>4, <2>6, <2>7 DEF PurgeInv, PurgeTimed
   <2> QED BY <2>8, <2>9
  <1> QED BY <1>4, <1>5

(* The purge leaves no schedule of those it purges, all of them being due that day, and
   a deletion in flight is of none of them. *)
LEMMA PurgeTimes ==
    ASSUME PurgeInv, ProcessDueDeletions
    PROVE  PurgeTimed' /\ PurgeIsWhole'
  <1> DEFINE gone == {erDsr[d].user : d \in DueSchedules}
  <1>1. /\ erDsr \in Seq(DsrRow) /\ erDay \in Nat /\ erOwns \in [Persons -> SUBSET Tables]
        /\ \A q \in PrivacyCalls : erCalls[q].pc = "delete" => erCalls[q].user \in Persons
        /\ erCalls' = erCalls /\ erDay' = erDay /\ Grace \in Nat \ {0}
    BY GraceAssumption DEF PurgeInv, ErasureInv, ErasureShape, ProcessDueDeletions
  <1>2. \A p \in Persons : /\ erUser'[p] = IF p \in gone THEN "tombstone" ELSE erUser[p]
                           /\ erOwns'[p] = IF p \in gone THEN erOwns[p] \ Emptied ELSE erOwns[p]
    BY DEF ProcessDueDeletions
  <1>3. /\ DOMAIN erDsr' = DOMAIN erDsr
        /\ \A d \in DOMAIN erDsr : erDsr[d].user \in Persons
        /\ \A d \in DOMAIN erDsr' : erDsr'[d].schedule = "scheduled" =>
              erDsr'[d] = erDsr[d] /\ erDsr[d].due > erDay
   <2>1. \A d \in DOMAIN erDsr : erDsr[d] \in DsrRow BY <1>1
   <2>2. DOMAIN erDsr' = DOMAIN erDsr BY DEF ProcessDueDeletions
   <2>3. \A d \in DOMAIN erDsr : erDsr'[d].schedule = "scheduled" => d \notin DueSchedules /\ erDsr'[d] = erDsr[d]
     BY <2>1 DEF ProcessDueDeletions, DsrRow
   <2>4. \A d \in DOMAIN erDsr : erDsr[d].due \in Nat /\ erDsr[d].user \in Persons BY <2>1 DEF DsrRow
   <2> QED BY <1>1, <2>2, <2>3, <2>4 DEF DueSchedules
  <1>4. \A d \in DOMAIN erDsr : erDsr[d].schedule = "scheduled" /\ erDsr[d].due > erDay => erDsr[d].user \notin gone
   <2>1. ASSUME NEW d \in DOMAIN erDsr, erDsr[d].schedule = "scheduled", erDsr[d].due > erDay,
                NEW e \in DueSchedules, erDsr[e].user = erDsr[d].user
         PROVE  FALSE
    <3>1. e \in DOMAIN erDsr /\ erDsr[e].schedule = "scheduled" /\ erDsr[e].due <= erDay
      BY DEF DueSchedules
    <3>2. erDsr[d].due = erDsr[e].due BY <2>1, <3>1 DEF PurgeInv, PurgeTimed
    <3>3. erDsr[d] \in DsrRow BY <1>1, <2>1
    <3> QED BY <1>1, <2>1, <3>1, <3>2, <3>3 DEF DsrRow
   <2> QED BY <2>1
  <1>5. \A q \in PrivacyCalls : erCalls[q].pc = "delete" => erCalls[q].user \notin gone
   <2>1. ASSUME NEW q \in PrivacyCalls, NEW d \in DueSchedules,
                erCalls[q].pc = "delete", erDsr[d].user = erCalls[q].user
         PROVE  FALSE
    <3>1. d \in DOMAIN erDsr /\ erDsr[d].schedule = "scheduled" /\ erDsr[d].due <= erDay
      BY DEF DueSchedules
    <3>2. erDsr[d].due = erDay + Grace BY <2>1, <3>1 DEF PurgeInv, PurgeTimed
    <3> QED BY <1>1, <3>1, <3>2
   <2> QED BY <2>1
  <1>6. PurgeIsWhole'
   <2>1. Tables \ Emptied = {"legal_acceptances"} /\ {"legal_acceptances"} \ Emptied = {"legal_acceptances"}
     BY DEF Tables, Emptied, Purgeable, Parent
   <2> HIDE DEF gone
   <2> QED BY <1>2, <2>1 DEF PurgeInv, PurgeIsWhole
  <1> HIDE DEF gone
  <1>7. PurgeTimed'
   <2>1. \A q \in PrivacyCalls : erCalls'[q].pc = "delete" => erUser'[erCalls'[q].user] # "tombstone"
     BY <1>1, <1>2, <1>5 DEF PurgeInv, PurgeTimed
   <2>2. \A d \in DOMAIN erDsr' : erDsr'[d].schedule = "scheduled" => erUser'[erDsr'[d].user] # "tombstone"
     BY <1>2, <1>3, <1>4 DEF PurgeInv, PurgeTimed
   <2> QED BY <1>1, <1>3, <2>1, <2>2 DEF PurgeInv, PurgeTimed
  <1> QED BY <1>6, <1>7

(* Every step keeps the deletions in order and purges whole. *)
LEMMA ErasureSteps ==
    ASSUME PurgeInv, [ErasureNext]_erVars
    PROVE  PurgeInv'
  <1>1. ErasureInv' BY DeletionSteps DEF PurgeInv
  <1>2. PurgeTimed' /\ PurgeIsWhole'
   <2>1. ASSUME NEW c \in PrivacyCalls, NEW p \in Persons, NEW what \in {"delete", "cancel", "export"},
                CallPrivacy(c, p, what)
         PROVE  PurgeTimed' /\ PurgeIsWhole'
    <3>1. /\ erCalls' = [erCalls EXCEPT ![c] = [pc |-> what, user |-> p]] /\ erUser[p] = "active"
          /\ UNCHANGED <<erUser, erOwns, erDsr, erDay>>
          /\ what = "delete" => ActiveDeletion(p) = {}
      BY <2>1 DEF CallPrivacy, Admits
    <3>2. what = "delete" => \A d \in DOMAIN erDsr : ~(erDsr[d].user = p /\ erDsr[d].schedule = "scheduled")
      BY <3>1 DEF ActiveDeletion, PurgeInv, ErasureInv, RowInStep
    <3>3. \A q \in PrivacyCalls : erCalls'[q] = IF q = c THEN [pc |-> what, user |-> p] ELSE erCalls[q]
      BY <3>1 DEF PurgeInv, ErasureInv, ErasureShape
    <3> QED BY <3>1, <3>2, <3>3 DEF PurgeInv, PurgeTimed, PurgeIsWhole
   <2>2. ASSUME NEW c \in PrivacyCalls, ExportData(c)
         PROVE  PurgeTimed' /\ PurgeIsWhole'
    <3> DEFINE row == RecordRequest(erCalls[c].user, "export", "completed", "none")
    <3>1. /\ erDsr' = Append(erDsr, row) /\ UNCHANGED <<erUser, erOwns, erDay>> /\ erDsr \in Seq(DsrRow)
          /\ \A q \in PrivacyCalls : erCalls'[q].pc = "delete" => erCalls'[q] = erCalls[q]
      BY <2>2 DEF ExportData, PurgeInv, ErasureInv, ErasureShape, NoPrivacyCall
    <3>2. row.schedule = "none" BY DEF RecordRequest
    <3> HIDE DEF row
    <3>3. \A d \in DOMAIN erDsr' : erDsr'[d].schedule = "scheduled" => d \in DOMAIN erDsr /\ erDsr'[d] = erDsr[d]
      BY <3>1, <3>2
    <3> QED BY <3>1, <3>3 DEF PurgeInv, PurgeTimed, PurgeIsWhole
   <2>3. CASE GraceDayPasses
     BY <2>3 DEF GraceDayPasses, PurgeInv, PurgeTimed, PurgeIsWhole, NoPrivacyCall
   <2>4. CASE UNCHANGED erVars BY <2>4 DEF erVars, PurgeInv, PurgeTimed, PurgeIsWhole
   <2> QED BY <2>1, <2>2, <2>3, <2>4, RequestTimed, CancelTimed, PurgeTimes DEF ErasureNext
  <1> QED BY <1>1, <1>2 DEF PurgeInv
----------------------------------------
(* Finite sets as sequences. *)

(* The values of a function on a finite set are finitely many. *)
LEMMA FiniteImage ==
    ASSUME NEW S, IsFiniteSet(S), NEW f
    PROVE  IsFiniteSet({f[x] : x \in S})
  <1> DEFINE T == {f[x] : x \in S}
             g == [x \in S |-> f[x]]
  <1>1. g \in Surjection(S, T) BY DEF Surjection
  <1> HIDE DEF g, T
  <1>2. IsFiniteSet(T) BY <1>1, FS_Surjection
  <1> QED BY <1>2 DEF T

(* The sequence of a finite set has its elements only. *)
LEMMA SetAsSeq ==
    ASSUME NEW S, IsFiniteSet(S)
    PROVE  SetToSeq(S) \in Seq(S)
  <1>1. Cardinality(S) \in Nat /\ ExistsBijection(1..Cardinality(S), S) BY FS_CardinalityType
  <1>2. PICK f \in Bijection(1..Cardinality(S), S) : TRUE
    BY <1>1 DEF ExistsBijection
  <1>3. f \in [1..Cardinality(S) -> S] /\ IsInjective(f)
    BY <1>2 DEF Bijection, Injection, IsInjective
  <1>4. SetToSeq(S) \in [1..Cardinality(S) -> S] BY <1>3 DEF SetToSeq
  <1> QED BY <1>1, <1>4

----------------------------------------
(* Legal documents and acceptances. *)

LegalRow == [slug : Slugs, version : Nat, at : Nat, context : {"onboarding", "re-acceptance"}]

\* A request in flight that accepts or passes the gate.
AcceptSound(q) == q = [pc |-> "accept", fresh |-> q.fresh] /\ q.fresh \in SUBSET LegalRow /\ IsFiniteSet(q.fresh)
LegalCallSound(q) ==
    \/ q = NoLegalCall
    \/ AcceptSound(q)
    \/ q = [pc |-> "gate", docs |-> q.docs] /\ q.docs \in [Slugs -> Nat]

LegalShape ==
    /\ lgFiles \in [Slugs -> Nat] /\ lgDocs \in [Slugs -> Nat] /\ lgNow \in Nat
    /\ lgBack \in BOOLEAN
    /\ lgRows \in Seq(LegalRow)
    /\ lgCalls = [c \in LegalCalls |-> lgCalls[c]] /\ \A c \in LegalCalls : LegalCallSound(lgCalls[c])

\* What the user accepted, stored or about to be.
Accepted ==
    {lgRows[i] : i \in DOMAIN lgRows} \cup UNION {lgCalls[c].fresh : c \in {d \in LegalCalls : lgCalls[d].pc = "accept"}}

\* Later acceptances are of later versions, and none is ahead of the table or the clock.
AcceptedInOrder ==
    /\ \A s \in Slugs : lgDocs[s] <= lgFiles[s]
    /\ \A r \in Accepted : r.at < lgNow /\ r.version <= lgDocs[r.slug]
    /\ \A r, t \in Accepted : r.slug = t.slug /\ r.at <= t.at => r.version <= t.version

LegalInv ==
    /\ LegalShape
    /\ ~lgBack => AcceptedInOrder
    /\ lgMemory # 0 => MemoryAccepted
    /\ ServedHadAccepted

(* What the user accepted are rows. *)
LEMMA AcceptedRows == LegalShape => Accepted \subseteq LegalRow
  <1> SUFFICES ASSUME LegalShape
               PROVE  Accepted \subseteq LegalRow
    OBVIOUS
  <1>1. \A i \in DOMAIN lgRows : lgRows[i] \in LegalRow BY DEF LegalShape
  <1>2. ASSUME NEW c \in LegalCalls, lgCalls[c].pc = "accept"
        PROVE  lgCalls[c].fresh \subseteq LegalRow
    BY <1>2 DEF LegalShape, LegalCallSound, AcceptSound, NoLegalCall
  <1> QED BY <1>1, <1>2 DEF Accepted

(* Nothing is accepted at the start. *)
LEMMA LegalStarts == LegalInit => LegalInv
  <1> SUFFICES ASSUME LegalInit
               PROVE  LegalInv
    OBVIOUS
  <1>1. LegalShape
   <2>1. \A c \in LegalCalls : LegalCallSound(lgCalls[c]) BY DEF LegalInit, LegalCallSound
   <2>2. lgCalls = [c \in LegalCalls |-> lgCalls[c]] BY DEF LegalInit
   <2>3. lgFiles \in [Slugs -> Nat] /\ lgDocs \in [Slugs -> Nat] /\ lgNow \in Nat /\ lgRows \in Seq(LegalRow)
     BY DEF LegalInit
   <2>4. lgBack \in BOOLEAN BY ZenonT(10) DEF LegalInit
   <2> QED BY <2>1, <2>2, <2>3, <2>4 DEF LegalShape
  <1>2. Accepted = {} BY DEF LegalInit, Accepted, NoLegalCall
  <1>3. AcceptedInOrder BY <1>2 DEF AcceptedInOrder, LegalInit
  <1> QED BY <1>1, <1>3, LegalAssumption DEF LegalInit, LegalInv, ServedHadAccepted

(* The latest version a user accepted of a document is that of one of the newest rows. *)
LEMMA LatestIsNewest ==
    ASSUME NEW s, NEW rows \in Seq(LegalRow)
    PROVE  \/ (\A i \in DOMAIN rows : rows[i].slug # s) /\ LatestVersion(s, rows) = 0
           \/ \E i \in DOMAIN rows : /\ rows[i].slug = s /\ LatestVersion(s, rows) = rows[i].version
                                     /\ \A j \in DOMAIN rows : rows[j].slug = s => rows[j].at <= rows[i].at
  <1> DEFINE own == {i \in DOMAIN rows : rows[i].slug = s}
             v == [i \in own |-> rows[i].at]
  <1>1. CASE own = {} BY <1>1 DEF LatestVersion
  <1>2. CASE own # {}
   <2>1. Len(rows) \in Nat /\ DOMAIN rows = 1..Len(rows) /\ \A i \in DOMAIN rows : rows[i] \in LegalRow
     OBVIOUS
   <2>2. IsFiniteSet(own)
    <3>1. IsFiniteSet(1..Len(rows)) BY <2>1, 1 \in Int, Len(rows) \in Int, FS_Interval
    <3>2. own \subseteq 1..Len(rows) BY <2>1
    <3> HIDE DEF own
    <3> QED BY <3>1, <3>2, FS_Subset
   <2>3. \A i \in own : v[i] \in Nat /\ v[i] = rows[i].at BY <2>1 DEF LegalRow
   <2>4. PICK m \in own : \A i \in own : v[i] <= v[m]
    <3> HIDE DEF v, own
    <3> QED BY <1>2, <2>2, <2>3, GreatestAt
   <2> DEFINE n == CHOOSE i \in own : \A j \in own : rows[j].at <= rows[i].at
   <2>5. n \in own /\ \A j \in own : rows[j].at <= rows[n].at
    <3>1. \A j \in own : rows[j].at <= rows[m].at BY <2>3, <2>4
    <3> HIDE DEF own
    <3> QED BY <3>1
   <2>6. LatestVersion(s, rows) = rows[n].version BY <1>2 DEF LatestVersion
   <2> HIDE DEF n
   <2> QED BY <2>5, <2>6
  <1> QED BY <1>1, <1>2

(* Who passes the gate has a row of each required document, of the version it read or later. *)
LEMMA NothingPending ==
    ASSUME NEW docs \in [Slugs -> Nat], NEW rows \in Seq(LegalRow), Pending(docs, rows) = {}
    PROVE  \A s \in Required : docs[s] # 0 =>
              \E i \in DOMAIN rows : rows[i].slug = s /\ rows[i].version >= docs[s]
  <1>1. ASSUME NEW s \in Required, docs[s] # 0
        PROVE  \E i \in DOMAIN rows : rows[i].slug = s /\ rows[i].version >= docs[s]
   <2>1. docs[s] \in Nat /\ ~(LatestVersion(s, rows) < docs[s]) BY <1>1, LegalAssumption DEF Pending
   <2>2. PICK i \in DOMAIN rows : rows[i].slug = s /\ LatestVersion(s, rows) = rows[i].version
     BY <1>1, <2>1, LatestIsNewest
   <2>3. rows[i] \in LegalRow OBVIOUS
   <2>4. rows[i].version \in Nat BY <2>3 DEF LegalRow
   <2> QED BY <2>1, <2>2, <2>4
  <1> QED BY <1>1

(* A user who accepted every current version has nothing pending. *)
LEMMA AcceptedIsAdmitted ==
    ASSUME LegalInv
    PROVE  AcceptingAdmits
  <1>1. ASSUME ~lgBack, \A s \in Required : lgDocs[s] # 0 =>
                  \E i \in DOMAIN lgRows : lgRows[i].slug = s /\ lgRows[i].version = lgDocs[s],
               NEW s \in Required, lgDocs[s] # 0, LatestVersion(s, lgRows) < lgDocs[s]
        PROVE  FALSE
   <2>1. lgRows \in Seq(LegalRow) /\ AcceptedInOrder /\ s \in Slugs /\ lgDocs[s] \in Nat
     BY <1>1, LegalAssumption DEF LegalInv, LegalShape
   <2>2. PICK i \in DOMAIN lgRows : lgRows[i].slug = s /\ lgRows[i].version = lgDocs[s]
     BY <1>1
   <2>3. PICK j \in DOMAIN lgRows : /\ lgRows[j].slug = s /\ LatestVersion(s, lgRows) = lgRows[j].version
                                    /\ lgRows[i].at <= lgRows[j].at
     BY <2>1, <2>2, LatestIsNewest
   <2>4. lgRows[i].version <= lgRows[j].version
    <3>1. lgRows[i] \in Accepted /\ lgRows[j] \in Accepted BY DEF Accepted
    <3> QED BY <2>1, <2>2, <2>3, <3>1 DEF AcceptedInOrder
   <2>5. lgRows[j] \in LegalRow BY <2>1
   <2>6. lgRows[j].version \in Nat BY <2>5 DEF LegalRow
   <2> QED BY <1>1, <2>1, <2>2, <2>3, <2>4, <2>6
  <1> QED BY <1>1 DEF AcceptingAdmits, Pending, LegalInv

(* A commit stores what was accepted, and accepts nothing else. *)
LEMMA CommitKeeps ==
    ASSUME LegalInv, NEW c \in LegalCalls, CommitAcceptances(c)
    PROVE  LegalInv'
  <1> DEFINE fresh == lgCalls[c].fresh
             added == SetToSeq(fresh)
  <1>1. AcceptSound(lgCalls[c])
    BY DEF LegalInv, LegalShape, LegalCallSound, CommitAcceptances, NoLegalCall
  <1>2. added \in Seq(fresh) /\ fresh \in SUBSET LegalRow BY <1>1, SetAsSeq DEF AcceptSound
  <1>3. added \in Seq(LegalRow) /\ \A i \in DOMAIN added : added[i] \in fresh
   <2> HIDE DEF added, fresh
   <2> QED BY <1>2
  <1>4. lgRows' = lgRows \o added /\ lgCalls' = [lgCalls EXCEPT ![c] = NoLegalCall] /\ lgRows \in Seq(LegalRow)
    BY DEF CommitAcceptances, LegalInv, LegalShape
  <1> HIDE DEF added
  <1>5. /\ lgRows' \in Seq(LegalRow)
        /\ \A i \in DOMAIN lgRows' : (\E j \in DOMAIN lgRows : lgRows'[i] = lgRows[j]) \/ lgRows'[i] \in fresh
   <2>1. /\ Len(lgRows) \in Nat /\ Len(added) \in Nat /\ DOMAIN lgRows = 1..Len(lgRows) /\ DOMAIN added = 1..Len(added)
         /\ Len(lgRows') = Len(lgRows) + Len(added) /\ lgRows' \in Seq(LegalRow) /\ DOMAIN lgRows' = 1..Len(lgRows')
     BY <1>3, <1>4
   <2>2. \A i \in 1..Len(lgRows') : lgRows'[i] = IF i <= Len(lgRows) THEN lgRows[i] ELSE added[i - Len(lgRows)]
     BY <1>3, <1>4, <2>1
   <2> HIDE DEF fresh
   <2>3. ASSUME NEW i \in DOMAIN lgRows'
         PROVE  (\E j \in DOMAIN lgRows : lgRows'[i] = lgRows[j]) \/ lgRows'[i] \in fresh
    <3>1. CASE i <= Len(lgRows) BY <2>1, <2>2, <2>3, <3>1
    <3>2. CASE ~(i <= Len(lgRows))
     <4>1. i - Len(lgRows) \in DOMAIN added BY <2>1, <2>3, <3>2
     <4>2. lgRows'[i] = added[i - Len(lgRows)] BY <2>1, <2>2, <2>3, <3>2
     <4> QED BY <1>3, <4>1, <4>2
    <3> QED BY <3>1, <3>2
   <2> QED BY <2>1, <2>3
  <1>6. Accepted' \subseteq Accepted
   <2>1. \A d \in LegalCalls : lgCalls'[d].pc = "accept" => d # c /\ lgCalls'[d] = lgCalls[d]
     BY <1>4 DEF NoLegalCall, LegalInv, LegalShape
   <2>2. lgCalls[c].pc = "accept" BY DEF CommitAcceptances
   <2> QED BY <1>5, <2>1, <2>2 DEF Accepted
  <1>7. LegalShape'
   <2>1. lgCalls' = [d \in LegalCalls |-> lgCalls'[d]] /\ \A d \in LegalCalls : LegalCallSound(lgCalls'[d])
     BY <1>4 DEF LegalInv, LegalShape, LegalCallSound
   <2> QED BY <1>5, <2>1 DEF CommitAcceptances, LegalInv, LegalShape
  <1>8. ~lgBack' => AcceptedInOrder' BY <1>6 DEF CommitAcceptances, LegalInv, AcceptedInOrder
  <1> QED BY <1>7, <1>8 DEF CommitAcceptances, LegalInv, MemoryAccepted, ServedHadAccepted

(* A request that accepts names current versions, which are the latest the user accepted. *)
LEMMA AcceptingKeeps ==
    ASSUME LegalInv, NEW c \in LegalCalls, NEW items \in SUBSET Items, ReadAcceptances(c, items)
    PROVE  LegalInv'
  <1> DEFINE new == {x \in items : ~ExactAcceptance(x)}
             fresh == {AcceptedRow(it, lgNow) : it \in new}
  <1>1. /\ lgFiles \in [Slugs -> Nat] /\ lgDocs \in [Slugs -> Nat] /\ lgNow \in Nat
        /\ lgCalls = [d \in LegalCalls |-> lgCalls[d]] /\ \A d \in LegalCalls : LegalCallSound(lgCalls[d])
    BY DEF LegalInv, LegalShape
  <1>2. \A it \in items : it \in Items /\ it.slug \in Slugs /\ it.version = lgDocs[it.slug]
    BY DEF ReadAcceptances, Items
  <1>3. \A r \in fresh : r \in LegalRow /\ r.at = lgNow /\ r.version = lgDocs[r.slug]
    BY <1>1, <1>2 DEF AcceptedRow, LegalRow
  <1>4. IsFiniteSet(fresh)
   <2> DEFINE slugs == {it.slug : it \in new}
              row == [s \in slugs |-> AcceptedRow([slug |-> s, version |-> lgDocs[s]], lgNow)]
   <2>1. \A it \in new : it.slug \in slugs /\ row[it.slug] = AcceptedRow(it, lgNow)
     BY <1>2 DEF AcceptedRow
   <2>2. IsFiniteSet(slugs)
    <3>1. slugs \subseteq Slugs BY <1>2
    <3> HIDE DEF slugs
    <3> QED BY <3>1, LegalAssumption, FS_Subset
   <2>3. fresh \subseteq {row[s] : s \in slugs}
    <3>1. ASSUME NEW it \in new
          PROVE  AcceptedRow(it, lgNow) \in {row[s] : s \in slugs}
     <4> HIDE DEF row, slugs, new
     <4> QED BY <2>1
    <3> QED BY <3>1
   <2>4. IsFiniteSet({row[s] : s \in slugs})
    <3> HIDE DEF row, slugs
    <3> QED BY <2>2, FiniteImage
   <2> HIDE DEF fresh, row, slugs
   <2> QED BY <2>3, <2>4, FS_Subset
  <1>5. /\ lgCalls' = [lgCalls EXCEPT ![c] = [pc |-> "accept", fresh |-> fresh]] /\ lgNow' = lgNow + 1
        /\ UNCHANGED <<lgFiles, lgDocs, lgRows, lgServed, lgTerms, lgGate, lgMemory, lgBack, lgEditions>>
    BY DEF ReadAcceptances
  <1> HIDE DEF fresh
  <1>6. lgCalls'[c] = [pc |-> "accept", fresh |-> fresh] /\ \A d \in LegalCalls : d # c => lgCalls'[d] = lgCalls[d]
    BY <1>1, <1>5
  <1>7. LegalShape'
   <2>1. LegalCallSound(lgCalls'[c])
    <3>1. fresh \in SUBSET LegalRow BY <1>3
    <3> QED BY <1>4, <1>6, <3>1 DEF LegalCallSound, AcceptSound
   <2>2. lgCalls' = [d \in LegalCalls |-> lgCalls'[d]] /\ \A d \in LegalCalls : LegalCallSound(lgCalls'[d])
     BY <1>1, <1>5, <1>6, <2>1
   <2> QED BY <1>1, <1>5, <2>2 DEF LegalInv, LegalShape
  <1>8. \A r \in Accepted' : r \in Accepted \/ r \in fresh BY <1>5, <1>6 DEF Accepted
  <1>9. ~lgBack' => AcceptedInOrder'
   <2> SUFFICES ASSUME ~lgBack
                PROVE  AcceptedInOrder'
     BY <1>5
   <2>1. \A r \in Accepted : r \in LegalRow BY AcceptedRows DEF LegalInv
   <2>2. \A r \in Accepted \cup fresh : /\ r.at \in Nat /\ r.version \in Nat /\ lgDocs[r.slug] \in Nat
     BY <1>1, <1>3, <2>1 DEF LegalRow
   <2> QED BY <1>1, <1>3, <1>5, <1>8, <2>2 DEF LegalInv, AcceptedInOrder
  <1> QED BY <1>5, <1>7, <1>9 DEF LegalInv, MemoryAccepted, ServedHadAccepted

(* Every step keeps acceptances in order. *)
LEMMA LegalSteps ==
    ASSUME LegalInv, [LegalNext]_lgVars
    PROVE  LegalInv'
  <1>1. ASSUME NEW s \in Slugs, NEW v \in Versions, EditDocument(s, v)
        PROVE  LegalInv'
   <2>1. /\ v \in Nat /\ lgFiles \in [Slugs -> Nat] /\ lgDocs \in [Slugs -> Nat] /\ lgBack \in BOOLEAN
         /\ lgFiles' = [lgFiles EXCEPT ![s] = v] /\ lgBack' = (lgBack \/ v < lgFiles[s])
         /\ UNCHANGED <<lgDocs, lgRows, lgCalls, lgServed, lgTerms, lgGate, lgMemory, lgNow>>
     BY <1>1, LegalAssumption DEF EditDocument, Versions, LegalInv, LegalShape
   <2>2. lgFiles' \in [Slugs -> Nat] BY <2>1
   <2>3. ~lgBack' => ~lgBack /\ \A t \in Slugs : lgFiles[t] <= lgFiles'[t]
    <3>1. ~lgBack' => ~lgBack /\ ~(v < lgFiles[s]) BY <2>1, ZenonT(10)
    <3>2. ~(v < lgFiles[s]) => \A t \in Slugs : lgFiles[t] <= lgFiles'[t] BY <2>1
    <3> QED BY <3>1, <3>2
   <2>4. lgBack' \in BOOLEAN BY <2>1, ZenonT(10)
   <2>5. Accepted' = Accepted BY <2>1 DEF Accepted
   <2>6. ~lgBack' => AcceptedInOrder' BY <2>1, <2>2, <2>3, <2>5 DEF AcceptedInOrder, LegalInv
   <2>7. LegalShape' BY <2>1, <2>2, <2>4 DEF LegalShape, LegalInv
   <2> QED BY <2>1, <2>6, <2>7 DEF LegalInv, MemoryAccepted, ServedHadAccepted
  <1>2. ASSUME NEW readable \in SUBSET Slugs, NEW terms \in Versions, SyncDocuments(readable, terms)
        PROVE  LegalInv'
   <2>1. /\ lgFiles \in [Slugs -> Nat] /\ lgDocs \in [Slugs -> Nat]
         /\ lgDocs' = [s \in Slugs |-> IF s \in readable THEN lgFiles[s] ELSE lgDocs[s]]
         /\ lgMemory' = 0
         /\ UNCHANGED <<lgFiles, lgRows, lgCalls, lgServed, lgGate, lgBack, lgEditions, lgNow>>
     BY <1>2 DEF SyncDocuments, LegalInv, LegalShape
   <2>2. lgDocs' \in [Slugs -> Nat] BY <2>1
   <2>3. Accepted' = Accepted BY <2>1 DEF Accepted
   <2>4. ~lgBack' => AcceptedInOrder'
    <3> SUFFICES ASSUME ~lgBack
                 PROVE  AcceptedInOrder'
      BY <2>1
    <3>1. \A s \in Slugs : lgDocs[s] <= lgDocs'[s] /\ lgDocs'[s] <= lgFiles[s]
      BY <2>1 DEF LegalInv, AcceptedInOrder
    <3>2. \A r \in Accepted : r \in LegalRow BY AcceptedRows DEF LegalInv
    <3>3. \A r \in Accepted : r.slug \in Slugs /\ r.version \in Nat BY <3>2 DEF LegalRow
    <3> QED BY <2>1, <2>2, <2>3, <3>1, <3>3 DEF LegalInv, AcceptedInOrder
   <2>5. LegalShape' BY <2>1, <2>2 DEF LegalShape, LegalInv
   <2> QED BY <2>1, <2>4, <2>5 DEF LegalInv, MemoryAccepted, ServedHadAccepted
  <1>3. ASSUME NEW c \in LegalCalls, ReadDocuments(c)
        PROVE  LegalInv'
   <2>1. /\ lgCalls' = [lgCalls EXCEPT ![c] = [pc |-> "gate", docs |-> lgDocs]] /\ lgCalls[c] = NoLegalCall
         /\ UNCHANGED <<lgFiles, lgDocs, lgRows, lgServed, lgTerms, lgGate, lgMemory, lgBack, lgEditions, lgNow>>
         /\ lgCalls = [d \in LegalCalls |-> lgCalls[d]]
     BY <1>3 DEF ReadDocuments, LegalInv, LegalShape
   <2>2. lgCalls'[c] = [pc |-> "gate", docs |-> lgDocs] /\ \A d \in LegalCalls : d # c => lgCalls'[d] = lgCalls[d]
     BY <2>1
   <2>3. LegalShape'
    <3>1. LegalCallSound(lgCalls'[c]) BY <2>2 DEF LegalCallSound, LegalInv, LegalShape
    <3>2. lgCalls' = [d \in LegalCalls |-> lgCalls'[d]] /\ \A d \in LegalCalls : LegalCallSound(lgCalls'[d])
      BY <2>1, <2>2, <3>1 DEF LegalInv, LegalShape
    <3> QED BY <2>1, <3>2 DEF LegalInv, LegalShape
   <2>4. Accepted' = Accepted
    <3>1. lgCalls[c].pc # "accept" /\ lgCalls'[c].pc # "accept" BY <2>1, <2>2 DEF NoLegalCall
    <3>2. {d \in LegalCalls : lgCalls'[d].pc = "accept"} = {d \in LegalCalls : lgCalls[d].pc = "accept"}
      BY <2>2, <3>1
    <3>3. \A d \in {e \in LegalCalls : lgCalls[e].pc = "accept"} : lgCalls'[d].fresh = lgCalls[d].fresh
      BY <2>2, <3>1
    <3> QED BY <2>1, <3>2, <3>3, SMTT(30) DEF Accepted
   <2> QED BY <2>1, <2>3, <2>4 DEF LegalInv, AcceptedInOrder, MemoryAccepted, ServedHadAccepted
  <1>4. ASSUME NEW c \in LegalCalls, PassGate(c)
        PROVE  LegalInv'
   <2> DEFINE docs == lgCalls[c].docs
   <2>1. /\ lgCalls' = [lgCalls EXCEPT ![c] = NoLegalCall]
         /\ UNCHANGED <<lgFiles, lgDocs, lgRows, lgTerms, lgGate, lgMemory, lgBack, lgEditions, lgNow>>
         /\ lgCalls = [d \in LegalCalls |-> lgCalls[d]] /\ lgRows \in Seq(LegalRow)
     BY <1>4 DEF PassGate, LegalInv, LegalShape
   <2>2. docs \in [Slugs -> Nat]
     BY <1>4 DEF PassGate, LegalInv, LegalShape, LegalCallSound, AcceptSound, NoLegalCall
   <2>3. lgCalls'[c] = NoLegalCall /\ \A d \in LegalCalls : d # c => lgCalls'[d] = lgCalls[d]
     BY <2>1
   <2>4. LegalShape'
    <3>1. lgCalls' = [d \in LegalCalls |-> lgCalls'[d]] /\ \A d \in LegalCalls : LegalCallSound(lgCalls'[d])
      BY <2>1, <2>3 DEF LegalInv, LegalShape, LegalCallSound
    <3> QED BY <2>1, <3>1 DEF LegalInv, LegalShape
   <2>5. Accepted' \subseteq Accepted BY <2>1, <2>3 DEF Accepted, NoLegalCall
   <2>6. ServedHadAccepted'
    <3>1. CASE Pending(docs, lgRows) = {}
     <4>1. lgServed' = [docs |-> docs, rows |-> lgRows] BY <1>4, <3>1 DEF PassGate
     <4>2. \A s \in Required : docs[s] # 0 =>
              \E i \in DOMAIN lgRows : lgRows[i].slug = s /\ lgRows[i].version >= docs[s]
      <5> HIDE DEF docs
      <5> QED BY <2>1, <2>2, <3>1, NothingPending
     <4> QED BY <4>1, <4>2 DEF ServedHadAccepted
    <3>2. CASE Pending(docs, lgRows) # {} BY <1>4, <3>2 DEF PassGate, LegalInv, ServedHadAccepted
    <3> QED BY <3>1, <3>2
   <2> QED BY <2>1, <2>4, <2>5, <2>6 DEF LegalInv, AcceptedInOrder, MemoryAccepted
  <1>5. ASSUME NEW v \in Versions, AcceptTerms(v) \/ RememberTerms(v)
        PROVE  LegalInv'
   <2>1. /\ UNCHANGED <<lgFiles, lgDocs, lgRows, lgCalls, lgServed, lgTerms, lgBack, lgNow>>
         /\ lgMemory' = lgMemory \/ lgMemory' = lgTerms
     BY <1>5 DEF AcceptTerms, RememberTerms
   <2>2. Accepted' = Accepted /\ LegalShape' BY <2>1 DEF Accepted, LegalInv, LegalShape
   <2> QED BY <2>1, <2>2 DEF LegalInv, AcceptedInOrder, MemoryAccepted, ServedHadAccepted
  <1>6. CASE UNCHANGED lgVars
   <2>1. UNCHANGED <<lgFiles, lgDocs, lgRows, lgCalls, lgServed, lgTerms, lgMemory, lgBack, lgNow>>
     BY <1>6 DEF lgVars
   <2>2. Accepted' = Accepted /\ LegalShape' BY <2>1 DEF Accepted, LegalInv, LegalShape
   <2> QED BY <2>1, <2>2 DEF LegalInv, AcceptedInOrder, MemoryAccepted, ServedHadAccepted
  <1> QED BY <1>1, <1>2, <1>3, <1>4, <1>5, <1>6, CommitKeeps, AcceptingKeeps DEF LegalNext

----------------------------------------
(* The scores of symbols. *)

ScoreEntry == [symbol : Universe, score : 0..Top, rank : Nat]
RankedDown(scores) == \A e, f \in scores : e.rank < f.rank => e.score >= f.score
Rankings == {scores \in SUBSET ScoreEntry : RankedDown(scores)}
Snapshots == [strategy : Scorers, scores : Rankings]
Lawful(v) == v.max \in 0..Top

ScoreInv ==
    /\ Lawful(sgSettings) /\ (sgCached = NoValidator \/ Lawful(sgCached))
    /\ sgStored \in Seq(Snapshots)
    /\ ShownWithinLaw

(* Nothing is stored or shown at the start. *)
LEMMA ScoreStarts == ScoreInit => ScoreInv
  <1> SUFFICES ASSUME ScoreInit
               PROVE  ScoreInv
    OBVIOUS
  <1>1. Lawful(sgSettings) BY ScoringAssumption DEF ScoreInit, Lawful
  <1>2. sgShown.scores = {} /\ sgStored = <<>> /\ sgCached = NoValidator BY DEF ScoreInit
  <1> QED BY <1>1, <1>2 DEF ScoreInv, ShownWithinLaw

(* What a ranking of scores computes ranks no better score lower. *)
LEMMA RankingsRank ==
    ASSUME NEW symbols \in SUBSET Universe, NEW comp \in [symbols -> 0..Top], NEW ranked \in Ranked(comp)
    PROVE  ranked \in Rankings
  <1>1. Cardinality(symbols) \in Nat /\ DOMAIN comp = symbols
    BY ScoringAssumption, FS_Subset, FS_CardinalityType
  <1>2. PICK r \in [symbols -> 1..Cardinality(symbols)] :
           /\ \A a, b \in symbols : a # b => r[a] # r[b] /\ (r[a] < r[b] => comp[a] >= comp[b])
           /\ ranked = {[symbol |-> s, score |-> comp[s], rank |-> r[s]] : s \in symbols}
    BY <1>1 DEF Ranked
  <1>3. \A s \in symbols : r[s] \in Nat /\ comp[s] \in 0..Top BY <1>1
  <1>4. ranked \in SUBSET ScoreEntry BY <1>2, <1>3 DEF ScoreEntry
  <1>5. RankedDown(ranked) BY <1>2, <1>3 DEF RankedDown
  <1> QED BY <1>4, <1>5 DEF Rankings

(* What passes the validator is within its law, and ranked as before. *)
LEMMA GatedWithinLaw ==
    ASSUME NEW v, Lawful(v), NEW strategy, NEW scores \in Rankings
    PROVE  /\ Gated(v, strategy, scores) \in Rankings
           /\ strategy \in v.flagged => Gated(v, strategy, scores) = {}
           /\ \A e \in Gated(v, strategy, scores) : e.score \in 0..v.max
  <1> DEFINE gated == Gated(v, strategy, scores)
             Least(a) == IF a > v.max THEN v.max ELSE a
  <1>1. \A e \in scores : /\ e \in ScoreEntry /\ e.score \in 0..Top /\ e.rank \in Nat
                          /\ Outcome(v, strategy, e.score) = IF strategy \in v.flagged THEN Invalid ELSE Least(e.score)
    BY DEF Rankings, ScoreEntry, Outcome, Invalid, Top
  <1>2. CASE strategy \in v.flagged
   <2>1. gated = {}
    <3>1. \A entry \in scores : [entry EXCEPT !.score = Outcome(v, strategy, entry.score)].score = Invalid
      BY <1>1, <1>2 DEF ScoreEntry
    <3> QED BY <3>1 DEF Gated
   <2> QED BY <2>1 DEF Rankings, RankedDown
  <1>3. CASE strategy \notin v.flagged
   <2>1. ASSUME NEW e \in gated
         PROVE  \E s \in scores : /\ e.rank = s.rank /\ e.score = Least(s.score)
                                  /\ e \in ScoreEntry /\ e.score \in 0..v.max
    <3>1. PICK s \in scores : e = [s EXCEPT !.score = Outcome(v, strategy, s.score)]
      BY DEF Gated
    <3>2. e = [s EXCEPT !.score = Least(s.score)] /\ s \in ScoreEntry /\ s.score \in 0..Top /\ s.rank \in Nat
      BY <1>1, <1>3, <3>1
    <3>3. Least(s.score) \in 0..Top /\ Least(s.score) \in 0..v.max BY <3>2 DEF Lawful, Top
    <3> HIDE DEF Least
    <3> QED BY <3>2, <3>3 DEF ScoreEntry
   <2>2. \A a, b \in 0..Top : a >= b => Least(a) >= Least(b) BY DEF Lawful, Top
   <2> HIDE DEF Least, gated
   <2>3. gated \in SUBSET ScoreEntry /\ \A e \in gated : e.score \in 0..v.max BY <2>1
   <2>4. RankedDown(gated)
    <3>1. ASSUME NEW e \in gated, NEW f \in gated, e.rank < f.rank
          PROVE  e.score >= f.score
     <4>1. PICK s \in scores : e.rank = s.rank /\ e.score = Least(s.score)
       BY <2>1
     <4>2. PICK t \in scores : f.rank = t.rank /\ f.score = Least(t.score)
       BY <2>1
     <4>3. s.score >= t.score /\ s.score \in 0..Top /\ t.score \in 0..Top
       BY <1>1, <3>1, <4>1, <4>2 DEF Rankings, RankedDown
     <4> QED BY <2>2, <4>1, <4>2, <4>3
    <3> QED BY <3>1 DEF RankedDown
   <2>5. gated \in Rankings BY <2>3, <2>4 DEF Rankings
   <2> QED BY <1>3, <2>3, <2>5 DEF gated
  <1> QED BY <1>2, <1>3

(* The validator of the process is one the settings allow. *)
LEMMA ValidatorLawful ==
    ASSUME ScoreInv
    PROVE  Lawful(Validator)
  BY DEF ScoreInv, Validator

(* Every step shows scores within the law only. *)
LEMMA ScoreSteps ==
    ASSUME ScoreInv, [ScoreNext]_sgVars
    PROVE  ScoreInv'
  <1> DEFINE v == Validator
  <1>1. Lawful(v) BY ValidatorLawful
  <1> HIDE DEF v
  <1>2. ASSUME NEW strategy \in Scorers, NEW scores \in Rankings,
               sgShown' = [strategy |-> strategy, scores |-> scores, by |-> v],
               strategy \in v.flagged => scores = {}, \A e \in scores : e.score \in 0..v.max
        PROVE  ShownWithinLaw'
    BY <1>2 DEF ShownWithinLaw, Rankings, RankedDown
  <1>3. ASSUME NEW strategy \in Scorers, NEW data \in Data, RunScoring(strategy, data)
        PROVE  ScoreInv'
   <2>1. DOMAIN data \in SUBSET Universe BY DEF Data
   <2>2. PICK comp \in Scalings(DOMAIN data) : \E ranked \in Ranked(comp) :
            LET scores == IF NoScores(data) THEN {} ELSE Gated(v, strategy, ranked)
            IN /\ sgStored' = Append(sgStored, [strategy |-> strategy, scores |-> scores])
               /\ Displays(strategy, scores, v)
     BY <1>3 DEF RunScoring, v
   <2>3. PICK ranked \in Ranked(comp) :
            LET scores == IF NoScores(data) THEN {} ELSE Gated(v, strategy, ranked)
            IN /\ sgStored' = Append(sgStored, [strategy |-> strategy, scores |-> scores])
               /\ Displays(strategy, scores, v)
     BY <2>2
   <2>4. comp \in [DOMAIN data -> 0..Top] BY DEF Scalings
   <2>5. ranked \in Rankings BY <2>1, <2>4, RankingsRank
   <2> DEFINE scores == IF NoScores(data) THEN {} ELSE Gated(v, strategy, ranked)
   <2>6. /\ scores \in Rankings
         /\ strategy \in v.flagged => scores = {}
         /\ \A e \in scores : e.score \in 0..v.max
    <3>1. {} \in Rankings BY DEF Rankings, RankedDown
    <3> QED BY <1>1, <2>5, <3>1, GatedWithinLaw
   <2>7. sgStored' = Append(sgStored, [strategy |-> strategy, scores |-> scores]) /\ Displays(strategy, scores, v)
     BY <2>3
   <2> HIDE DEF scores
   <2>8. sgStored' \in Seq(Snapshots) BY <2>6, <2>7 DEF ScoreInv, Snapshots
   <2>9. ShownWithinLaw' BY <1>2, <2>6, <2>7 DEF Displays
   <2>10. Lawful(sgSettings') /\ Lawful(sgCached')
     BY <1>1, <1>3, <2>7 DEF RunScoring, Displays, ScoreInv
   <2> QED BY <2>8, <2>9, <2>10 DEF ScoreInv, Lawful
  <1>4. ASSUME NEW i \in DOMAIN sgStored, ShowResults(i)
        PROVE  ScoreInv'
   <2> DEFINE snap == sgStored[i]
              scores == Gated(v, snap.strategy, snap.scores)
   <2>1. snap.strategy \in Scorers /\ snap.scores \in Rankings
    <3>1. sgStored \in Seq(Snapshots) BY DEF ScoreInv
    <3>2. snap \in Snapshots BY <1>4, <3>1
    <3> QED BY <3>2 DEF Snapshots
   <2>2. /\ scores \in Rankings
         /\ snap.strategy \in v.flagged => scores = {}
         /\ \A e \in scores : e.score \in 0..v.max
     BY <1>1, <2>1, GatedWithinLaw
   <2>3. Displays(snap.strategy, scores, v) /\ UNCHANGED <<sgSettings, sgStored>>
     BY <1>4 DEF ShowResults, v
   <2> HIDE DEF scores, snap
   <2>4. ShownWithinLaw' BY <1>2, <2>1, <2>2, <2>3 DEF Displays
   <2> QED BY <1>1, <2>3, <2>4 DEF ScoreInv, Displays, Lawful
  <1>5. ASSUME NEW flagged \in SUBSET Scorers, NEW max \in Ceilings, ChangeSettings(flagged, max)
        PROVE  ScoreInv'
   <2>1. Lawful(sgSettings') BY <1>5, ScoringAssumption DEF ChangeSettings, Lawful
   <2> QED BY <1>5, <2>1 DEF ChangeSettings, ScoreInv, Lawful, ShownWithinLaw
  <1>6. CASE ResetValidator
    BY <1>6 DEF ResetValidator, ScoreInv, Lawful, ShownWithinLaw, NoValidator
  <1>7. CASE UNCHANGED sgVars BY <1>7 DEF sgVars, ScoreInv, Lawful, ShownWithinLaw
  <1> QED BY <1>3, <1>4, <1>5, <1>6, <1>7 DEF ScoreNext

----------------------------------------
(* The pool of LDAP connections. *)

LinkStates == {"unmade", "bound", "broken", "unbound"}
Holding == {"search", "return", "giveup"}

PoolThread(r) ==
    /\ r = [x \in {"pc", "link", "roles"} |-> r[x]]
    /\ r.pc \in Holding => r.link \in Links
    /\ r.pc \notin Holding => r.link = NoLink

PoolShape ==
    /\ lpLink \in [Links -> LinkStates] /\ lpIdle \in Seq(Links) /\ lpClosed \in BOOLEAN
    /\ lpThread = [t \in LdapThreads |-> lpThread[t]]
    /\ \A t \in LdapThreads : PoolThread(lpThread[t])

Made(c) == lpLink[c] \in {"bound", "broken"}

\* Nothing is owned twice.
IdleOnce == \A i, j \in DOMAIN lpIdle : lpIdle[i] = lpIdle[j] => i = j
HeldOnce == \A t, u \in LdapThreads : lpThread[t].link \in Links /\ lpThread[t].link = lpThread[u].link => t = u
IdleOrHeld == \A i \in DOMAIN lpIdle, t \in LdapThreads : lpThread[t].link # lpIdle[i]

\* What is owned was made and is not unbound, and what was made is owned until it is.
OwnedAreMade ==
    /\ \A i \in DOMAIN lpIdle : Made(lpIdle[i])
    /\ \A t \in LdapThreads : lpThread[t].link \in Links => Made(lpThread[t].link)
MadeAreOwned ==
    \A c \in Links : Made(c) => \/ \E i \in DOMAIN lpIdle : lpIdle[i] = c
                                \/ \E t \in LdapThreads : lpThread[t].link = c

PoolBounded == Len(lpIdle) <= PoolSize /\ (lpClosed => lpIdle = <<>>)

PoolInv ==
    PoolShape /\ IdleOnce /\ HeldOnce /\ IdleOrHeld /\ OwnedAreMade /\ MadeAreOwned /\ PoolBounded

(* The pool is empty at the start. *)
LEMMA PoolStarts == PoolInit => PoolInv
  <1> SUFFICES ASSUME PoolInit PROVE PoolInv
    OBVIOUS
  <1>1. /\ lpLink = [c \in Links |-> "unmade"] /\ lpIdle = <<>> /\ lpClosed = FALSE
        /\ lpThread = [t \in LdapThreads |-> [pc |-> "out", link |-> NoLink, roles |-> <<>>]]
    BY DEF PoolInit, At
  <1>2. NoLink \notin Links BY PoolSizeAssumption DEF NoLink
  <1>3. \A t \in LdapThreads : PoolThread(lpThread[t]) BY <1>1 DEF PoolThread, Holding
  <1>4. PoolShape
   <2> DEFINE r == [pc |-> "out", link |-> NoLink, roles |-> <<>>]
   <2>1. lpThread = [t \in LdapThreads |-> r] BY <1>1
   <2> HIDE DEF r
   <2>2. lpThread = [t \in LdapThreads |-> lpThread[t]] BY <2>1
   <2>3. lpLink \in [Links -> LinkStates] BY <1>1 DEF LinkStates
   <2>4. lpIdle \in Seq(Links) BY <1>1
   <2>5. lpClosed \in BOOLEAN BY <1>1
   <2> QED BY <1>3, <2>2, <2>3, <2>4, <2>5 DEF PoolShape
  <1>5. IdleOnce /\ IdleOrHeld /\ PoolBounded
    BY <1>1, PoolSizeAssumption DEF IdleOnce, IdleOrHeld, PoolBounded
  <1>6. HeldOnce /\ OwnedAreMade /\ MadeAreOwned
    BY <1>1, <1>2 DEF HeldOnce, OwnedAreMade, MadeAreOwned, Made
  <1> QED BY <1>4, <1>5, <1>6 DEF PoolInv

(* A connection that was made has one owner. *)
LEMMA PoolOwns == PoolInv => LinksOwned
  <1> SUFFICES ASSUME PoolInv PROVE LinksOwned
    OBVIOUS
  <1>1. ASSUME NEW c \in Links, lpLink[c] \in {"bound", "broken"}
        PROVE  Cardinality({i \in DOMAIN lpIdle : lpIdle[i] = c}) +
               Cardinality({t \in LdapThreads : lpThread[t].link = c}) = 1
   <2> DEFINE places == {i \in DOMAIN lpIdle : lpIdle[i] = c}
              holders == {t \in LdapThreads : lpThread[t].link = c}
   <2>1. CASE \E i \in DOMAIN lpIdle : lpIdle[i] = c
    <3>1. PICK i \in DOMAIN lpIdle : lpIdle[i] = c
      BY <2>1
    <3>2. places = {i} /\ holders = {} BY <3>1 DEF PoolInv, IdleOnce, IdleOrHeld
    <3> HIDE DEF places, holders
    <3>3. Cardinality({i}) = 1 /\ Cardinality(holders) = 0 BY <3>2, FS_Singleton, FS_EmptySet
    <3>4. Cardinality(places) = 1 BY <3>2, <3>3
    <3>5. Cardinality(places) + Cardinality(holders) = 1 BY <3>3, <3>4
    <3> QED BY <3>5 DEF places, holders
   <2>2. CASE ~ \E i \in DOMAIN lpIdle : lpIdle[i] = c
    <3>1. PICK t \in LdapThreads : lpThread[t].link = c
      BY <1>1, <2>2 DEF PoolInv, MadeAreOwned, Made
    <3>2. holders = {t} /\ places = {} BY <1>1, <2>2, <3>1 DEF PoolInv, HeldOnce
    <3> HIDE DEF places, holders
    <3>3. Cardinality({t}) = 1 /\ Cardinality(places) = 0 BY <3>2, FS_Singleton, FS_EmptySet
    <3>4. Cardinality(holders) = 1 BY <3>2, <3>3
    <3>5. Cardinality(places) + Cardinality(holders) = 1 BY <3>3, <3>4
    <3> QED BY <3>5 DEF places, holders
   <2> QED BY <2>1, <2>2
  <1> QED BY <1>1 DEF PoolInv, PoolBounded, LinksOwned

(* A thread that moves on holds one connection or none, and the others what they had. *)
LEMMA ThreadMoves ==
    ASSUME PoolInv, NEW t \in LdapThreads, NEW r, Moves(t, r), PoolThread(r)
    PROVE  /\ lpThread' = [u \in LdapThreads |-> lpThread'[u]] /\ lpThread'[t] = r
           /\ \A u \in LdapThreads \ {t} : lpThread'[u] = lpThread[u]
           /\ \A u \in LdapThreads : PoolThread(lpThread'[u])
  <1>1. lpThread = [u \in LdapThreads |-> lpThread[u]] /\ \A u \in LdapThreads : PoolThread(lpThread[u])
    BY DEF PoolInv, PoolShape
  <1>2. lpThread' = [u \in LdapThreads |-> IF u = t THEN r ELSE lpThread[u]] BY <1>1 DEF Moves
  <1> QED BY <1>1, <1>2

(* Records of threads. *)
LEMMA AtIsThread ==
    ASSUME NEW pc, NEW c, pc \in Holding => c \in Links, pc \notin Holding => c = NoLink
    PROVE  PoolThread(At(pc, c)) /\ At(pc, c).link = c /\ At(pc, c).pc = pc
  BY DEF PoolThread, At

(* What an invariant state says of a thread that holds nothing or something. *)
LEMMA ThreadHolds ==
    ASSUME PoolInv, NEW t \in LdapThreads
    PROVE  /\ lpThread[t].pc \in Holding => lpThread[t].link \in Links
           /\ lpThread[t].pc \notin Holding => lpThread[t].link = NoLink
           /\ NoLink \notin Links
  BY PoolSizeAssumption DEF PoolInv, PoolShape, PoolThread, NoLink

(* Checking a connection out takes it from the pool and unbinds the broken ones before it
   (LDAPConnectionPool._checkout). *)
LEMMA CheckoutKeeps ==
    ASSUME PoolInv, NEW t \in LdapThreads, Checkout(t)
    PROVE  PoolInv'
  <1> DEFINE usable == {i \in DOMAIN lpIdle : lpLink[lpIdle[i]] = "bound"}
             first == CHOOSE i \in usable : \A j \in usable : i <= j
             dropped == {lpIdle[i] : i \in {j \in DOMAIN lpIdle : usable = {} \/ j < first}}
  <1>1. /\ lpThread[t].pc = "out" /\ ~lpClosed /\ lpClosed' = lpClosed
        /\ lpLink' = [c \in Links |-> IF c \in dropped THEN "unbound" ELSE lpLink[c]]
        /\ lpIdle' = IF usable = {} THEN <<>> ELSE SubSeq(lpIdle, first + 1, Len(lpIdle))
        /\ Moves(t, IF usable = {} THEN At("make", NoLink) ELSE At("search", lpIdle[first]))
    BY DEF Checkout, Unbind
  <1>2. /\ PoolShape /\ IdleOnce /\ HeldOnce /\ IdleOrHeld /\ OwnedAreMade /\ MadeAreOwned /\ PoolBounded
        /\ lpLink \in [Links -> LinkStates] /\ lpIdle \in Seq(Links) /\ Len(lpIdle) \in Nat
        /\ DOMAIN lpIdle = 1..Len(lpIdle) /\ \A i \in DOMAIN lpIdle : lpIdle[i] \in Links
    BY DEF PoolInv, PoolShape
  <1>3. lpThread[t].link = NoLink /\ NoLink \notin Links BY <1>1, ThreadHolds DEF Holding
  <1>4. lpLink' \in [Links -> LinkStates] /\ \A c \in Links : Made(c)' <=> Made(c) /\ c \notin dropped
   <2> HIDE DEF dropped
   <2> QED BY <1>1, <1>2 DEF Made, LinkStates
  <1>7. lpClosed' \in BOOLEAN /\ ~lpClosed' BY <1>1, <1>2 DEF PoolShape
  <1>5. CASE usable = {}
   <2>1. /\ lpIdle' = <<>> /\ Moves(t, At("make", NoLink)) /\ \A i \in DOMAIN lpIdle : lpIdle[i] \in dropped
     BY <1>1, <1>5
   <2>2. PICK r : r = At("make", NoLink)
     OBVIOUS
   <2>3. PoolThread(r) /\ r.link = NoLink BY <2>2, AtIsThread DEF Holding
   <2>4. /\ lpThread' = [u \in LdapThreads |-> lpThread'[u]] /\ lpThread'[t] = r
         /\ \A u \in LdapThreads \ {t} : lpThread'[u] = lpThread[u]
         /\ \A u \in LdapThreads : PoolThread(lpThread'[u])
     BY <2>1, <2>2, <2>3, ThreadMoves
   <2>5. \A u \in LdapThreads : lpThread'[u].link = lpThread[u].link BY <1>3, <2>3, <2>4
   <2>6. \A c \in dropped : \E i \in DOMAIN lpIdle : lpIdle[i] = c OBVIOUS
   <2> HIDE DEF usable, dropped
   <2>7. PoolShape'
    <3>1. lpIdle' \in Seq(Links) BY <2>1
    <3>2. \A u \in LdapThreads : PoolThread(lpThread[u])' BY <2>4 DEF PoolThread
    <3> QED BY <1>4, <1>7, <2>4, <3>1, <3>2 DEF PoolShape
   <2>8. IdleOnce' /\ IdleOrHeld' /\ PoolBounded'
    <3>1. DOMAIN lpIdle' = {} /\ Len(lpIdle') = 0 BY <2>1
    <3> QED BY <1>7, <2>1, <3>1, PoolSizeAssumption DEF IdleOnce, IdleOrHeld, PoolBounded
   <2>9. HeldOnce' BY <1>2, <2>5 DEF HeldOnce
   <2>10. OwnedAreMade'
    <3>1. \A u \in LdapThreads : lpThread[u].link \in Links =>
             Made(lpThread[u].link) /\ lpThread[u].link \notin dropped
      BY <1>2, <2>6 DEF OwnedAreMade, IdleOrHeld
    <3>2. DOMAIN lpIdle' = {} BY <2>1
    <3> QED BY <1>4, <2>5, <3>1, <3>2 DEF OwnedAreMade, Made
   <2>11. MadeAreOwned' BY <1>2, <1>4, <2>1, <2>5 DEF MadeAreOwned
   <2> QED BY <2>7, <2>8, <2>9, <2>10, <2>11 DEF PoolInv
  <1>6. CASE usable # {}
   <2>1. /\ first \in DOMAIN lpIdle /\ lpLink[lpIdle[first]] = "bound" /\ \A j \in usable : first <= j
    <3>1. usable \subseteq Nat BY <1>2
    <3>2. \E i \in usable : \A j \in usable : i <= j
     <4> HIDE DEF usable
     <4> QED BY <1>6, <3>1, LeastNatural
    <3>3. first \in usable /\ \A j \in usable : first <= j BY <3>2
    <3> HIDE DEF first
    <3> QED BY <3>3
   <2>2. PICK c \in Links : c = lpIdle[first] /\ lpLink[c] = "bound"
     BY <1>2, <2>1
   <2>3. PICK r : r = At("search", c)
     OBVIOUS
   <2>4. PoolThread(r) /\ r.link = c BY <2>3, AtIsThread DEF Holding
   <2>5. Moves(t, r) /\ lpIdle' = SubSeq(lpIdle, first + 1, Len(lpIdle)) BY <1>1, <1>6, <2>2, <2>3
   <2>6. /\ lpThread' = [u \in LdapThreads |-> lpThread'[u]] /\ lpThread'[t] = r
         /\ \A u \in LdapThreads \ {t} : lpThread'[u] = lpThread[u]
         /\ \A u \in LdapThreads : PoolThread(lpThread'[u])
     BY <2>4, <2>5, ThreadMoves
   <2>7. \A x \in dropped : \E i \in DOMAIN lpIdle : lpIdle[i] = x /\ i < first BY <1>6
   <2>8. \A i \in DOMAIN lpIdle : i < first => lpIdle[i] \in dropped OBVIOUS
   <2> HIDE DEF usable, dropped, first
   <2>9. /\ lpIdle' \in Seq(Links) /\ Len(lpIdle') = Len(lpIdle) - first
         /\ DOMAIN lpIdle' = 1..(Len(lpIdle) - first)
         /\ \A i \in DOMAIN lpIdle' : lpIdle'[i] = lpIdle[first + i] /\ first + i \in DOMAIN lpIdle
    <3>1. first \in 1..Len(lpIdle) BY <1>2, <2>1
    <3>2. ASSUME NEW w \in Seq(Links), NEW a \in 1..Len(w)
          PROVE  /\ SubSeq(w, a + 1, Len(w)) \in Seq(Links) /\ Len(SubSeq(w, a + 1, Len(w))) = Len(w) - a
                 /\ \A i \in 1..(Len(w) - a) : /\ SubSeq(w, a + 1, Len(w))[i] = w[a + i]
                                               /\ a + i \in 1..Len(w)
     <4>1. Len(w) \in Nat /\ a + 1 \in 1..(Len(w) + 1) OBVIOUS
     <4>2. \A i \in 1..(Len(w) - a) : a + i \in 1..Len(w) /\ (a + 1) + i - 1 = a + i BY <4>1
     <4> QED BY <4>1, <4>2
    <3>3. /\ lpIdle' \in Seq(Links) /\ Len(lpIdle') = Len(lpIdle) - first
          /\ \A i \in 1..(Len(lpIdle) - first) : lpIdle'[i] = lpIdle[first + i] /\ first + i \in 1..Len(lpIdle)
      BY <1>2, <2>5, <3>1, <3>2
    <3> QED BY <1>2, <3>1, <3>3
   <2>10. PoolShape'
    <3>1. \A u \in LdapThreads : PoolThread(lpThread[u])' BY <2>6 DEF PoolThread
    <3> QED BY <1>4, <1>7, <2>6, <2>9, <3>1 DEF PoolShape
   <2>11. first \in Nat /\ first >= 1 /\ c \notin dropped BY <1>2, <2>1, <2>2, <2>7 DEF IdleOnce
   <2>12. IdleOnce'
    <3>1. ASSUME NEW i \in DOMAIN lpIdle', NEW j \in DOMAIN lpIdle', lpIdle'[i] = lpIdle'[j]
          PROVE  i = j
     <4>1. first + i = first + j BY <1>2, <2>9, <3>1 DEF IdleOnce
     <4>2. i \in Nat /\ j \in Nat BY <1>2, <2>9, <2>11
     <4> QED BY <2>11, <4>1, <4>2
    <3> QED BY <3>1 DEF IdleOnce
   <2>13. IdleOrHeld'
    <3>1. ASSUME NEW i \in DOMAIN lpIdle', NEW u \in LdapThreads
          PROVE  lpThread'[u].link # lpIdle'[i]
     <4>1. CASE u # t BY <1>2, <2>6, <2>9, <4>1 DEF IdleOrHeld
     <4>2. CASE u = t
      <5>1. first + i # first BY <1>2, <2>9, <2>11
      <5> QED BY <1>2, <2>1, <2>2, <2>4, <2>6, <2>9, <4>2, <5>1 DEF IdleOnce
     <4> QED BY <4>1, <4>2
    <3> QED BY <3>1 DEF IdleOrHeld
   <2>14. HeldOnce'
    <3>1. \A u \in LdapThreads : lpThread[u].link # c BY <1>2, <2>1, <2>2 DEF IdleOrHeld
    <3> QED BY <1>2, <2>4, <2>6, <3>1 DEF HeldOnce
   <2>15. OwnedAreMade'
    <3>1. ASSUME NEW i \in DOMAIN lpIdle'
          PROVE  lpIdle'[i] \in Links /\ Made(lpIdle'[i]) /\ lpIdle'[i] \notin dropped
     <4>1. lpIdle'[i] = lpIdle[first + i] /\ first + i \in DOMAIN lpIdle /\ i \in Nat
       BY <1>2, <2>9, <2>11
     <4>2. \A j \in DOMAIN lpIdle : j < first => j # first + i BY <1>2, <2>11, <4>1
     <4> QED BY <1>2, <2>7, <4>1, <4>2 DEF IdleOnce, OwnedAreMade
    <3>2. ASSUME NEW u \in LdapThreads, lpThread'[u].link \in Links
          PROVE  Made(lpThread'[u].link) /\ lpThread'[u].link \notin dropped
     <4>1. CASE u # t
      <5>1. lpThread[u].link \in Links /\ lpThread'[u].link = lpThread[u].link BY <2>6, <3>2, <4>1
      <5> QED BY <1>2, <2>7, <5>1 DEF OwnedAreMade, IdleOrHeld
     <4>2. CASE u = t BY <2>2, <2>4, <2>6, <2>11, <4>2 DEF Made
     <4> QED BY <4>1, <4>2
    <3> QED BY <1>4, <3>1, <3>2 DEF OwnedAreMade, Made
   <2>16. MadeAreOwned'
    <3>1. ASSUME NEW x \in Links, Made(x)'
          PROVE  (\E i \in DOMAIN lpIdle' : lpIdle'[i] = x) \/ \E u \in LdapThreads : lpThread'[u].link = x
     <4>1. Made(x) /\ x \notin dropped BY <1>4, <3>1
     <4>2. ASSUME NEW i \in DOMAIN lpIdle, lpIdle[i] = x, i > first
           PROVE  \E j \in DOMAIN lpIdle' : lpIdle'[j] = x
      <5>1. i - first \in DOMAIN lpIdle' /\ first + (i - first) = i BY <1>2, <2>9, <2>11, <4>2
      <5> QED BY <2>9, <4>2, <5>1
     <4>3. ASSUME NEW i \in DOMAIN lpIdle, lpIdle[i] = x
           PROVE  i > first \/ i = first
       BY <1>2, <2>8, <2>11, <4>1, <4>3
     <4>4. ASSUME NEW u \in LdapThreads, lpThread[u].link = x
           PROVE  lpThread'[u].link = x
       BY <1>3, <2>6, <3>1, <4>4
     <4> QED BY <1>2, <2>2, <2>4, <2>6, <4>1, <4>2, <4>3, <4>4 DEF MadeAreOwned
    <3> QED BY <3>1 DEF MadeAreOwned
   <2>17. PoolBounded'
    <3>1. Len(lpIdle') <= Len(lpIdle) BY <1>2, <2>9, <2>11
    <3>2. Len(lpIdle') \in Nat /\ Len(lpIdle) <= PoolSize BY <1>2, <2>9 DEF PoolBounded
    <3>3. Len(lpIdle') <= PoolSize BY <1>2, <3>1, <3>2, PoolSizeAssumption
    <3> QED BY <1>7, <3>3 DEF PoolBounded
   <2> QED BY <2>10, <2>12, <2>13, <2>14, <2>15, <2>16, <2>17 DEF PoolInv
  <1> QED BY <1>5, <1>6

(* A thread that keeps its connection, makes one, or unbinds its own leaves one owner to
   each. *)
LEMMA HolderMoves ==
    ASSUME PoolInv, NEW t \in LdapThreads, NEW r, Moves(t, r), PoolThread(r),
           UNCHANGED <<lpIdle, lpClosed>>, lpLink' \in [Links -> LinkStates],
           \A x \in Links : Made(x)' <=> x = r.link \/ (Made(x) /\ x # lpThread[t].link),
           r.link \in Links => r.link = lpThread[t].link \/ ~Made(r.link)
    PROVE  PoolInv'
  <1>1. /\ PoolShape /\ IdleOnce /\ HeldOnce /\ IdleOrHeld /\ OwnedAreMade /\ MadeAreOwned /\ PoolBounded
        /\ lpIdle \in Seq(Links) /\ \A i \in DOMAIN lpIdle : lpIdle[i] \in Links
    BY DEF PoolInv, PoolShape
  <1>2. /\ lpThread' = [u \in LdapThreads |-> lpThread'[u]] /\ lpThread'[t] = r
        /\ \A u \in LdapThreads \ {t} : lpThread'[u] = lpThread[u]
        /\ \A u \in LdapThreads : PoolThread(lpThread'[u])
    BY ThreadMoves
  <1>3. PoolShape'
   <2>1. \A u \in LdapThreads : PoolThread(lpThread[u])' BY <1>2 DEF PoolThread
   <2> QED BY <1>1, <1>2, <2>1 DEF PoolShape
  <1>4. IdleOnce' /\ PoolBounded' BY <1>1 DEF IdleOnce, PoolBounded
  <1>5. IdleOrHeld'
   <2>1. \A i \in DOMAIN lpIdle : lpIdle[i] # r.link BY <1>1 DEF IdleOrHeld, OwnedAreMade
   <2> QED BY <1>1, <1>2, <2>1 DEF IdleOrHeld
  <1>6. HeldOnce'
   <2>1. ASSUME NEW u \in LdapThreads \ {t}, lpThread[u].link \in Links
         PROVE  lpThread[u].link # r.link
     BY <1>1, <2>1 DEF HeldOnce, OwnedAreMade
   <2>2. ASSUME NEW u \in LdapThreads, NEW v \in LdapThreads,
                lpThread'[u].link \in Links, lpThread'[u].link = lpThread'[v].link
         PROVE  u = v
     BY <1>1, <1>2, <2>1, <2>2 DEF HeldOnce
   <2> QED BY <2>2 DEF HeldOnce
  <1>7. OwnedAreMade'
   <2>1. \A i \in DOMAIN lpIdle : Made(lpIdle[i]) /\ lpIdle[i] # lpThread[t].link
     BY <1>1 DEF OwnedAreMade, IdleOrHeld
   <2>2. \A u \in LdapThreads \ {t} : lpThread[u].link \in Links =>
            Made(lpThread[u].link) /\ lpThread[u].link # lpThread[t].link
     BY <1>1 DEF OwnedAreMade, HeldOnce
   <2>3. \A u \in LdapThreads : lpThread'[u].link \in Links =>
            lpThread'[u].link = r.link \/ (Made(lpThread'[u].link) /\ lpThread'[u].link # lpThread[t].link)
     BY <1>2, <2>2
   <2> QED BY <1>1, <2>1, <2>3 DEF OwnedAreMade, Made
  <1>8. MadeAreOwned'
   <2>1. ASSUME NEW x \in Links, Made(x)'
         PROVE  (\E i \in DOMAIN lpIdle : lpIdle[i] = x) \/ \E u \in LdapThreads : lpThread'[u].link = x
     BY <1>1, <1>2, <2>1 DEF MadeAreOwned
   <2> QED BY <2>1 DEF MadeAreOwned
  <1> QED BY <1>3, <1>4, <1>5, <1>6, <1>7, <1>8 DEF PoolInv

(* A connection that is given back is idle instead of held, if there is room in an open pool
   (LDAPConnectionPool._checkin). *)
LEMMA CheckinKeeps ==
    ASSUME PoolInv, NEW t \in LdapThreads, NEW r, Moves(t, r), PoolThread(r), r.link = NoLink,
           NEW c \in Links, c = lpThread[t].link, lpIdle' = Append(lpIdle, c), RoomInPool,
           UNCHANGED <<lpLink, lpClosed>>
    PROVE  PoolInv'
  <1>1. /\ PoolShape /\ IdleOnce /\ HeldOnce /\ IdleOrHeld /\ OwnedAreMade /\ MadeAreOwned /\ PoolBounded
        /\ lpIdle \in Seq(Links) /\ Len(lpIdle) \in Nat /\ DOMAIN lpIdle = 1..Len(lpIdle)
        /\ \A i \in DOMAIN lpIdle : lpIdle[i] \in Links
    BY DEF PoolInv, PoolShape
  <1>2. /\ lpThread' = [u \in LdapThreads |-> lpThread'[u]] /\ lpThread'[t] = r
        /\ \A u \in LdapThreads \ {t} : lpThread'[u] = lpThread[u]
        /\ \A u \in LdapThreads : PoolThread(lpThread'[u])
    BY ThreadMoves
  <1>3. NoLink \notin Links BY ThreadHolds
  <1>4. /\ lpIdle' \in Seq(Links) /\ Len(lpIdle') = Len(lpIdle) + 1
        /\ DOMAIN lpIdle' = DOMAIN lpIdle \cup {Len(lpIdle) + 1} /\ Len(lpIdle) + 1 \notin DOMAIN lpIdle
        /\ lpIdle'[Len(lpIdle) + 1] = c /\ \A i \in DOMAIN lpIdle : lpIdle'[i] = lpIdle[i]
    BY <1>1
  <1>5. PoolShape'
   <2>1. \A u \in LdapThreads : PoolThread(lpThread[u])' BY <1>2 DEF PoolThread
   <2> QED BY <1>1, <1>2, <1>4, <2>1 DEF PoolShape
  <1>6. \A i \in DOMAIN lpIdle : lpIdle[i] # c BY <1>1 DEF IdleOrHeld
  <1>7. IdleOnce' BY <1>1, <1>4, <1>6 DEF IdleOnce
  <1>8. \A u \in LdapThreads : lpThread'[u].link = IF u = t THEN NoLink ELSE lpThread[u].link
    BY <1>2
  <1>9. HeldOnce' BY <1>1, <1>3, <1>8 DEF HeldOnce
  <1>10. \A u \in LdapThreads : lpThread'[u].link # c BY <1>1, <1>3, <1>8 DEF HeldOnce
  <1>11. IdleOrHeld' BY <1>1, <1>3, <1>4, <1>8, <1>10 DEF IdleOrHeld
  <1>12. OwnedAreMade' BY <1>1, <1>3, <1>4, <1>8 DEF OwnedAreMade, Made
  <1>13. MadeAreOwned' BY <1>1, <1>4, <1>8 DEF MadeAreOwned, Made
  <1>14. PoolBounded' BY <1>1, <1>4, PoolSizeAssumption DEF PoolBounded, RoomInPool
  <1> QED BY <1>5, <1>7, <1>9, <1>11, <1>12, <1>13, <1>14 DEF PoolInv

(* Every step of the pool keeps its invariant. *)
LEMMA PoolSteps ==
    ASSUME PoolInv, [PoolNext]_lpVars
    PROVE  PoolInv'
  <1>1. /\ PoolShape /\ IdleOnce /\ HeldOnce /\ IdleOrHeld /\ OwnedAreMade /\ MadeAreOwned /\ PoolBounded
        /\ lpLink \in [Links -> LinkStates] /\ NoLink \notin Links
        /\ \A i \in DOMAIN lpIdle : lpIdle[i] \in Links
    BY PoolSizeAssumption DEF PoolInv, PoolShape, NoLink
  <1>2. ASSUME NEW t \in LdapThreads, NEW r, Moves(t, r), PoolThread(r), r.link = lpThread[t].link,
               UNCHANGED <<lpLink, lpIdle, lpClosed>>
        PROVE  PoolInv'
   <2>1. \A x \in Links : Made(x)' <=> x = r.link \/ (Made(x) /\ x # lpThread[t].link)
     BY <1>1, <1>2 DEF Made, OwnedAreMade
   <2> QED BY <1>1, <1>2, <2>1, HolderMoves
  <1>3. ASSUME NEW t \in LdapThreads, NEW r, Moves(t, r), PoolThread(r), r.link = NoLink,
               lpThread[t].link \in Links, lpLink' = Unbind({lpThread[t].link}), UNCHANGED <<lpIdle, lpClosed>>
        PROVE  PoolInv'
   <2>1. lpLink' = [c \in Links |-> IF c = lpThread[t].link THEN "unbound" ELSE lpLink[c]]
     BY <1>3 DEF Unbind
   <2>2. lpLink' \in [Links -> LinkStates] BY <1>1, <2>1 DEF LinkStates
   <2>3. \A x \in Links : Made(x)' <=> x = r.link \/ (Made(x) /\ x # lpThread[t].link)
     BY <1>1, <1>3, <2>1 DEF Made
   <2> QED BY <1>1, <1>3, <2>2, <2>3, HolderMoves
  <1>4. ASSUME NEW t \in LdapThreads, MakeLink(t)
        PROVE  PoolInv'
   <2>1. lpThread[t].link = NoLink /\ UNCHANGED <<lpIdle, lpClosed>>
     BY <1>4, ThreadHolds DEF MakeLink, Holding
   <2>2. CASE Moves(t, At("out", NoLink)) /\ UNCHANGED lpLink
    <3>1. PoolThread(At("out", NoLink)) /\ At("out", NoLink).link = NoLink BY AtIsThread DEF Holding
    <3> QED BY <1>2, <2>1, <2>2, <3>1
   <2>3. ASSUME NEW c \in Links, lpLink[c] = "unmade", lpLink' = [lpLink EXCEPT ![c] = "bound"],
                Moves(t, At("search", c))
         PROVE  PoolInv'
    <3>1. PoolThread(At("search", c)) /\ At("search", c).link = c BY AtIsThread DEF Holding
    <3>2. lpLink' \in [Links -> LinkStates] /\ ~Made(c) BY <1>1, <2>3 DEF LinkStates, Made
    <3>3. \A x \in Links : Made(x)' <=> x = c \/ (Made(x) /\ x # lpThread[t].link)
      BY <1>1, <2>1, <2>3 DEF Made
    <3> QED BY <2>1, <2>3, <3>1, <3>2, <3>3, HolderMoves
   <2> QED BY <1>4, <2>2, <2>3 DEF MakeLink
  <1>5. ASSUME NEW t \in LdapThreads, NEW found \in BOOLEAN, SearchEnds(t, found)
        PROVE  PoolInv'
   <2> DEFINE c == lpThread[t].link
   <2>1. c \in Links /\ UNCHANGED <<lpIdle, lpClosed>> BY <1>5, ThreadHolds DEF SearchEnds, Holding
   <2>2. CASE lpLink[c] = "bound"
    <3>1. PICK pc \in {"return", "giveup"} : Moves(t, At(pc, c)) /\ UNCHANGED lpLink
      BY <1>5, <2>2 DEF SearchEnds
    <3>2. PoolThread(At(pc, c)) /\ At(pc, c).link = c BY <2>1, AtIsThread DEF Holding
    <3> QED BY <1>2, <2>1, <3>1, <3>2
   <2>3. CASE lpLink[c] # "bound"
    <3>1. PICK pc \in {"verify", "out"} : Moves(t, At(pc, NoLink)) /\ lpLink' = Unbind({c})
      BY <1>5, <2>3 DEF SearchEnds
    <3>2. PoolThread(At(pc, NoLink)) /\ At(pc, NoLink).link = NoLink BY AtIsThread DEF Holding
    <3> QED BY <1>3, <2>1, <3>1, <3>2
   <2> QED BY <2>2, <2>3
  <1>6. ASSUME NEW t \in LdapThreads, ReturnLink(t)
        PROVE  PoolInv'
   <2> DEFINE c == lpThread[t].link
   <2>1. c \in Links /\ UNCHANGED lpClosed BY <1>6, ThreadHolds DEF ReturnLink, Holding
   <2>2. PICK pc \in {"verify", "out"} : Moves(t, At(pc, NoLink))
     BY <1>6 DEF ReturnLink
   <2>3. PoolThread(At(pc, NoLink)) /\ At(pc, NoLink).link = NoLink BY AtIsThread DEF Holding
   <2>4. CASE RoomInPool
    <3>1. lpIdle' = Append(lpIdle, c) /\ UNCHANGED lpLink BY <1>6, <2>4 DEF ReturnLink
    <3> HIDE DEF c
    <3> QED BY <2>1, <2>2, <2>3, <2>4, <3>1, CheckinKeeps DEF c
   <2>5. CASE ~RoomInPool BY <1>3, <1>6, <2>1, <2>2, <2>3, <2>5 DEF ReturnLink
   <2> QED BY <2>4, <2>5
  <1>7. ASSUME NEW t \in LdapThreads, VerifyUser(t) \/ Leave(t)
        PROVE  PoolInv'
   <2>1. lpThread[t].link = NoLink /\ UNCHANGED <<lpLink, lpIdle, lpClosed>>
     BY <1>7, ThreadHolds DEF VerifyUser, Leave, Holding
   <2>2. PICK r : Moves(t, r) /\ PoolThread(r) /\ r.link = NoLink
    <3>1. PoolThread(At("out", NoLink)) /\ At("out", NoLink).link = NoLink BY AtIsThread DEF Holding
    <3>2. ASSUME NEW groups, NEW r, r = [pc |-> "in", link |-> NoLink, roles |-> ResolveRoles(groups)]
          PROVE  PoolThread(r) /\ r.link = NoLink
     <4>1. PICK roles : roles = ResolveRoles(groups)
       OBVIOUS
     <4>2. r = [pc |-> "in", link |-> NoLink, roles |-> roles] BY <3>2, <4>1
     <4> QED BY <4>2 DEF PoolThread, Holding
    <3>3. CASE Leave(t) \/ Moves(t, At("out", NoLink)) BY <3>1, <3>3 DEF Leave
    <3>4. CASE \E groups \in SUBSET Groups :
                  Moves(t, [pc |-> "in", link |-> NoLink, roles |-> ResolveRoles(groups)])
      BY <3>2, <3>4
    <3> QED BY <1>7, <3>3, <3>4 DEF VerifyUser
   <2> QED BY <1>2, <2>1, <2>2
  <1>8. CASE ClosePool
   <2> DEFINE idle == {lpIdle[i] : i \in DOMAIN lpIdle}
   <2>1. /\ lpClosed' = TRUE /\ lpThread' = lpThread /\ lpIdle' = <<>>
         /\ lpLink' = [c \in Links |-> IF c \in idle THEN "unbound" ELSE lpLink[c]]
     BY <1>8 DEF ClosePool, Unbind, ToSet
   <2>2. DOMAIN lpIdle' = {} /\ Len(lpIdle') = 0 /\ lpIdle' \in Seq(Links) BY <2>1
   <2>3. \A x \in idle : \E i \in DOMAIN lpIdle : lpIdle[i] = x OBVIOUS
   <2>4. \A i \in DOMAIN lpIdle : lpIdle[i] \in idle OBVIOUS
   <2> HIDE DEF idle
   <2>5. lpLink' \in [Links -> LinkStates] /\ \A x \in Links : Made(x)' <=> Made(x) /\ x \notin idle
     BY <1>1, <2>1 DEF LinkStates, Made
   <2>6. PoolShape'
    <3>1. lpClosed' \in BOOLEAN BY <2>1
    <3>2. \A u \in LdapThreads : PoolThread(lpThread[u])' BY <1>1, <2>1 DEF PoolShape, PoolThread
    <3> QED BY <1>1, <2>1, <2>2, <2>5, <3>1, <3>2 DEF PoolShape
   <2>7. IdleOnce' /\ HeldOnce' /\ IdleOrHeld' /\ PoolBounded'
     BY <1>1, <2>1, <2>2, PoolSizeAssumption DEF IdleOnce, HeldOnce, IdleOrHeld, PoolBounded
   <2>8. OwnedAreMade'
    <3>1. \A u \in LdapThreads : lpThread[u].link \in Links =>
             Made(lpThread[u].link) /\ lpThread[u].link \notin idle
      BY <1>1, <2>3 DEF OwnedAreMade, IdleOrHeld
    <3> QED BY <2>1, <2>2, <2>5, <3>1 DEF OwnedAreMade, Made
   <2>9. MadeAreOwned' BY <1>1, <2>1, <2>4, <2>5 DEF MadeAreOwned
   <2> QED BY <2>6, <2>7, <2>8, <2>9 DEF PoolInv
  <1>9. ASSUME NEW c \in Links, LinkBreaks(c)
        PROVE  PoolInv'
   <2>1. /\ lpLink[c] = "bound" /\ lpLink' = [lpLink EXCEPT ![c] = "broken"]
         /\ UNCHANGED <<lpIdle, lpClosed, lpThread>>
     BY <1>9 DEF LinkBreaks
   <2>2. lpLink' \in [Links -> LinkStates] /\ \A x \in Links : Made(x)' <=> Made(x)
     BY <1>1, <2>1 DEF LinkStates, Made
   <2>3. PoolShape' BY <1>1, <2>1, <2>2 DEF PoolShape, PoolThread
   <2>4. IdleOnce' /\ HeldOnce' /\ IdleOrHeld' /\ PoolBounded'
     BY <1>1, <2>1 DEF IdleOnce, HeldOnce, IdleOrHeld, PoolBounded
   <2>5. OwnedAreMade' /\ MadeAreOwned' BY <1>1, <2>1, <2>2 DEF OwnedAreMade, MadeAreOwned, Made
   <2> QED BY <2>3, <2>4, <2>5 DEF PoolInv
  <1>10. CASE UNCHANGED lpVars
    BY <1>10 DEF lpVars, PoolInv, PoolShape, PoolThread, IdleOnce, HeldOnce, IdleOrHeld, PoolBounded,
                 OwnedAreMade, MadeAreOwned, Made
  <1> QED BY <1>4, <1>5, <1>6, <1>7, <1>8, <1>9, <1>10, CheckoutKeeps DEF PoolNext

----------------------------------------
(* The sandbox. *)

(* What is in place while a sandbox has its restrictions up. *)
Own(s) == [imports |-> s, builtins |-> s, limits |-> s]

SandboxShape ==
    /\ sbTask \in [EvalTasks -> [pc : {"idle", "waits", "runs"}, sandbox : Sandboxes \cup {"none"},
                                 marked : BOOLEAN]]
    /\ \A t \in EvalTasks : sbTask[t].pc # "idle" => sbTask[t].sandbox \in Sandboxes
    /\ sbKept \in [Sandboxes -> {Nothing, Host}]
    /\ \E flag \in BOOLEAN, h \in {Host} \cup {Own(s) : s \in Sandboxes} : sbProc = [hooks |-> h, flag |-> flag]
    /\ sbMetrics \in [Sandboxes -> [evaluations : Nat, errors : Nat]]
    /\ sbTold \in [Sandboxes -> [returned : Nat, failed : Nat, swallowed : Nat]]

(* The evaluation under the lock runs, no other does, and nothing else is marked. *)
HolderRuns ==
    /\ \A t \in EvalTasks : sbTask[t].pc = "runs" <=> sbLock = t
    /\ \A t \in EvalTasks : sbTask[t].marked => sbLock = t
    /\ sbLock = "free" \/ sbLock \in EvalTasks

(* A sandbox holds the host's values only while its evaluation runs, and then its own
   are in place; when none holds them the host's are. *)
SandboxHeldOnce ==
    /\ \A s \in Sandboxes : sbKept[s] = Host =>
          /\ \E t \in EvalTasks : sbLock = t /\ sbTask[t].sandbox = s
          /\ sbProc.hooks = Own(s)
    /\ (\A s \in Sandboxes : sbKept[s] = Nothing) => sbProc.hooks = Host
    /\ sbLock = "free" => ~sbProc.flag

MarkedError(s) == IF \E t \in EvalTasks : sbTask[t].sandbox = s /\ sbTask[t].marked THEN 1 ELSE 0

(* Errors are counted when they happen, one that escapes before the evaluation failed. *)
ErrorsTold ==
    \A s \in Sandboxes :
      /\ sbMetrics[s].evaluations = sbTold[s].returned
      /\ sbMetrics[s].errors = sbTold[s].failed + sbTold[s].swallowed + MarkedError(s)

SandboxInv == SandboxShape /\ HolderRuns /\ SandboxHeldOnce /\ ErrorsTold

(* The three values of the process are told apart by what absence is called. *)
LEMMA HooksDiffer ==
    /\ Host # Nothing
    /\ \A s \in Sandboxes : Own(s) # Nothing /\ Own(s).imports = s
    /\ \A s, x \in Sandboxes : Own(s) = Own(x) => s = x
  <1>1. Host.imports = "host" /\ Nothing.imports = "none" /\ \A s : Own(s).imports = s
    BY DEF Host, Nothing, Own
  <1> QED BY <1>1, SandboxAssumption

Overlaid(r, x, y) == [r EXCEPT !.builtins = x, !.limits = y]

(* A change of the builtins and the limits of a record of three values. *)
LEMMA TwoChange ==
    ASSUME NEW r, NEW a, NEW b, NEW c, NEW x, NEW y, r = [imports |-> a, builtins |-> b, limits |-> c]
    PROVE  Overlaid(r, x, y) = [imports |-> a, builtins |-> x, limits |-> y]
  <1> DEFINE q == [r EXCEPT !.builtins = x, !.limits = y]
  <1>1. q = [f \in {"imports", "builtins", "limits"} |-> q[f]] OBVIOUS
  <1>2. q.imports = a /\ q.builtins = x /\ q.limits = y OBVIOUS
  <1> HIDE DEF q
  <1>3. q = [imports |-> a, builtins |-> x, limits |-> y] BY <1>1, <1>2
  <1> QED BY <1>3 DEF q, Overlaid

(* Restrictions that go up keep what was there, and put it back when they come down. *)
LEMMA UpAndDown ==
    ASSUME NEW s \in Sandboxes, NEW h \in {Host} \cup {Own(x) : x \in Sandboxes}
    PROVE  /\ Activate(h, Nothing, s) = [hooks |-> Own(s), kept |-> h]
           /\ Deactivate(Own(s), h, s) = h
           /\ \A x \in Sandboxes : Deactivate(h, Nothing, x) = h
  <1>1. PICK a, b, c : h = [imports |-> a, builtins |-> b, limits |-> c] /\ "none" \notin {a, b, c}
   <2>1. CASE h = Host BY <2>1 DEF Host
   <2>2. CASE h # Host
    <3>1. PICK x \in Sandboxes : h = Own(x)
      BY <2>2
    <3> QED BY <3>1, SandboxAssumption DEF Own
   <2> QED BY <2>1, <2>2
  <1>2. InstallImporter(h, Nothing, s) = [hooks |-> [imports |-> s, builtins |-> b, limits |-> c],
                                          kept |-> [imports |-> a, builtins |-> "none", limits |-> "none"]]
    BY <1>1 DEF InstallImporter, Nothing
  <1>3. Activate(h, Nothing, s) = [hooks |-> Own(s), kept |-> h]
   <2> DEFINE up == InstallImporter(h, Nothing, s)
   <2>1. up.hooks = [imports |-> s, builtins |-> b, limits |-> c] BY <1>2
   <2>2. up.kept = [imports |-> a, builtins |-> "none", limits |-> "none"] BY <1>2
   <2> HIDE DEF up
   <2>3. Overlaid(up.hooks, s, s) = Own(s) BY <2>1, TwoChange DEF Own
   <2>4. Overlaid(up.kept, h.builtins, h.limits) = h BY <1>1, <2>2, TwoChange
   <2> QED BY <2>3, <2>4 DEF Activate, up, Overlaid
  <1>4. UninstallImporter(Own(s), h, s) = [imports |-> a, builtins |-> s, limits |-> s]
    BY <1>1 DEF UninstallImporter, Own
  <1>5. Deactivate(Own(s), h, s) = h BY <1>1, <1>4 DEF Deactivate
  <1>6. ASSUME NEW x \in Sandboxes PROVE Deactivate(h, Nothing, x) = h
    BY <1>1 DEF Deactivate, UninstallImporter, Nothing
  <1> QED BY <1>3, <1>5, <1>6

(* The invariant of the sandbox holds at the start. *)
LEMMA SandboxStarts ==
    ASSUME SandboxInit
    PROVE  SandboxInv
  <1>1. SandboxShape BY SandboxAssumption DEF SandboxInit, SandboxShape, NotEvaluating, Zero
  <1>2. HolderRuns BY SandboxAssumption DEF SandboxInit, HolderRuns, NotEvaluating
  <1>3. SandboxHeldOnce BY HooksDiffer DEF SandboxInit, SandboxHeldOnce
  <1>4. ErrorsTold BY DEF SandboxInit, ErrorsTold, MarkedError, NotEvaluating, Zero
  <1> QED BY <1>1, <1>2, <1>3, <1>4 DEF SandboxInv

(* What a step leaves of the tasks it does not touch. *)
LEMMA EvaluateCalledKeeps ==
    ASSUME SandboxInv, NEW t \in EvalTasks, NEW s \in Sandboxes, EvaluateCalled(t, s)
    PROVE  SandboxInv'
  <1> USE DEF SandboxInv, EvaluateCalled
  <1>1. /\ sbTask'[t] = [pc |-> "waits", sandbox |-> s, marked |-> FALSE]
        /\ \A u \in EvalTasks : u # t => sbTask'[u] = sbTask[u]
    BY DEF SandboxShape
  <1>2. SandboxShape' BY <1>1 DEF SandboxShape
  <1>3. ~sbTask[t].marked /\ sbLock # t BY SandboxAssumption DEF HolderRuns
  <1>4. HolderRuns' BY <1>1, <1>3 DEF HolderRuns
  <1>5. SandboxHeldOnce' BY <1>1, <1>3 DEF SandboxHeldOnce
  <1>6. ErrorsTold' BY <1>1, <1>3 DEF ErrorsTold, MarkedError
  <1> QED BY <1>2, <1>4, <1>5, <1>6

(* No sandbox holds anything while the lock is free. *)
LEMMA FreeMeansHost ==
    ASSUME SandboxInv, sbLock = "free"
    PROVE  /\ \A s \in Sandboxes : sbKept[s] = Nothing
           /\ sbProc = [hooks |-> Host, flag |-> FALSE]
  <1>1. \A s \in Sandboxes : sbKept[s] = Nothing
    BY SandboxAssumption DEF SandboxInv, SandboxShape, SandboxHeldOnce
  <1>2. PICK flag \in BOOLEAN, h \in {Host} \cup {Own(s) : s \in Sandboxes} :
           sbProc = [hooks |-> h, flag |-> flag]
    BY DEF SandboxInv, SandboxShape
  <1>3. h = Host /\ flag = FALSE BY <1>1, <1>2 DEF SandboxInv, SandboxHeldOnce
  <1> QED BY <1>1, <1>2, <1>3

(* An evaluation that takes the lock finds the host's values and keeps them. *)
LEMMA EvaluateStartsKeeps ==
    ASSUME SandboxInv, NEW t \in EvalTasks, EvaluateStarts(t)
    PROVE  SandboxInv'
  <1> DEFINE s == sbTask[t].sandbox
  <1>1. s \in Sandboxes /\ sbLock = "free"
    BY DEF SandboxInv, SandboxShape, EvaluateStarts, LockTaken
  <1>2. sbProc.hooks = Host /\ \A x \in Sandboxes : sbKept[x] = Nothing BY <1>1, FreeMeansHost
  <1>3. Activate(sbProc.hooks, sbKept[s], s) = [hooks |-> Own(s), kept |-> Host]
    BY <1>1, <1>2, UpAndDown
  <1>4. /\ sbProc' = [hooks |-> Own(s), flag |-> TRUE]
        /\ sbKept' = [sbKept EXCEPT ![s] = Host]
        /\ sbTask' = [sbTask EXCEPT ![t].pc = "runs"] /\ sbLock' = t
        /\ UNCHANGED <<sbMetrics, sbTold>>
    BY <1>3 DEF EvaluateStarts
  <1>5. \A u \in EvalTasks : /\ sbTask'[u].sandbox = sbTask[u].sandbox
                             /\ sbTask'[u].marked = sbTask[u].marked
                             /\ sbTask'[u].pc = IF u = t THEN "runs" ELSE sbTask[u].pc
    BY <1>4 DEF SandboxInv, SandboxShape
  <1>6. SandboxShape'
   <2>1. sbTask' \in [EvalTasks -> [pc : {"idle", "waits", "runs"}, sandbox : Sandboxes \cup {"none"},
                                    marked : BOOLEAN]]
     BY <1>4 DEF SandboxInv, SandboxShape
   <2>2. sbKept' \in [Sandboxes -> {Nothing, Host}] BY <1>4 DEF SandboxInv, SandboxShape
   <2> QED BY <1>1, <1>4, <1>5, <2>1, <2>2 DEF SandboxInv, SandboxShape
  <1>7. HolderRuns' BY <1>1, <1>4, <1>5, SandboxAssumption DEF SandboxInv, HolderRuns
  <1>8. SandboxHeldOnce'
   <2>1. sbKept'[s] = Host /\ \A x \in Sandboxes : x # s => sbKept'[x] = Nothing
     BY <1>1, <1>2, <1>4 DEF SandboxInv, SandboxShape
   <2> QED BY <1>1, <1>4, <1>5, <2>1, HooksDiffer, SandboxAssumption DEF SandboxHeldOnce
  <1>9. ErrorsTold' BY <1>4, <1>5 DEF SandboxInv, ErrorsTold, MarkedError
  <1> QED BY <1>6, <1>7, <1>8, <1>9 DEF SandboxInv

(* A blocked attribute is counted for the sandbox that runs. *)
LEMMA BlockedAttributeKeeps ==
    ASSUME SandboxInv, NEW t \in EvalTasks, NEW escapes \in BOOLEAN, BlockedAttribute(t, escapes)
    PROVE  SandboxInv'
  <1> DEFINE s == sbTask[t].sandbox
  <1>1. s \in Sandboxes /\ sbLock = t /\ ~sbTask[t].marked
    BY DEF SandboxInv, SandboxShape, HolderRuns, BlockedAttribute
  <1>2. \A u \in EvalTasks : /\ sbTask'[u].sandbox = sbTask[u].sandbox /\ sbTask'[u].pc = sbTask[u].pc
                             /\ sbTask'[u].marked = IF u = t THEN escapes ELSE sbTask[u].marked
    BY DEF SandboxInv, SandboxShape, BlockedAttribute
  <1>3. \A x \in Sandboxes :
          /\ sbMetrics'[x].evaluations = sbMetrics[x].evaluations
          /\ sbMetrics'[x].errors = sbMetrics[x].errors + (IF x = s THEN 1 ELSE 0)
          /\ sbTold'[x].returned = sbTold[x].returned /\ sbTold'[x].failed = sbTold[x].failed
          /\ sbTold'[x].swallowed = sbTold[x].swallowed + (IF x = s /\ ~escapes THEN 1 ELSE 0)
    BY <1>1 DEF SandboxInv, SandboxShape, BlockedAttribute
  <1>4. SandboxShape'
   <2>1. sbTask' \in [EvalTasks -> [pc : {"idle", "waits", "runs"}, sandbox : Sandboxes \cup {"none"},
                                    marked : BOOLEAN]]
     BY DEF SandboxInv, SandboxShape, BlockedAttribute
   <2>2. sbMetrics' \in [Sandboxes -> [evaluations : Nat, errors : Nat]]
     BY <1>1, SMTT(30) DEF SandboxInv, SandboxShape, BlockedAttribute
   <2>3. sbTold' \in [Sandboxes -> [returned : Nat, failed : Nat, swallowed : Nat]]
     BY <1>1, SMTT(30) DEF SandboxInv, SandboxShape, BlockedAttribute
   <2> QED BY <1>2, <2>1, <2>2, <2>3 DEF SandboxInv, SandboxShape, BlockedAttribute
  <1>5. HolderRuns' BY <1>1, <1>2 DEF SandboxInv, HolderRuns, BlockedAttribute
  <1>6. SandboxHeldOnce' BY <1>2 DEF SandboxInv, SandboxHeldOnce, BlockedAttribute
  <1>7. ErrorsTold'
   <2>1. \A x \in Sandboxes : MarkedError(x)' = (IF x = s /\ escapes THEN 1 ELSE 0) /\ MarkedError(x) = 0
     BY <1>1, <1>2 DEF SandboxInv, HolderRuns, MarkedError
   <2> QED BY <1>1, <1>3, <2>1 DEF SandboxInv, SandboxShape, ErrorsTold
  <1> QED BY <1>4, <1>5, <1>6, <1>7 DEF SandboxInv

(* The values a sandbox holds go back, or it holds none and nothing changes. *)
LEMMA ComesDown ==
    ASSUME SandboxInv, NEW s \in Sandboxes
    PROVE  Deactivate(sbProc.hooks, sbKept[s], s) = IF sbKept[s] = Host THEN Host ELSE sbProc.hooks
  <1>1. sbProc.hooks \in {Host} \cup {Own(x) : x \in Sandboxes} BY DEF SandboxInv, SandboxShape
  <1>2. CASE sbKept[s] = Host
   <2>1. sbProc.hooks = Own(s) BY <1>2 DEF SandboxInv, SandboxHeldOnce
   <2>2. Deactivate(Own(s), Host, s) = Host BY UpAndDown
   <2> QED BY <1>2, <2>1, <2>2
  <1>3. CASE sbKept[s] = Nothing BY <1>1, <1>3, UpAndDown, HooksDiffer
  <1> QED BY <1>2, <1>3 DEF SandboxInv, SandboxShape

(* Taking down the restrictions of a sandbox leaves the host's values or those of another. *)
LEMMA DownKeeps ==
    ASSUME SandboxInv, NEW s \in Sandboxes,
           sbProc' = [hooks |-> Deactivate(sbProc.hooks, sbKept[s], s), flag |-> FALSE],
           sbKept' = [sbKept EXCEPT ![s] = Nothing]
    PROVE  /\ sbKept' \in [Sandboxes -> {Nothing, Host}] /\ sbKept'[s] = Nothing
           /\ \E flag \in BOOLEAN, h \in {Host} \cup {Own(x) : x \in Sandboxes} :
                 sbProc' = [hooks |-> h, flag |-> flag]
           /\ \A x \in Sandboxes : sbKept'[x] = Host => x # s /\ sbKept[x] = Host /\ sbProc'.hooks = Own(x)
           /\ (\A x \in Sandboxes : sbKept'[x] = Nothing) => sbProc'.hooks = Host
           /\ ~sbProc'.flag
  <1> DEFINE h == IF sbKept[s] = Host THEN Host ELSE sbProc.hooks
  <1>1. sbProc' = [hooks |-> h, flag |-> FALSE] /\ h \in {Host} \cup {Own(x) : x \in Sandboxes}
   <2>1. sbProc.hooks \in {Host} \cup {Own(x) : x \in Sandboxes} BY DEF SandboxInv, SandboxShape
   <2>2. Deactivate(sbProc.hooks, sbKept[s], s) = h BY ComesDown
   <2> QED BY <2>1, <2>2
  <1>2. /\ sbKept' \in [Sandboxes -> {Nothing, Host}] /\ sbKept'[s] = Nothing
        /\ \A x \in Sandboxes : x # s => sbKept'[x] = sbKept[x]
    BY DEF SandboxInv, SandboxShape
  <1>3. ASSUME NEW x \in Sandboxes, sbKept'[x] = Host
        PROVE  x # s /\ sbKept[x] = Host /\ sbProc'.hooks = Own(x)
   <2>1. x # s /\ sbKept[x] = Host BY <1>2, <1>3, HooksDiffer
   <2>2. sbKept[s] # Host
    <3>1. sbKept[s] = Host => Own(s) = Own(x) BY <2>1 DEF SandboxInv, SandboxHeldOnce
    <3> QED BY <2>1, <3>1, HooksDiffer
   <2> QED BY <1>1, <2>1, <2>2 DEF SandboxInv, SandboxHeldOnce
  <1>4. ASSUME \A x \in Sandboxes : sbKept'[x] = Nothing
        PROVE  h = Host
    BY <1>2, <1>4 DEF SandboxInv, SandboxShape, SandboxHeldOnce
  <1>5. sbProc'.hooks = h /\ sbProc'.flag = FALSE BY <1>1
  <1> HIDE DEF h
  <1> QED BY <1>1, <1>2, <1>3, <1>4, <1>5

(* What the last evaluation told of how it ended. *)
EndTold(s) ==
    /\ sbMetrics' = [sbMetrics EXCEPT ![s] = sbMetrics'[s]] /\ sbTold' = [sbTold EXCEPT ![s] = sbTold'[s]]
    /\ sbMetrics'[s] \in [evaluations : Nat, errors : Nat]
    /\ sbTold'[s] \in [returned : Nat, failed : Nat, swallowed : Nat]
    /\ sbMetrics'[s].evaluations = sbTold'[s].returned
    /\ sbMetrics'[s].errors = sbTold'[s].failed + sbTold'[s].swallowed

(* An evaluation that ends counts what it returned, or its failure, once. *)
LEMMA EndIsTold ==
    ASSUME SandboxInv, NEW t \in EvalTasks, NEW how, EvaluateEnds(t, how)
    PROVE  EndTold(sbTask[t].sandbox)
  <1> DEFINE s == sbTask[t].sandbox
  <1>1. s \in Sandboxes /\ sbLock = t BY DEF SandboxInv, SandboxShape, HolderRuns, EvaluateEnds
  <1>2. /\ sbMetrics[s].evaluations = sbTold[s].returned
        /\ sbMetrics[s].errors = sbTold[s].failed + sbTold[s].swallowed + (IF sbTask[t].marked THEN 1 ELSE 0)
   <2>1. MarkedError(s) = IF sbTask[t].marked THEN 1 ELSE 0
     BY <1>1 DEF SandboxInv, HolderRuns, MarkedError
   <2> QED BY <1>1, <2>1 DEF SandboxInv, ErrorsTold
  <1>3. /\ sbMetrics[s].evaluations \in Nat /\ sbMetrics[s].errors \in Nat
        /\ sbTold[s].returned \in Nat /\ sbTold[s].failed \in Nat /\ sbTold[s].swallowed \in Nat
    BY <1>1 DEF SandboxInv, SandboxShape
  <1>4. sbMetrics' = [sbMetrics EXCEPT ![s] =
           [evaluations |-> sbMetrics[s].evaluations + (IF how = "signals" THEN 1 ELSE 0),
            errors      |-> ErrorsAfter(s, how, sbTask[t].marked)]]
    BY DEF EvaluateEnds
  <1>5. sbTold' = [sbTold EXCEPT ![s] =
           [returned  |-> sbTold[s].returned + (IF how = "signals" THEN 1 ELSE 0),
            failed    |-> sbTold[s].failed + (IF how \in {"timeout", "raises"} THEN 1 ELSE 0),
            swallowed |-> sbTold[s].swallowed]]
    BY DEF EvaluateEnds
  <1>6. sbMetrics'[s] = [evaluations |-> sbMetrics[s].evaluations + (IF how = "signals" THEN 1 ELSE 0),
                         errors      |-> ErrorsAfter(s, how, sbTask[t].marked)]
    BY <1>1, <1>4 DEF SandboxInv, SandboxShape
  <1>7. sbTold'[s] = [returned  |-> sbTold[s].returned + (IF how = "signals" THEN 1 ELSE 0),
                      failed    |-> sbTold[s].failed + (IF how \in {"timeout", "raises"} THEN 1 ELSE 0),
                      swallowed |-> sbTold[s].swallowed]
    BY <1>1, <1>5 DEF SandboxInv, SandboxShape
  <1>8. ErrorsAfter(s, how, sbTask[t].marked) =
           sbMetrics[s].errors + (IF how = "timeout" \/ (how = "raises" /\ ~sbTask[t].marked) THEN 1 ELSE 0)
    BY DEF ErrorsAfter
  <1>9. sbTask[t].marked => how = "raises" BY DEF EvaluateEnds
  <1>10. /\ sbMetrics'[s] \in [evaluations : Nat, errors : Nat]
         /\ sbTold'[s] \in [returned : Nat, failed : Nat, swallowed : Nat]
    BY <1>3, <1>6, <1>7, <1>8
  <1>11. /\ sbMetrics'[s].evaluations = sbTold'[s].returned
         /\ sbMetrics'[s].errors = sbTold'[s].failed + sbTold'[s].swallowed
    BY <1>2, <1>3, <1>6, <1>7, <1>8, <1>9
  <1>12. sbMetrics' = [sbMetrics EXCEPT ![s] = sbMetrics'[s]] /\ sbTold' = [sbTold EXCEPT ![s] = sbTold'[s]]
    BY <1>4, <1>5, <1>6, <1>7
  <1> QED BY <1>10, <1>11, <1>12 DEF EndTold

(* An evaluation that ends leaves nothing behind and releases its lock. *)
LEMMA EvaluateEndsKeeps ==
    ASSUME SandboxInv, NEW t \in EvalTasks, NEW how, EvaluateEnds(t, how)
    PROVE  SandboxInv'
  <1> DEFINE s == sbTask[t].sandbox
  <1>1. s \in Sandboxes /\ sbLock = t BY DEF SandboxInv, SandboxShape, HolderRuns, EvaluateEnds
  <1>2. /\ sbProc' = [hooks |-> Deactivate(sbProc.hooks, sbKept[s], s), flag |-> FALSE]
        /\ sbKept' = [sbKept EXCEPT ![s] = Nothing]
        /\ sbLock' = "free" /\ sbTask' = [sbTask EXCEPT ![t] = NotEvaluating]
    BY <1>1 DEF EvaluateEnds
  <1>3. /\ sbKept' \in [Sandboxes -> {Nothing, Host}]
        /\ \E flag \in BOOLEAN, h \in {Host} \cup {Own(x) : x \in Sandboxes} :
              sbProc' = [hooks |-> h, flag |-> flag]
        /\ \A x \in Sandboxes : sbKept'[x] = Host => x # s /\ sbKept[x] = Host
        /\ (\A x \in Sandboxes : sbKept'[x] = Nothing) => sbProc'.hooks = Host
        /\ ~sbProc'.flag
    BY <1>1, <1>2, DownKeeps
  <1>4. sbTask'[t] = NotEvaluating /\ \A u \in EvalTasks : u # t => sbTask'[u] = sbTask[u]
    BY <1>2 DEF SandboxInv, SandboxShape
  <1>5. EndTold(s) BY EndIsTold
  <1>6. SandboxShape'
   <2>1. sbTask' \in [EvalTasks -> [pc : {"idle", "waits", "runs"}, sandbox : Sandboxes \cup {"none"},
                                    marked : BOOLEAN]]
     BY <1>2 DEF SandboxInv, SandboxShape, NotEvaluating
   <2>2. \A u \in EvalTasks : sbTask'[u].pc # "idle" => sbTask'[u].sandbox \in Sandboxes
     BY <1>4 DEF SandboxInv, SandboxShape, NotEvaluating
   <2>3. sbMetrics' \in [Sandboxes -> [evaluations : Nat, errors : Nat]]
     BY <1>1, <1>5 DEF SandboxInv, SandboxShape, EndTold
   <2>4. sbTold' \in [Sandboxes -> [returned : Nat, failed : Nat, swallowed : Nat]]
     BY <1>1, <1>5 DEF SandboxInv, SandboxShape, EndTold
   <2> QED BY <1>3, <2>1, <2>2, <2>3, <2>4 DEF SandboxShape
  <1>7. HolderRuns' BY <1>1, <1>2, <1>4, SandboxAssumption DEF SandboxInv, HolderRuns, NotEvaluating
  <1>8. SandboxHeldOnce'
   <2>1. \A x \in Sandboxes : sbKept'[x] = Nothing BY <1>1, <1>3 DEF SandboxInv, SandboxHeldOnce
   <2> QED BY <1>2, <1>3, <2>1, HooksDiffer DEF SandboxHeldOnce
  <1>9. ErrorsTold'
   <2>1. \A x \in Sandboxes : MarkedError(x)' = 0
     BY <1>1, <1>4 DEF SandboxInv, HolderRuns, MarkedError, NotEvaluating
   <2>2. \A x \in Sandboxes : x # s => MarkedError(x) = 0 /\ sbMetrics'[x] = sbMetrics[x] /\ sbTold'[x] = sbTold[x]
     BY <1>1, <1>5 DEF SandboxInv, SandboxShape, HolderRuns, MarkedError, EndTold
   <2> QED BY <1>5, <2>1, <2>2, SMTT(30) DEF SandboxInv, SandboxShape, ErrorsTold, EndTold
  <1> QED BY <1>6, <1>7, <1>8, <1>9 DEF SandboxInv

(* A sandbox built meanwhile restores what was in place when it began. *)
LEMMA FromFactoryKeeps ==
    ASSUME SandboxInv, NEW s \in Sandboxes, FromFactory(s)
    PROVE  SandboxInv'
  <1>1. PICK flag \in BOOLEAN, h \in {Host} \cup {Own(x) : x \in Sandboxes} :
           sbProc = [hooks |-> h, flag |-> flag]
    BY DEF SandboxInv, SandboxShape
  <1>2. /\ Activate(h, Nothing, s) = [hooks |-> Own(s), kept |-> h]
        /\ Deactivate(Own(s), h, s) = h
    BY UpAndDown
  <1>3. sbProc' = [hooks |-> h, flag |-> FALSE] /\ sbProc.hooks = h
   <2>1. sbProc.hooks = h BY <1>1
   <2> DEFINE up == Activate(h, Nothing, s)
   <2>2. up.hooks = Own(s) /\ up.kept = h BY <1>2
   <2> HIDE DEF up
   <2>3. sbProc' = [hooks |-> Deactivate(up.hooks, up.kept, s), flag |-> FALSE]
     BY <2>1 DEF FromFactory, up
   <2> QED BY <1>2, <2>1, <2>2, <2>3
  <1>4. UNCHANGED <<sbKept, sbLock, sbTask, sbMetrics, sbTold>> /\ sbProc'.hooks = h /\ ~sbProc'.flag
    BY <1>3 DEF FromFactory
  <1>5. SandboxShape' BY <1>3, <1>4 DEF SandboxInv, SandboxShape
  <1>6. SandboxHeldOnce' BY <1>3, <1>4 DEF SandboxInv, SandboxHeldOnce
  <1> QED BY <1>4, <1>5, <1>6 DEF SandboxInv, HolderRuns, ErrorsTold, MarkedError

(* A cleanup takes down what its sandbox holds and nobody else's. *)
LEMMA CleanupKeeps ==
    ASSUME SandboxInv, NEW s \in Sandboxes, Cleanup(s)
    PROVE  SandboxInv'
  <1>1. /\ sbProc' = [hooks |-> Deactivate(sbProc.hooks, sbKept[s], s), flag |-> FALSE]
        /\ sbKept' = [sbKept EXCEPT ![s] = Nothing]
        /\ UNCHANGED <<sbLock, sbTask, sbMetrics, sbTold>>
    BY DEF Cleanup
  <1>2. /\ sbKept' \in [Sandboxes -> {Nothing, Host}]
        /\ \E flag \in BOOLEAN, h \in {Host} \cup {Own(x) : x \in Sandboxes} :
              sbProc' = [hooks |-> h, flag |-> flag]
        /\ \A x \in Sandboxes : sbKept'[x] = Host => sbKept[x] = Host /\ sbProc'.hooks = Own(x)
        /\ (\A x \in Sandboxes : sbKept'[x] = Nothing) => sbProc'.hooks = Host
        /\ ~sbProc'.flag
    BY <1>1, DownKeeps
  <1>3. SandboxShape' BY <1>1, <1>2 DEF SandboxInv, SandboxShape
  <1>4. SandboxHeldOnce' BY <1>1, <1>2 DEF SandboxInv, SandboxHeldOnce
  <1> QED BY <1>1, <1>3, <1>4 DEF SandboxInv, HolderRuns, ErrorsTold, MarkedError

(* Every step of the sandbox keeps its invariant. *)
LEMMA SandboxSteps ==
    ASSUME SandboxInv, [SandboxNext]_sbVars
    PROVE  SandboxInv'
  <1>1. CASE UNCHANGED sbVars
    BY <1>1 DEF SandboxInv, SandboxShape, HolderRuns, SandboxHeldOnce, ErrorsTold, MarkedError, sbVars
  <1>2. CASE \E t \in EvalTasks, s \in Sandboxes : EvaluateCalled(t, s) BY <1>2, EvaluateCalledKeeps
  <1>3. CASE \E t \in EvalTasks : EvaluateStarts(t) BY <1>3, EvaluateStartsKeeps
  <1>4. CASE \E t \in EvalTasks, escapes \in BOOLEAN : BlockedAttribute(t, escapes)
    BY <1>4, BlockedAttributeKeeps
  <1>5. CASE \E t \in EvalTasks, how \in Ends : EvaluateEnds(t, how) BY <1>5, EvaluateEndsKeeps
  <1>6. CASE \E s \in Sandboxes : FromFactory(s) \/ Cleanup(s)
    BY <1>6, FromFactoryKeeps, CleanupKeeps
  <1> QED BY <1>1, <1>2, <1>3, <1>4, <1>5, <1>6 DEF SandboxNext

(* With no evaluation running the process is the host's, and the metrics tell what
   happened. *)
LEMMA SandboxRestores ==
    ASSUME SandboxInv
    PROVE  HooksRestored /\ MetricsTellOutcome
  <1>1. HooksRestored
   <2>1. (\A t \in EvalTasks : sbTask[t].pc # "runs") => sbLock = "free"
     BY DEF SandboxInv, HolderRuns
   <2> QED BY <2>1, FreeMeansHost DEF HooksRestored
  <1>2. ASSUME NEW s \in Sandboxes
        PROVE  Cardinality({t \in EvalTasks : sbTask[t].sandbox = s /\ sbTask[t].marked}) = MarkedError(s)
   <2> DEFINE m == {t \in EvalTasks : sbTask[t].sandbox = s /\ sbTask[t].marked}
   <2>1. m = {} \/ m = {sbLock} BY DEF SandboxInv, HolderRuns
   <2>2. m = {} <=> MarkedError(s) = 0 BY DEF MarkedError
   <2>3. MarkedError(s) \in {0, 1} BY DEF MarkedError
   <2>4. Cardinality({}) = 0 /\ Cardinality({sbLock}) = 1 BY FS_EmptySet, FS_Singleton
   <2> QED BY <2>1, <2>2, <2>3, <2>4
  <1>3. MetricsTellOutcome BY <1>2 DEF SandboxInv, ErrorsTold, MetricsTellOutcome
  <1> QED BY <1>1, <1>3

----------------------------------------
(* The resource guard. *)

GuardRecord ==
    [pc : {"out", "arm", "trace", "body", "teardown", "finalize"}, armed : BOOLEAN,
     prior : GuardThreads \cup {"none", "prior"}, started : BOOLEAN, watched : BOOLEAN, breach : BOOLEAN,
     says : {"none", "cpu", "memory", "single_flight", "done", "monitor", "stray"}]

GuardShape ==
    /\ rgThread \in [GuardThreads -> GuardRecord]
    /\ \A t \in GuardThreads : rgThread[t].armed => rgThread[t].prior # "none"
    /\ rgAlarm \in [handler : GuardThreads \cup {"prior"}, running : BOOLEAN]
    /\ rgHosts \in BOOLEAN /\ rgTracing \in BOOLEAN /\ rgHurt \in SUBSET {"arming", "alarm", "monitor"}
    /\ rgLock \in GuardThreads \cup {"free"}

(* The thread whose timer is armed and not torn down yet. *)
Guarded(t) == rgThread[t].armed /\ rgThread[t].pc \in {"trace", "body", "teardown"}

(* Only the holder of the lock is inside; a timer runs only for the main thread, from
   arming to teardown, unless a guard died with its monitor. *)
TimerHeld ==
    /\ \A t \in GuardThreads : rgThread[t].pc # "out" <=> rgLock = t
    /\ rgAlarm.running => "monitor" \in rgHurt \/ (rgAlarm.handler = MainThread /\ Guarded(MainThread))
    /\ \A t \in GuardThreads : rgThread[t].armed => t = MainThread
    /\ \A t \in GuardThreads : rgThread[t].pc \in {"out", "arm"} => ~rgThread[t].armed
    /\ \A t \in GuardThreads : rgThread[t].pc \in {"out", "arm", "trace"} => ~rgThread[t].started

(* No thread outside is hit but by the timer that such a guard left. *)
NoStray == "monitor" \notin rgHurt => \A t \in GuardThreads : rgThread[t].says # "stray"

(* Unless an alarm or a failure hit the guard itself, the handler is the caller's but while
   a timer is armed, and tracemalloc runs as the host left it but while a guard is up. *)
TracesBack ==
    rgHurt = {} =>
      /\ rgAlarm.handler = IF Guarded(MainThread) THEN MainThread ELSE "prior"
      /\ Guarded(MainThread) => rgThread[MainThread].prior = "prior"
      /\ (\A t \in GuardThreads : rgThread[t].pc \in {"out", "arm", "trace"}) => rgTracing = rgHosts
      /\ \A t \in GuardThreads : rgThread[t].pc \in {"body", "teardown", "finalize"} =>
            (rgTracing /\ ~rgThread[t].started) = rgHosts

GuardInv == GuardShape /\ TimerHeld /\ TracesBack /\ NoStray

(* The invariant of the guard holds at the start. *)
LEMMA GuardStarts ==
    ASSUME GuardInit
    PROVE  GuardInv
  <1>1. Outside \in GuardRecord BY DEF Outside, GuardRecord
  <1>2. GuardShape BY <1>1 DEF GuardInit, GuardShape, Outside
  <1> QED BY <1>2, GuardAssumption DEF GuardInit, GuardInv, TimerHeld, TracesBack, NoStray, Guarded, Outside

(* A thread enters under a free lock, or is told at once that another is inside. *)
LEMMA EnterGuardKeeps ==
    ASSUME GuardInv, NEW t \in GuardThreads, EnterGuard(t)
    PROVE  GuardInv'
  <1> DEFINE in == [Outside EXCEPT !.pc = "arm"]
             told == [Outside EXCEPT !.says = "single_flight"]
  <1>8. in \in GuardRecord /\ ~in.armed /\ in.pc = "arm" /\ ~in.started /\ in.says # "stray"
    BY DEF Outside, GuardRecord
  <1>9. told \in GuardRecord /\ ~told.armed /\ told.pc = "out" /\ ~told.started /\ told.says # "stray"
    BY DEF Outside, GuardRecord
  <1>10. \/ rgLock = "free" /\ rgLock' = t /\ rgThread' = [rgThread EXCEPT ![t] = in]
         \/ rgLock # "free" /\ rgLock' = rgLock /\ rgThread' = [rgThread EXCEPT ![t] = told]
    BY DEF EnterGuard
  <1> HIDE DEF in, told
  <1>2. \A u \in GuardThreads : u # t => rgThread'[u] = rgThread[u]
    BY <1>10 DEF GuardInv, GuardShape
  <1>3. /\ ~rgThread'[t].armed /\ rgThread'[t] \in GuardRecord
        /\ ~rgThread'[t].started /\ rgThread'[t].says # "stray"
        /\ \/ rgThread'[t].pc = "arm" /\ rgLock = "free" /\ rgLock' = t
           \/ rgThread'[t].pc = "out" /\ rgLock # "free" /\ rgLock' = rgLock
    BY <1>8, <1>9, <1>10 DEF GuardInv, GuardShape
  <1>1. GuardShape'
   <2>1. rgThread' \in [GuardThreads -> GuardRecord] BY <1>8, <1>9, <1>10 DEF GuardInv, GuardShape
   <2> QED BY <1>2, <1>3, <2>1 DEF GuardInv, GuardShape, EnterGuard
  <1>4. rgThread[t].pc = "out" /\ ~rgThread[t].armed BY DEF GuardInv, TimerHeld, EnterGuard
  <1>5. UNCHANGED <<rgAlarm, rgTracing, rgHosts, rgHurt>> BY DEF EnterGuard
  <1>6. TimerHeld' BY <1>2, <1>3, <1>4, <1>5, GuardAssumption DEF GuardInv, TimerHeld, Guarded
  <1>7. TracesBack'
    BY <1>2, <1>3, <1>4, <1>5, GuardAssumption DEF GuardInv, TimerHeld, TracesBack, Guarded
  <1>11. NoStray' BY <1>2, <1>3, <1>5 DEF GuardInv, NoStray
  <1> QED BY <1>1, <1>6, <1>7, <1>11 DEF GuardInv

(* A thread moves on and its timer may have been armed. *)
Armed(f, t, h) == [f EXCEPT ![t].pc = "trace", ![t].armed = TRUE, ![t].prior = h]

(* It is a thread's record still, and the other threads keep theirs. *)
LEMMA ArmedRecord ==
    ASSUME NEW f \in [GuardThreads -> GuardRecord], NEW t \in GuardThreads,
           NEW h \in GuardThreads \cup {"prior"}
    PROVE  /\ Armed(f, t, h) \in [GuardThreads -> GuardRecord]
           /\ \A u \in GuardThreads : u # t => Armed(f, t, h)[u] = f[u]
           /\ Armed(f, t, h)[t].pc = "trace" /\ Armed(f, t, h)[t].armed
           /\ Armed(f, t, h)[t].prior = h /\ Armed(f, t, h)[t].started = f[t].started
           /\ Armed(f, t, h)[t].says = f[t].says
  <1> DEFINE r == [f[t] EXCEPT !.pc = "trace", !.armed = TRUE, !.prior = h]
  <1>1. r \in GuardRecord BY DEF GuardRecord
  <1>2. r.pc = "trace" /\ r.armed = TRUE /\ r.prior = h /\ r.started = f[t].started /\ r.says = f[t].says
    BY DEF GuardRecord
  <1>3. Armed(f, t, h) = [f EXCEPT ![t] = r] BY DEF Armed
  <1> HIDE DEF r
  <1> QED BY <1>1, <1>2, <1>3

(* A thread moves on and nothing else changes. *)
Moved(f, t, pc) == [f EXCEPT ![t].pc = pc]

(* Its other fields stay as they were, and so do the other threads. *)
LEMMA MovedRecord ==
    ASSUME NEW f \in [GuardThreads -> GuardRecord], NEW t \in GuardThreads,
           NEW pc \in {"trace", "teardown", "finalize"}
    PROVE  /\ Moved(f, t, pc) \in [GuardThreads -> GuardRecord]
           /\ \A u \in GuardThreads : u # t => Moved(f, t, pc)[u] = f[u]
           /\ Moved(f, t, pc)[t].pc = pc /\ Moved(f, t, pc)[t].armed = f[t].armed
           /\ Moved(f, t, pc)[t].prior = f[t].prior /\ Moved(f, t, pc)[t].started = f[t].started
           /\ Moved(f, t, pc)[t].says = f[t].says
  <1> DEFINE r == [f[t] EXCEPT !.pc = pc]
  <1>1. r \in GuardRecord BY DEF GuardRecord
  <1>2. /\ r.pc = pc /\ r.armed = f[t].armed /\ r.prior = f[t].prior
        /\ r.started = f[t].started /\ r.says = f[t].says
    BY DEF GuardRecord
  <1>3. Moved(f, t, pc) = [f EXCEPT ![t] = r] BY DEF Moved
  <1> HIDE DEF r
  <1> QED BY <1>1, <1>2, <1>3

(* The timer is armed, or only the handler installed, or nothing done. *)
LEMMA ArmCpuKeeps ==
    ASSUME GuardInv, NEW t \in GuardThreads, ArmCpu(t)
    PROVE  GuardInv'
  <1> DEFINE h == rgAlarm.handler
  <1>0. rgAlarm \in [handler : GuardThreads \cup {"prior"}, running : BOOLEAN]
    BY DEF GuardInv, GuardShape
  <1>1. /\ h \in GuardThreads \cup {"prior"} /\ h # "none"
        /\ rgThread \in [GuardThreads -> GuardRecord]
    BY <1>0, GuardAssumption DEF GuardInv, GuardShape
  <1>2. rgThread[t].pc = "arm" /\ ~rgThread[t].armed BY DEF GuardInv, TimerHeld, ArmCpu
  <1>3. UNCHANGED <<rgLock, rgTracing, rgHosts>> BY DEF ArmCpu
  <1>4. ~rgAlarm.running \/ "monitor" \in rgHurt
    BY <1>2, GuardAssumption DEF GuardInv, TimerHeld, Guarded
  <1>5. \/ /\ t = MainThread /\ rgAlarm' = [handler |-> t, running |-> TRUE]
           /\ rgThread' = Armed(rgThread, t, h) /\ rgHurt' = rgHurt
        \/ /\ t = MainThread /\ rgAlarm' = [rgAlarm EXCEPT !.handler = t]
           /\ rgThread' = Moved(rgThread, t, "trace") /\ rgHurt' = rgHurt \cup {"arming"}
        \/ rgThread' = Moved(rgThread, t, "trace") /\ rgAlarm' = rgAlarm /\ rgHurt' = rgHurt
    BY DEF ArmCpu, Armed, Moved
  <1>6. rgThread' \in [GuardThreads -> GuardRecord] BY <1>1, <1>5, ArmedRecord, MovedRecord
  <1>7. /\ \A u \in GuardThreads : u # t => rgThread'[u] = rgThread[u]
        /\ rgThread'[t].pc = "trace" /\ rgThread'[t].started = rgThread[t].started
        /\ rgThread'[t].says = rgThread[t].says
    BY <1>1, <1>5, ArmedRecord, MovedRecord
  <1>8. \/ /\ t = MainThread /\ rgAlarm' = [handler |-> t, running |-> TRUE] /\ rgThread'[t].armed
           /\ rgThread'[t].prior = h /\ rgHurt' = rgHurt
        \/ /\ t = MainThread /\ ~rgThread'[t].armed /\ rgAlarm' = [rgAlarm EXCEPT !.handler = t]
           /\ rgHurt' = rgHurt \cup {"arming"}
        \/ ~rgThread'[t].armed /\ rgAlarm' = rgAlarm /\ rgHurt' = rgHurt
    BY <1>1, <1>2, <1>5, ArmedRecord, MovedRecord
  <1>9. GuardShape'
   <2>0. rgAlarm \in [handler : GuardThreads \cup {"prior"}, running : BOOLEAN] /\ TRUE \in BOOLEAN
     BY DEF GuardInv, GuardShape
   <2>4. [handler |-> t, running |-> TRUE] \in [handler : GuardThreads \cup {"prior"}, running : BOOLEAN]
     BY <2>0
   <2>5. [rgAlarm EXCEPT !.handler = t] \in [handler : GuardThreads \cup {"prior"}, running : BOOLEAN]
     BY <2>0
   <2>1. rgAlarm' \in [handler : GuardThreads \cup {"prior"}, running : BOOLEAN]
     BY <1>8, <2>0, <2>4, <2>5
   <2>2. \A u \in GuardThreads : rgThread'[u].armed => rgThread'[u].prior # "none"
     BY <1>1, <1>7, <1>8 DEF GuardInv, GuardShape
   <2>3. rgHurt' \in SUBSET {"arming", "alarm", "monitor"} BY <1>8 DEF GuardInv, GuardShape
   <2> QED BY <1>3, <1>6, <2>1, <2>2, <2>3 DEF GuardInv, GuardShape
  <1>10. \/ t = MainThread /\ rgAlarm'.handler = t /\ rgThread'[t].armed /\ rgThread'[t].prior = h /\ rgHurt' = rgHurt
         \/ ~rgThread'[t].armed /\ rgAlarm'.running = rgAlarm.running /\ rgHurt' = rgHurt \cup {"arming"}
         \/ ~rgThread'[t].armed /\ rgAlarm' = rgAlarm /\ rgHurt' = rgHurt
    BY <1>8 DEF GuardInv, GuardShape
  <1>11. TimerHeld'
    BY <1>2, <1>7, <1>10, <1>3, <1>4, GuardAssumption DEF GuardInv, TimerHeld, Guarded
  <1>12. TracesBack'
    BY <1>2, <1>7, <1>10, <1>3, <1>4, GuardAssumption DEF GuardInv, GuardShape, TimerHeld, TracesBack, Guarded
  <1>13. NoStray' BY <1>7, <1>10 DEF GuardInv, NoStray
  <1> QED BY <1>9, <1>11, <1>12, <1>13 DEF GuardInv

(* Tracing is switched on unless it runs, or left alone. *)
LEMMA SetupMemoryKeeps ==
    ASSUME GuardInv, NEW t \in GuardThreads, SetupMemory(t)
    PROVE  GuardInv'
  <1> DEFINE r == [rgThread[t] EXCEPT !.pc = "body", !.started = ~rgTracing, !.watched = TRUE]
             q == [rgThread[t] EXCEPT !.pc = "body"]
  <1>1. rgThread \in [GuardThreads -> GuardRecord] /\ rgTracing \in BOOLEAN
    BY DEF GuardInv, GuardShape
  <1>2. rgThread[t] \in GuardRecord /\ (~rgTracing) \in BOOLEAN BY <1>1
  <1>3. r \in GuardRecord /\ q \in GuardRecord BY <1>2 DEF GuardRecord
  <1>4. /\ r.pc = "body" /\ r.started = ~rgTracing /\ r.armed = rgThread[t].armed
        /\ r.prior = rgThread[t].prior /\ r.says = rgThread[t].says
        /\ q.pc = "body" /\ q.started = rgThread[t].started /\ q.armed = rgThread[t].armed
        /\ q.prior = rgThread[t].prior /\ q.says = rgThread[t].says
    BY <1>2 DEF GuardRecord
  <1>5. /\ \/ rgThread' = [rgThread EXCEPT ![t] = r] /\ rgTracing' = TRUE
           \/ rgThread' = [rgThread EXCEPT ![t] = q] /\ rgTracing' = rgTracing
        /\ rgThread[t].pc = "trace"
    BY DEF SetupMemory
  <1> HIDE DEF r, q
  <1>6. UNCHANGED <<rgLock, rgAlarm, rgHosts, rgHurt>> BY DEF SetupMemory
  <1>16. ~rgThread[t].started BY <1>5 DEF GuardInv, TimerHeld
  <1>7. /\ rgThread' \in [GuardThreads -> GuardRecord]
        /\ \A u \in GuardThreads : u # t => rgThread'[u] = rgThread[u]
        /\ rgThread'[t].pc = "body" /\ rgThread'[t].armed = rgThread[t].armed
        /\ rgThread'[t].prior = rgThread[t].prior /\ rgThread'[t].says = rgThread[t].says
        /\ rgTracing' \in BOOLEAN /\ (rgTracing' /\ ~rgThread'[t].started) = rgTracing
    BY <1>1, <1>3, <1>4, <1>5, <1>16
  <1>8. GuardShape' BY <1>6, <1>7 DEF GuardInv, GuardShape
  <1>9. TimerHeld' BY <1>5, <1>6, <1>7, GuardAssumption DEF GuardInv, TimerHeld, Guarded
  <1>10. rgHurt = {} => rgTracing = rgHosts BY <1>5 DEF GuardInv, TimerHeld, TracesBack
  <1>11. \A u \in GuardThreads : u # t => rgThread[u].pc = "out" BY <1>5 DEF GuardInv, TimerHeld
  <1>12. Guarded(MainThread)' <=> Guarded(MainThread) BY <1>5, <1>7, GuardAssumption DEF Guarded
  <1>13. rgThread'[MainThread].prior = rgThread[MainThread].prior BY <1>7, GuardAssumption
  <1>14. ASSUME rgHurt = {}
         PROVE  \A u \in GuardThreads : rgThread'[u].pc \in {"body", "teardown", "finalize"} =>
                    (rgTracing' /\ ~rgThread'[u].started) = rgHosts
    BY <1>7, <1>10, <1>11, <1>14
  <1>15. TracesBack' BY <1>6, <1>7, <1>12, <1>13, <1>14, GuardAssumption DEF GuardInv, TracesBack
  <1>17. NoStray' BY <1>6, <1>7 DEF GuardInv, NoStray
  <1> QED BY <1>8, <1>9, <1>15, <1>17 DEF GuardInv

(* A monitor that cannot start ends the guard with its timer still armed. *)
LEMMA MonitorFailsKeeps ==
    ASSUME GuardInv, NEW t \in GuardThreads, MonitorFails(t)
    PROVE  GuardInv'
  <1> DEFINE out == [Outside EXCEPT !.says = "monitor"]
  <1>1. out \in GuardRecord /\ out.pc = "out" /\ ~out.armed /\ ~out.started
    BY DEF GuardRecord, Outside
  <1>2. /\ rgThread' = [rgThread EXCEPT ![t] = out] /\ rgThread[t].pc = "trace" /\ rgLock' = "free"
        /\ rgTracing' = TRUE /\ rgHurt' = rgHurt \cup {"monitor"} /\ UNCHANGED <<rgAlarm, rgHosts>>
    BY DEF MonitorFails
  <1> HIDE DEF out
  <1>3. /\ rgThread' \in [GuardThreads -> GuardRecord] /\ rgThread'[t] = out
        /\ \A u \in GuardThreads : u # t => rgThread'[u] = rgThread[u]
    BY <1>1, <1>2 DEF GuardInv, GuardShape
  <1>4. GuardShape' BY <1>1, <1>2, <1>3 DEF GuardInv, GuardShape
  <1>5. TimerHeld' BY <1>1, <1>2, <1>3, GuardAssumption DEF GuardInv, TimerHeld
  <1>6. TracesBack' /\ NoStray' BY <1>2 DEF TracesBack, NoStray
  <1> QED BY <1>4, <1>5, <1>6 DEF GuardInv

(* A breach is noted, the body ends. *)
LEMMA BodyKeeps ==
    ASSUME GuardInv, NEW t \in GuardThreads, MemoryBreach(t) \/ BodyEnds(t)
    PROVE  GuardInv'
  <1> DEFINE b == [rgThread[t] EXCEPT !.breach = TRUE]
             e == [rgThread[t] EXCEPT !.pc = "teardown"]
  <1>1. rgThread \in [GuardThreads -> GuardRecord] /\ rgThread[t] \in GuardRecord
    BY DEF GuardInv, GuardShape
  <1>2. b \in GuardRecord /\ b.pc = rgThread[t].pc /\ b.armed = rgThread[t].armed
        /\ b.prior = rgThread[t].prior /\ b.started = rgThread[t].started /\ b.says = rgThread[t].says
    BY <1>1 DEF GuardRecord
  <1>3. e \in GuardRecord /\ e.pc = "teardown" /\ e.armed = rgThread[t].armed
        /\ e.prior = rgThread[t].prior /\ e.started = rgThread[t].started /\ e.says = rgThread[t].says
    BY <1>1 DEF GuardRecord
  <1>4. /\ rgThread' = [rgThread EXCEPT ![t] = b] \/ rgThread' = [rgThread EXCEPT ![t] = e]
        /\ rgThread[t].pc = "body"
    BY DEF MemoryBreach, BodyEnds
  <1> HIDE DEF b, e
  <1>5. /\ rgThread' \in [GuardThreads -> GuardRecord]
        /\ \A u \in GuardThreads : u # t => rgThread'[u] = rgThread[u]
        /\ rgThread'[t].pc \in {"body", "teardown"}
        /\ rgThread'[t].armed = rgThread[t].armed /\ rgThread'[t].prior = rgThread[t].prior
        /\ rgThread'[t].started = rgThread[t].started /\ rgThread'[t].says = rgThread[t].says
    BY <1>1, <1>2, <1>3, <1>4
  <1>6. UNCHANGED <<rgLock, rgAlarm, rgTracing, rgHosts, rgHurt>> BY DEF MemoryBreach, BodyEnds
  <1>7. GuardShape' BY <1>5, <1>6 DEF GuardInv, GuardShape
  <1>8. TimerHeld' BY <1>4, <1>5, <1>6, GuardAssumption DEF GuardInv, TimerHeld, Guarded
  <1>9. TracesBack'
    BY <1>4, <1>5, <1>6, GuardAssumption DEF GuardInv, TimerHeld, TracesBack, Guarded
  <1>10. NoStray' BY <1>5, <1>6 DEF GuardInv, NoStray
  <1> QED BY <1>7, <1>8, <1>9, <1>10 DEF GuardInv

(* The timer is stopped and the caller's handler is back. *)
LEMMA TeardownKeeps ==
    ASSUME GuardInv, NEW t \in GuardThreads, TeardownCpu(t)
    PROVE  GuardInv'
  <1>0. rgThread \in [GuardThreads -> GuardRecord] /\ rgThread[t].pc = "teardown"
        /\ rgThread' = Moved(rgThread, t, "finalize")
    BY DEF GuardInv, GuardShape, TeardownCpu, Moved
  <1>1. /\ rgThread' \in [GuardThreads -> GuardRecord]
        /\ \A u \in GuardThreads : u # t => rgThread'[u] = rgThread[u]
        /\ rgThread'[t].pc = "finalize" /\ rgThread[t].pc = "teardown"
        /\ rgThread'[t].armed = rgThread[t].armed /\ rgThread'[t].prior = rgThread[t].prior
        /\ rgThread'[t].started = rgThread[t].started /\ rgThread'[t].says = rgThread[t].says
    BY <1>0, MovedRecord
  <1>2. UNCHANGED <<rgLock, rgTracing, rgHosts, rgHurt>> BY DEF TeardownCpu
  <1>3. \/ rgThread[t].armed /\ rgAlarm' = [handler |-> rgThread[t].prior, running |-> FALSE]
        \/ ~rgThread[t].armed /\ rgAlarm' = rgAlarm
    BY DEF TeardownCpu, Disarm
  <1>4. /\ rgThread[t].armed => rgAlarm'.handler = rgThread[t].prior /\ ~rgAlarm'.running
        /\ ~rgThread[t].armed => rgAlarm' = rgAlarm
    BY <1>3
  <1>5. GuardShape'
   <2>2. rgThread[t].armed => rgThread[t].prior \in GuardThreads \cup {"prior"}
     BY <1>0 DEF GuardInv, GuardShape, GuardRecord
   <2>3. rgAlarm \in [handler : GuardThreads \cup {"prior"}, running : BOOLEAN]
     BY DEF GuardInv, GuardShape
   <2>4. FALSE \in BOOLEAN OBVIOUS
   <2> DEFINE h == rgThread[t].prior
   <2>7. h \in GuardThreads \cup {"prior"} =>
           [handler |-> h, running |-> FALSE] \in [handler : GuardThreads \cup {"prior"}, running : BOOLEAN]
     BY <2>4
   <2>5. rgThread[t].armed => rgAlarm' \in [handler : GuardThreads \cup {"prior"}, running : BOOLEAN]
     BY <1>3, <2>2, <2>7
   <2>6. ~rgThread[t].armed => rgAlarm' \in [handler : GuardThreads \cup {"prior"}, running : BOOLEAN]
     BY <1>3, <2>3
   <2> QED BY <1>1, <1>2, <2>5, <2>6 DEF GuardInv, GuardShape
  <1>6. TimerHeld' BY <1>1, <1>2, <1>4, GuardAssumption DEF GuardInv, TimerHeld, Guarded
  <1>7. TracesBack'
    BY <1>1, <1>2, <1>4, GuardAssumption DEF GuardInv, TimerHeld, TracesBack, Guarded
  <1>8. NoStray' BY <1>1, <1>2 DEF GuardInv, NoStray
  <1> QED BY <1>5, <1>6, <1>7, <1>8 DEF GuardInv

(* Tracing stops where the guard started it, and the lock is released. *)
LEMMA FinalizeKeeps ==
    ASSUME GuardInv, NEW t \in GuardThreads, FinalizeMemory(t)
    PROVE  GuardInv'
  <1> DEFINE says == IF rgThread[t].breach THEN "memory"
                     ELSE IF rgThread[t].says = "none" THEN "done" ELSE rgThread[t].says
             out == [Outside EXCEPT !.says = says, !.breach = rgThread[t].breach]
  <1>1. /\ says \in {"none", "cpu", "memory", "single_flight", "done", "monitor", "stray"}
        /\ rgThread[t].breach \in BOOLEAN /\ (says = "stray" => rgThread[t].says = "stray")
    BY DEF GuardInv, GuardShape, GuardRecord
  <1> HIDE DEF says
  <1>2. out \in GuardRecord /\ out.pc = "out" /\ ~out.armed /\ ~out.started /\ out.says = says
    BY <1>1 DEF GuardRecord, Outside
  <1>3. rgThread' = [rgThread EXCEPT ![t] = out] /\ rgThread[t].pc = "finalize"
    BY DEF FinalizeMemory, says
  <1> HIDE DEF out
  <1>4. /\ \A u \in GuardThreads : u # t => rgThread'[u] = rgThread[u]
        /\ rgThread'[t].pc = "out" /\ ~rgThread'[t].armed /\ ~rgThread'[t].started
        /\ rgThread'[t].says = "stray" => rgThread[t].says = "stray"
    BY <1>1, <1>2, <1>3 DEF GuardInv, GuardShape
  <1>5. rgLock' = "free" /\ rgLock = t BY <1>3 DEF GuardInv, TimerHeld, FinalizeMemory
  <1>6. /\ UNCHANGED <<rgAlarm, rgHosts, rgHurt>>
        /\ rgTracing' = (rgTracing /\ ~rgThread[t].started)
    BY DEF FinalizeMemory
  <1>7. GuardShape'
   <2>1. rgThread' \in [GuardThreads -> GuardRecord] BY <1>2, <1>3 DEF GuardInv, GuardShape
   <2>2. rgTracing' \in BOOLEAN BY <1>6 DEF GuardInv, GuardShape
   <2> QED BY <1>4, <1>5, <1>6, <2>1, <2>2 DEF GuardInv, GuardShape
  <1>8. TimerHeld' BY <1>3, <1>4, <1>5, <1>6, GuardAssumption DEF GuardInv, TimerHeld, Guarded
  <1>9. TracesBack'
   <2>1. rgHurt = {} => rgTracing' = rgHosts BY <1>3, <1>6 DEF GuardInv, GuardShape, TracesBack
   <2> QED
     BY <1>3, <1>4, <1>5, <1>6, <2>1, GuardAssumption DEF GuardInv, TimerHeld, TracesBack, Guarded
  <1>10. NoStray' BY <1>4, <1>6 DEF GuardInv, NoStray
  <1> QED BY <1>7, <1>8, <1>9, <1>10 DEF GuardInv

(* The alarm ends the body, hurts the guard itself, or strays. *)
LEMMA AlarmKeeps ==
    ASSUME GuardInv, Alarm
    PROVE  GuardInv'
  <1> DEFINE t == MainThread
             cut == [Outside EXCEPT !.says = "cpu"]
  <1>1. t \in GuardThreads BY GuardAssumption
  <1>2. cut \in GuardRecord /\ cut.pc = "out" /\ ~cut.armed /\ ~cut.started /\ cut.says = "cpu"
    BY DEF GuardRecord, Outside
  <1>3. /\ rgAlarm' = [rgAlarm EXCEPT !.running = FALSE]
        /\ \/ /\ rgThread[t].pc = "body" /\ rgThread' = [rgThread EXCEPT ![t].pc = "teardown", ![t].says = "cpu"]
              /\ UNCHANGED <<rgLock, rgHurt>>
           \/ /\ rgThread[t].pc # "out" /\ rgThread' = [rgThread EXCEPT ![t] = cut]
              /\ rgLock' = "free" /\ rgHurt' = rgHurt \cup {"alarm"}
           \/ /\ rgThread[t].pc = "out" /\ rgThread' = [rgThread EXCEPT ![t].says = "stray"]
              /\ UNCHANGED <<rgLock, rgHurt>>
        /\ UNCHANGED <<rgTracing, rgHosts>>
    BY DEF Alarm
  <1> HIDE DEF cut
  <1>4. ~rgAlarm'.running /\ rgAlarm'.handler = rgAlarm.handler BY <1>3 DEF GuardInv, GuardShape
  <1>5. \A u \in GuardThreads : u # t => rgThread'[u] = rgThread[u] BY <1>3 DEF GuardInv, GuardShape
  <1>6. \/ /\ rgThread'[t].pc = "teardown" /\ rgThread'[t].armed = rgThread[t].armed
           /\ rgThread'[t].prior = rgThread[t].prior /\ rgThread'[t].started = rgThread[t].started
           /\ rgThread[t].pc = "body" /\ UNCHANGED <<rgLock, rgHurt>> /\ rgThread'[t].says = "cpu"
        \/ /\ rgThread'[t].pc = "out" /\ ~rgThread'[t].armed /\ ~rgThread'[t].started /\ rgThread[t].pc # "out"
           /\ rgLock' = "free" /\ rgHurt' = rgHurt \cup {"alarm"} /\ rgThread'[t].says = "cpu"
        \/ /\ rgThread'[t].pc = "out" /\ rgThread'[t].armed = rgThread[t].armed
           /\ rgThread'[t].started = rgThread[t].started /\ rgThread[t].pc = "out"
           /\ rgThread'[t].prior = rgThread[t].prior /\ UNCHANGED <<rgLock, rgHurt>>
    BY <1>1, <1>2, <1>3 DEF GuardInv, GuardShape, GuardRecord
  <1>10. rgThread[t].pc = "out" => "monitor" \in rgHurt BY DEF GuardInv, TimerHeld, Guarded, Alarm
  <1>7. GuardShape'
   <2>1. rgThread' \in [GuardThreads -> GuardRecord]
     BY <1>1, <1>2, <1>3 DEF GuardInv, GuardShape, GuardRecord
   <2>2. rgAlarm' \in [handler : GuardThreads \cup {"prior"}, running : BOOLEAN]
     BY <1>3 DEF GuardInv, GuardShape
   <2>3. \A u \in GuardThreads : rgThread'[u].armed => rgThread'[u].prior # "none"
     BY <1>1, <1>5, <1>6 DEF GuardInv, GuardShape
   <2>4. rgHurt' \in SUBSET {"arming", "alarm", "monitor"} BY <1>6 DEF GuardInv, GuardShape
   <2> QED BY <1>3, <1>6, <2>1, <2>2, <2>3, <2>4 DEF GuardInv, GuardShape
  <1>8. TimerHeld' BY <1>1, <1>4, <1>5, <1>6, GuardAssumption DEF GuardInv, TimerHeld, Guarded
  <1>9. TracesBack'
    BY <1>1, <1>3, <1>4, <1>5, <1>6, <1>10 DEF GuardInv, TimerHeld, TracesBack, Guarded
  <1>11. NoStray' BY <1>1, <1>5, <1>6, <1>10 DEF GuardInv, NoStray
  <1> QED BY <1>7, <1>8, <1>9, <1>11 DEF GuardInv

(* Every step of the guard keeps its invariant. *)
LEMMA GuardSteps ==
    ASSUME GuardInv, [GuardNext]_rgVars
    PROVE  GuardInv'
  <1>1. CASE UNCHANGED rgVars
    BY <1>1 DEF GuardInv, GuardShape, TimerHeld, TracesBack, NoStray, Guarded, rgVars
  <1>2. ASSUME NEW t \in GuardThreads,
               \/ EnterGuard(t) \/ ArmCpu(t) \/ SetupMemory(t) \/ MonitorFails(t)
               \/ MemoryBreach(t) \/ BodyEnds(t)
               \/ TeardownCpu(t) \/ FinalizeMemory(t)
        PROVE  GuardInv'
    BY <1>2, EnterGuardKeeps, ArmCpuKeeps, SetupMemoryKeeps, MonitorFailsKeeps,
       BodyKeeps, TeardownKeeps, FinalizeKeeps
  <1>3. CASE Alarm BY <1>3, AlarmKeeps
  <1> QED BY <1>1, <1>2, <1>3 DEF GuardNext

(* A free lock has no timer, unless a monitor failed, and what the guard changed is undone. *)
LEMMA GuardUndoes ==
    ASSUME GuardInv
    PROVE  GuardLeavesNothing /\ AlarmHitsHolder
  <1>1. AlarmHitsHolder
    BY GuardAssumption DEF GuardInv, TimerHeld, NoStray, Guarded, AlarmHitsHolder
  <1>2. rgLock = "free" => \A t \in GuardThreads : rgThread[t].pc = "out"
    BY GuardAssumption DEF GuardInv, TimerHeld
  <1>3. GuardLeavesNothing
    BY <1>2, GuardAssumption DEF GuardInv, TimerHeld, TracesBack, Guarded, GuardLeavesNothing
  <1> QED BY <1>1, <1>3
----------------------------------------
(* What plugin code may import and open. *)

PolicyInv ==
    /\ plLoaded \subseteq Statements /\ \A s \in plLoaded : ~StaticViolation(s)
    /\ plSource.statements \subseteq Statements
    /\ plOpen = [pc |-> plOpen.pc, path |-> plOpen.path, checked |-> plOpen.checked]
    /\ plOpen.pc \in {"checked", "open"} => Within(plOpen.checked)

(* What passes the static check at load time the import hook allows at run time: an allowed
   name has one part, and no denied name has an allowed root. *)
LEMMA StaticNeverWider ==
    ASSUME PolicyAssumption, NEW n, ~StaticBlocked(n)
    PROVE  DynamicAllowed(n)
  <1>1. n \in AllowedModules => n = RootOf(n) BY DEF PolicyAssumption, RootOf
  <1> QED BY <1>1 DEF StaticBlocked, DynamicAllowed

(* What the syntax checker accepts the loader does not reject. *)
LEMMA AstNeverWider ==
    ASSUME PolicyAssumption, NEW s \in Statements, ~AstViolation(s, AllowedModules)
    PROVE  ~StaticViolation(s)
  <1>1. s.name \in AllowedModules => s.name = RootOf(s.name) BY DEF PolicyAssumption, RootOf
  <1>2. s.kind \in {"import", "from", "call"} BY DEF Statements, Imports, FromImports, CallsOf
  <1>3. CASE s.kind \in {"import", "from"}
   <2>1. ~AstForbidden(s.name, AllowedModules) BY <1>3 DEF AstViolation
   <2>2. AllowedModules # {} BY DEF PolicyAssumption
   <2>3. ~StaticBlocked(s.name) BY <1>1, <2>1, <2>2 DEF AstForbidden, StaticBlocked
   <2> QED BY <1>3, <2>3 DEF StaticViolation
  <1>4. CASE s.kind = "call"
   <2>1. /\ ~(Len(s.name) = 1 /\ s.name[1] \in DangerousCalls)
         /\ ~(Len(s.name) = 2 /\ s.name[2] \in {"import_module", "__import__"})
     BY <1>4 DEF AstViolation
   <2>3. Len(<<"importlib", "import_module">>) = 2 /\ <<"importlib", "import_module">>[2] = "import_module"
     OBVIOUS
   <2>2. s.name # <<"importlib", "import_module">> BY <2>1, <2>3
   <2> QED BY <1>4, <2>1, <2>2 DEF StaticViolation
  <1> QED BY <1>2, <1>3, <1>4

(* Nothing is loaded or open at the start. *)
LEMMA PolicyStarts ==
    ASSUME PolicyInit
    PROVE  PolicyInv
  BY DEF PolicyInit, PolicyInv

(* Every step of the loader, the registry and the file system keeps the invariant. *)
LEMMA PolicySteps ==
    ASSUME PolicyInv, [PolicyNext]_plVars
    PROVE  PolicyInv'
  <1>1. ASSUME NEW a \in Statements, NEW b \in Statements, ReadSource({a, b})
        PROVE  PolicyInv'
    BY <1>1 DEF ReadSource, PolicyInv, Within
  <1>2. ASSUME NEW works \in BOOLEAN, LoadStrategy(works)
        PROVE  PolicyInv'
   <2>1. plLoaded' \in {plSource.statements, {}} BY <1>2 DEF LoadStrategy
   <2>2. \A s \in plLoaded' : ~StaticViolation(s) BY <1>2 DEF LoadStrategy
   <2>3. plSource'.statements = {} /\ UNCHANGED plOpen BY <1>2 DEF LoadStrategy
   <2> QED BY <2>1, <2>2, <2>3 DEF PolicyInv, Within
  <1>3. CASE Unload BY <1>3 DEF Unload, PolicyInv, Within
  <1>4. ASSUME NEW n \in PluginNames, NEW c \in PluginClasses, RegisterPlugin(n, c)
        PROVE  PolicyInv'
    BY <1>4 DEF RegisterPlugin, PolicyInv, Within
  <1>5. ASSUME NEW names \in SUBSET PluginNames, UnregisterPlugins(names)
        PROVE  PolicyInv'
    BY <1>5 DEF UnregisterPlugins, PolicyInv, Within
  <1>6. ASSUME NEW p \in Paths, NEW writes \in BOOLEAN, RestrictedOpen(p, writes)
        PROVE  PolicyInv'
   <2>1. \/ plOpen' = [plOpen EXCEPT !.pc = "none"]
         \/ plOpen' = [pc |-> "checked", path |-> p, checked |-> RealPath(p)] /\ Within(RealPath(p))
     BY <1>6 DEF RestrictedOpen
   <2>2. /\ plOpen' = [pc |-> plOpen.pc, path |-> plOpen.path, checked |-> plOpen.checked]'
         /\ plOpen'.pc \in {"checked", "open"} => Within(plOpen'.checked)
     BY <2>1 DEF PolicyInv
   <2> QED BY <1>6, <2>2 DEF RestrictedOpen, PolicyInv, Within
  <1>7. CASE OpensFile
   <2>1. plOpen' = [plOpen EXCEPT !.pc = "open", !.checked = plOpen.checked]
     BY <1>7 DEF OpensFile, Opened
   <2>2. plOpen' = [pc |-> "open", path |-> plOpen.path, checked |-> plOpen.checked]
     BY <2>1 DEF PolicyInv
   <2>3. Within(plOpen.checked) BY <1>7 DEF OpensFile, PolicyInv
   <2>4. /\ plOpen' = [pc |-> plOpen.pc, path |-> plOpen.path, checked |-> plOpen.checked]'
         /\ plOpen'.checked = plOpen.checked
     BY <2>2
   <2>5. Within(plOpen.checked)' BY <2>3, <2>4 DEF Within
   <2> QED BY <1>7, <2>4, <2>5 DEF OpensFile, PolicyInv
  <1>8. CASE ClosesFile BY <1>8 DEF ClosesFile, PolicyInv, Within
  <1>9. CASE LinkMoves BY <1>9 DEF LinkMoves, PolicyInv, Within
  <1>10. CASE UNCHANGED plVars BY <1>10 DEF plVars, PolicyInv, Within
  <1> QED BY <1>1, <1>2, <1>3, <1>4, <1>5, <1>6, <1>7, <1>8, <1>9, <1>10 DEF PolicyNext

(* So what is loaded can import what it names, the two checkers agree in the direction that
   matters, and the file handed out is the one that was checked. *)
LEMMA PolicyContains ==
    ASSUME PolicyInv, PolicyAssumption
    PROVE  LoadedIsImportable /\ AstIsStricter /\ OpenedIsInside
  <1>1. LoadedIsImportable BY StaticNeverWider DEF PolicyInv, LoadedIsImportable, StaticViolation
  <1>2. AstIsStricter BY AstNeverWider DEF PolicyInv, AstIsStricter
  <1>3. OpenedIsInside BY DEF PolicyInv, OpenedIsInside
  <1> QED BY <1>1, <1>2, <1>3

----------------------------------------
(* The data caches. *)

CachedShape ==
    /\ cpKind \in CacheKinds /\ cpUpstream \in Nat /\ cpSeen \in Nat /\ cpTime \in Nat
    /\ cpEntry \in [at : Nat, value : Nat]
    /\ cpReader \in [Readers -> [pc : {"idle", "fetch", "store", "got"}, value : Nat, at : Nat]]
    /\ cpLock \in Readers \cup {"free"}

(* Nothing is newer than what the provider has. *)
NotAhead ==
    /\ cpEntry.value <= cpUpstream /\ cpSeen <= cpUpstream
    /\ \A r \in Readers : cpReader[r].value <= cpUpstream

(* Under the key's lock one reader fetches, and what it is about to store is as new as
   what anybody was given; so is what is stored. *)
FetchedUnderLock ==
    cpKind = "locked" =>
      /\ \A r \in Readers : cpReader[r].pc \in {"fetch", "store"} <=> cpLock = r
      /\ \A r \in Readers : cpReader[r].pc = "store" =>
            /\ cpReader[r].value >= cpSeen
            /\ \A q \in Readers : cpReader[q].pc = "got" => cpReader[r].value >= cpReader[q].value
      /\ cpEntry # NoEntry =>
            /\ cpEntry.value >= cpSeen
            /\ \A q \in Readers : cpReader[q].pc = "got" => cpEntry.value >= cpReader[q].value

CachedInv == CachedShape /\ NotAhead /\ FetchedUnderLock

(* The invariant of the wrappers holds at the start. *)
LEMMA CachedStarts ==
    ASSUME CachedInit
    PROVE  CachedInv
  <1>1. IdleReader \in [pc : {"idle", "fetch", "store", "got"}, value : Nat, at : Nat]
    BY DEF IdleReader
  <1>2. NoEntry \in [at : Nat, value : Nat] BY DEF NoEntry
  <1>3. CachedShape BY <1>1, <1>2 DEF CachedInit, CachedShape
  <1> QED
    BY <1>3, CachedAssumption DEF CachedInit, CachedInv, NotAhead, FetchedUnderLock, IdleReader, NoEntry

(* Every reader's part of the state that the invariant speaks of follows from its new record. *)
LEMMA ReaderChanges ==
    ASSUME CachedInv, NEW r \in Readers,
           NEW n \in [pc : {"idle", "fetch", "store", "got"}, value : Nat, at : Nat],
           cpReader' = [cpReader EXCEPT ![r] = n]
    PROVE  /\ cpReader' \in [Readers -> [pc : {"idle", "fetch", "store", "got"}, value : Nat, at : Nat]]
           /\ cpReader'[r] = n /\ \A q \in Readers : q # r => cpReader'[q] = cpReader[q]
  BY DEF CachedInv, CachedShape

(* A lookup returns a fresh entry or begins the fetch. *)
LEMMA ReadEntryKeeps ==
    ASSUME CachedInv, NEW r \in Readers, ReadEntry(r)
    PROVE  CachedInv'
  <1> DEFINE hit == [pc |-> "got", value |-> cpEntry.value, at |-> cpEntry.at]
             miss == [IdleReader EXCEPT !.pc = "fetch"]
  <1>1. /\ hit \in [pc : {"idle", "fetch", "store", "got"}, value : Nat, at : Nat]
        /\ hit.pc = "got" /\ hit.value = cpEntry.value
    BY DEF CachedInv, CachedShape
  <1>2. /\ miss \in [pc : {"idle", "fetch", "store", "got"}, value : Nat, at : Nat]
        /\ miss.pc = "fetch" /\ miss.value = 0
    BY DEF IdleReader
  <1>3. NoEntry \in [at : Nat, value : Nat] /\ NoEntry.value = 0 BY DEF NoEntry
  <1>4. /\ UNCHANGED <<cpKind, cpUpstream, cpTime, cpSeen>>
        /\ cpReader[r].pc = "idle" /\ (cpKind = "locked" => cpLock = "free")
        /\ \/ cpEntry # NoEntry /\ cpReader' = [cpReader EXCEPT ![r] = hit] /\ UNCHANGED <<cpEntry, cpLock>>
           \/ /\ cpEntry' = NoEntry /\ cpReader' = [cpReader EXCEPT ![r] = miss]
              /\ cpLock' = IF cpKind = "locked" THEN r ELSE cpLock
    BY CachedAssumption DEF ReadEntry, LockFor
  <1> HIDE DEF hit, miss
  <1>5. CASE cpEntry # NoEntry /\ cpReader' = [cpReader EXCEPT ![r] = hit] /\ UNCHANGED <<cpEntry, cpLock>>
   <2>1. /\ cpReader' \in [Readers -> [pc : {"idle", "fetch", "store", "got"}, value : Nat, at : Nat]]
         /\ cpReader'[r] = hit /\ \A q \in Readers : q # r => cpReader'[q] = cpReader[q]
     BY <1>1, <1>5, ReaderChanges
   <2>2. CachedShape' /\ NotAhead' BY <1>1, <1>4, <1>5, <2>1 DEF CachedInv, CachedShape, NotAhead
   <2>3. FetchedUnderLock'
     BY <1>1, <1>4, <1>5, <2>1, CachedAssumption DEF CachedInv, FetchedUnderLock
   <2> QED BY <2>2, <2>3 DEF CachedInv
  <1>6. CASE /\ cpEntry' = NoEntry /\ cpReader' = [cpReader EXCEPT ![r] = miss]
             /\ cpLock' = IF cpKind = "locked" THEN r ELSE cpLock
   <2>1. /\ cpReader' \in [Readers -> [pc : {"idle", "fetch", "store", "got"}, value : Nat, at : Nat]]
         /\ cpReader'[r] = miss /\ \A q \in Readers : q # r => cpReader'[q] = cpReader[q]
     BY <1>2, <1>6, ReaderChanges
   <2>2. CachedShape' /\ NotAhead'
     BY <1>2, <1>3, <1>4, <1>6, <2>1 DEF CachedInv, CachedShape, NotAhead
   <2>3. FetchedUnderLock'
     BY <1>2, <1>4, <1>6, <2>1, CachedAssumption DEF CachedInv, FetchedUnderLock
   <2> QED BY <2>2, <2>3 DEF CachedInv
  <1> QED BY <1>4, <1>5, <1>6

(* The provider's answer is as new as anything. *)
LEMMA UpstreamKeeps ==
    ASSUME CachedInv, NEW r \in Readers, UpstreamAnswers(r) \/ UpstreamRaises(r)
    PROVE  CachedInv'
  <1> DEFINE got == [pc |-> "store", value |-> cpUpstream, at |-> 0]
  <1>1. /\ got \in [pc : {"idle", "fetch", "store", "got"}, value : Nat, at : Nat]
        /\ got.pc = "store" /\ got.value = cpUpstream
    BY DEF CachedInv, CachedShape
  <1>2. /\ IdleReader \in [pc : {"idle", "fetch", "store", "got"}, value : Nat, at : Nat]
        /\ IdleReader.pc = "idle" /\ IdleReader.value = 0
    BY DEF IdleReader
  <1>3. /\ UNCHANGED <<cpKind, cpEntry, cpUpstream, cpTime, cpSeen>> /\ cpReader[r].pc = "fetch"
        /\ \/ cpReader' = [cpReader EXCEPT ![r] = got] /\ cpLock' = cpLock
           \/ /\ cpReader' = [cpReader EXCEPT ![r] = IdleReader]
              /\ cpLock' = IF cpLock = r THEN "free" ELSE cpLock
    BY DEF UpstreamAnswers, UpstreamRaises
  <1> HIDE DEF got
  <1>4. CASE cpReader' = [cpReader EXCEPT ![r] = got] /\ cpLock' = cpLock
   <2>1. /\ cpReader' \in [Readers -> [pc : {"idle", "fetch", "store", "got"}, value : Nat, at : Nat]]
         /\ cpReader'[r] = got /\ \A q \in Readers : q # r => cpReader'[q] = cpReader[q]
     BY <1>1, <1>4, ReaderChanges
   <2>2. CachedShape' /\ NotAhead' BY <1>1, <1>3, <1>4, <2>1 DEF CachedInv, CachedShape, NotAhead
   <2>3. \A q \in Readers : cpReader[q].value \in Nat /\ cpReader[q].value <= cpUpstream
     BY DEF CachedInv, CachedShape, NotAhead
   <2>4. FetchedUnderLock' BY <1>1, <1>3, <1>4, <2>1, <2>3 DEF CachedInv, NotAhead, FetchedUnderLock
   <2> QED BY <2>2, <2>4 DEF CachedInv
  <1>5. CASE /\ cpReader' = [cpReader EXCEPT ![r] = IdleReader]
             /\ cpLock' = IF cpLock = r THEN "free" ELSE cpLock
   <2>1. /\ cpReader' \in [Readers -> [pc : {"idle", "fetch", "store", "got"}, value : Nat, at : Nat]]
         /\ cpReader'[r] = IdleReader /\ \A q \in Readers : q # r => cpReader'[q] = cpReader[q]
     BY <1>2, <1>5, ReaderChanges
   <2>2. CachedShape' /\ NotAhead' BY <1>2, <1>3, <1>5, <2>1 DEF CachedInv, CachedShape, NotAhead
   <2>3. FetchedUnderLock'
     BY <1>2, <1>3, <1>5, <2>1, CachedAssumption DEF CachedInv, FetchedUnderLock
   <2> QED BY <2>2, <2>3 DEF CachedInv
  <1> QED BY <1>3, <1>4, <1>5

(* What is stored is what was fetched under the lock. *)
LEMMA StoreKeeps ==
    ASSUME CachedInv, NEW r \in Readers, Store(r)
    PROVE  CachedInv'
  <1> DEFINE n == [cpReader[r] EXCEPT !.pc = "got", !.at = cpTime]
             e == [at |-> cpTime, value |-> cpReader[r].value]
  <1>1. cpReader[r] \in [pc : {"idle", "fetch", "store", "got"}, value : Nat, at : Nat] /\ cpTime \in Nat
    BY DEF CachedInv, CachedShape
  <1>2. /\ n \in [pc : {"idle", "fetch", "store", "got"}, value : Nat, at : Nat]
        /\ n.pc = "got" /\ n.value = cpReader[r].value
    BY <1>1
  <1>3. e \in [at : Nat, value : Nat] /\ e.value = cpReader[r].value BY <1>1
  <1>4. /\ UNCHANGED <<cpKind, cpUpstream, cpTime, cpSeen>> /\ cpReader[r].pc = "store"
        /\ cpEntry' = e /\ cpReader' = [cpReader EXCEPT ![r] = n]
        /\ cpLock' = IF cpLock = r THEN "free" ELSE cpLock
    BY DEF Store
  <1> HIDE DEF n, e
  <1>5. /\ cpReader' \in [Readers -> [pc : {"idle", "fetch", "store", "got"}, value : Nat, at : Nat]]
        /\ cpReader'[r] = n /\ \A q \in Readers : q # r => cpReader'[q] = cpReader[q]
    BY <1>2, <1>4, ReaderChanges
  <1>6. CachedShape' /\ NotAhead' BY <1>2, <1>3, <1>4, <1>5 DEF CachedInv, CachedShape, NotAhead
  <1>7. FetchedUnderLock'
    BY <1>1, <1>2, <1>3, <1>4, <1>5, CachedAssumption DEF CachedInv, FetchedUnderLock
  <1> QED BY <1>6, <1>7 DEF CachedInv

(* A caller gets its answer. *)
LEMMA ReturnKeeps ==
    ASSUME CachedInv, NEW r \in Readers, ReaderReturns(r)
    PROVE  CachedInv'
  <1>1. /\ IdleReader \in [pc : {"idle", "fetch", "store", "got"}, value : Nat, at : Nat]
        /\ IdleReader.pc = "idle" /\ IdleReader.value = 0
    BY DEF IdleReader
  <1>2. /\ cpReader' \in [Readers -> [pc : {"idle", "fetch", "store", "got"}, value : Nat, at : Nat]]
        /\ cpReader'[r] = IdleReader /\ \A q \in Readers : q # r => cpReader'[q] = cpReader[q]
    BY <1>1, ReaderChanges DEF ReaderReturns
  <1>3. /\ UNCHANGED <<cpKind, cpEntry, cpLock, cpUpstream, cpTime>> /\ cpReader[r].pc = "got"
        /\ cpSeen' = IF cpReader[r].value > cpSeen THEN cpReader[r].value ELSE cpSeen
    BY DEF ReaderReturns
  <1>4. \A q \in Readers : cpReader[q].value \in Nat BY DEF CachedInv, CachedShape
  <1>5. CachedShape' /\ NotAhead' BY <1>1, <1>2, <1>3, <1>4 DEF CachedInv, CachedShape, NotAhead
  <1>6. FetchedUnderLock'
    BY <1>1, <1>2, <1>3, <1>4, CachedAssumption DEF CachedInv, FetchedUnderLock
  <1> QED BY <1>5, <1>6 DEF CachedInv

(* Every step of the wrappers keeps the invariant. *)
LEMMA CachedSteps ==
    ASSUME CachedInv, [CachedNext]_cpVars
    PROVE  CachedInv'
  <1>1. NoEntry \in [at : Nat, value : Nat] /\ NoEntry.value = 0 BY DEF NoEntry
  <1>2. CASE ClearCache
    BY <1>1, <1>2 DEF ClearCache, CachedInv, CachedShape, NotAhead, FetchedUnderLock
  <1>3. CASE DataMoves
   <2>1. \A q \in Readers : cpReader[q].value \in Nat BY DEF CachedInv, CachedShape
   <2> QED BY <1>3, <2>1 DEF DataMoves, CachedInv, CachedShape, NotAhead, FetchedUnderLock
  <1>4. CASE CacheClock BY <1>4 DEF CacheClock, CachedInv, CachedShape, NotAhead, FetchedUnderLock
  <1>5. CASE UNCHANGED cpVars BY <1>5 DEF cpVars, CachedInv, CachedShape, NotAhead, FetchedUnderLock
  <1> QED
    BY <1>2, <1>3, <1>4, <1>5, ReadEntryKeeps, UpstreamKeeps, StoreKeeps, ReturnKeeps DEF CachedNext

(* So one fetch runs per key and the cache moves forward. *)
LEMMA CachedServes ==
    ASSUME CachedInv
    PROVE  OneFetchPerKey /\ CacheMovesForward
  <1>1. ASSUME cpKind = "locked"
        PROVE  Cardinality(Fetching) <= 1
   <2>1. Fetching = {} \/ Fetching = {cpLock} BY <1>1 DEF CachedInv, FetchedUnderLock, Fetching
   <2>2. Cardinality({}) = 0 /\ Cardinality({cpLock}) = 1 BY FS_EmptySet, FS_Singleton
   <2> QED BY <2>1, <2>2
  <1>2. CacheMovesForward BY DEF CachedInv, FetchedUnderLock, CacheMovesForward
  <1> QED BY <1>1, <1>2 DEF OneFetchPerKey

----------------------------------------
(* The Yahoo client. *)

YahooShape ==
    /\ yfMade \in Nat /\ yfMade >= 2
    /\ yfFetch \in [Fetches -> [pc : {"idle", "get"}, arg : {0, CallersOwn}, uses : Nat]]
    /\ \A f \in Fetches : yfFetch[f].pc = "idle" => yfFetch[f].uses = 0
    /\ 0 \notin yfOpen

(* A fetch that was given a client uses it; the others never use the caller's own. *)
ClientsInUse ==
    /\ yfClient \in {0, Injected}
    /\ \A f \in Fetches : yfFetch[f].arg # 0 => yfFetch[f].uses = CallersOwn
    /\ \A f \in Fetches : yfFetch[f].arg = 0 => yfFetch[f].uses # CallersOwn

YahooInv == YahooShape /\ ClientsInUse /\ NoClientLeaks

(* The invariant of the client holds at the start. *)
LEMMA YahooStarts ==
    ASSUME YahooInit
    PROVE  YahooInv
  <1>1. /\ IdleFetch \in [pc : {"idle", "get"}, arg : {0, CallersOwn}, uses : Nat]
        /\ IdleFetch.arg = 0 /\ IdleFetch.uses = 0
    BY DEF IdleFetch
  <1> QED
    BY <1>1 DEF YahooInit, YahooInv, YahooShape, ClientsInUse, NoClientLeaks, Injected, CallersOwn

(* A fetch begins over a client made for it, over the injected one, or over the caller's. *)
LEMMA FetchBeginsKeeps ==
    ASSUME YahooInv, NEW f \in Fetches, NEW arg \in {0, CallersOwn}, FetchBegins(f, arg)
    PROVE  YahooInv'
  <1> DEFINE made == [pc |-> "get", arg |-> 0, uses |-> yfMade + 1]
             uses == IF arg # 0 THEN arg ELSE yfClient
             given == [pc |-> "get", arg |-> arg, uses |-> uses]
  <1>1. /\ made \in [pc : {"idle", "get"}, arg : {0, CallersOwn}, uses : Nat]
        /\ made.pc = "get" /\ made.arg = 0 /\ made.uses = yfMade + 1
    BY DEF YahooInv, YahooShape
  <1>2. /\ uses \in Nat /\ (arg # 0 => uses = CallersOwn) /\ (arg = 0 => uses # CallersOwn)
        /\ uses \in {Injected, CallersOwn, 0}
    BY DEF YahooInv, ClientsInUse, CallersOwn, Injected
  <1> HIDE DEF uses
  <1>3. /\ given \in [pc : {"idle", "get"}, arg : {0, CallersOwn}, uses : Nat]
        /\ given.pc = "get" /\ given.arg = arg /\ given.uses = uses
    BY <1>2
  <1>4. /\ yfFetch[f].pc = "idle" /\ yfClient' = yfClient
        /\ \/ /\ yfMade' = yfMade + 1 /\ yfOpen' = yfOpen \cup {yfMade + 1}
              /\ yfFetch' = [yfFetch EXCEPT ![f] = made]
           \/ yfFetch' = [yfFetch EXCEPT ![f] = given] /\ yfMade' = yfMade /\ yfOpen' = yfOpen
    BY DEF FetchBegins, uses
  <1> HIDE DEF made, given
  <1>5. \A x \in yfOpen \ {Injected, CallersOwn} : \E g \in Fetches : yfFetch[g].uses = x /\ g # f
    BY <1>4 DEF YahooInv, YahooShape, NoClientLeaks
  <1>6. CASE /\ yfMade' = yfMade + 1 /\ yfOpen' = yfOpen \cup {yfMade + 1}
             /\ yfFetch' = [yfFetch EXCEPT ![f] = made]
   <2>1. /\ yfFetch' \in [Fetches -> [pc : {"idle", "get"}, arg : {0, CallersOwn}, uses : Nat]]
         /\ yfFetch'[f] = made /\ \A g \in Fetches : g # f => yfFetch'[g] = yfFetch[g]
     BY <1>1, <1>6 DEF YahooInv, YahooShape
   <2>2. YahooShape' BY <1>1, <1>6, <2>1 DEF YahooInv, YahooShape
   <2>3. yfMade + 1 # CallersOwn BY DEF YahooInv, YahooShape, CallersOwn
   <2>4. ClientsInUse' BY <1>1, <1>4, <2>1, <2>3 DEF YahooInv, ClientsInUse
   <2>5. \A x \in yfOpen' \ {Injected, CallersOwn} : \E g \in Fetches : yfFetch'[g].uses = x
     BY <1>1, <1>5, <1>6, <2>1
   <2>6. NoClientLeaks' BY <1>6, <2>5 DEF YahooInv, NoClientLeaks
   <2> QED BY <2>2, <2>4, <2>6 DEF YahooInv
  <1>7. CASE yfFetch' = [yfFetch EXCEPT ![f] = given] /\ yfMade' = yfMade /\ yfOpen' = yfOpen
   <2>1. /\ yfFetch' \in [Fetches -> [pc : {"idle", "get"}, arg : {0, CallersOwn}, uses : Nat]]
         /\ yfFetch'[f] = given /\ \A g \in Fetches : g # f => yfFetch'[g] = yfFetch[g]
     BY <1>3, <1>7 DEF YahooInv, YahooShape
   <2>2. YahooShape' BY <1>3, <1>7, <2>1 DEF YahooInv, YahooShape
   <2>4. ClientsInUse' BY <1>2, <1>3, <1>4, <2>1 DEF YahooInv, ClientsInUse
   <2>5. \A x \in yfOpen' \ {Injected, CallersOwn} : \E g \in Fetches : yfFetch'[g].uses = x
     BY <1>5, <1>7, <2>1
   <2>6. NoClientLeaks' BY <1>7, <2>5 DEF YahooInv, NoClientLeaks
   <2> QED BY <2>2, <2>4, <2>6 DEF YahooInv
  <1> QED BY <1>4, <1>6, <1>7

(* A fetch ends: a client made for it is closed. *)
LEMMA FetchEndsKeeps ==
    ASSUME YahooInv, NEW f \in Fetches, FetchEnds(f)
    PROVE  YahooInv'
  <1>1. /\ IdleFetch \in [pc : {"idle", "get"}, arg : {0, CallersOwn}, uses : Nat]
        /\ IdleFetch.pc = "idle" /\ IdleFetch.arg = 0 /\ IdleFetch.uses = 0
    BY DEF IdleFetch
  <1>2. /\ yfOpen' = yfOpen \ Closed(f) /\ yfFetch' = [yfFetch EXCEPT ![f] = IdleFetch]
        /\ UNCHANGED <<yfClient, yfMade>>
    BY DEF FetchEnds
  <1>3. /\ yfFetch' \in [Fetches -> [pc : {"idle", "get"}, arg : {0, CallersOwn}, uses : Nat]]
        /\ yfFetch'[f] = IdleFetch /\ \A g \in Fetches : g # f => yfFetch'[g] = yfFetch[g]
    BY <1>1, <1>2 DEF YahooInv, YahooShape
  <1>4. YahooShape' BY <1>1, <1>2, <1>3 DEF YahooInv, YahooShape
  <1>5. ClientsInUse' BY <1>1, <1>2, <1>3 DEF YahooInv, ClientsInUse, CallersOwn
  <1>6. ASSUME NEW x \in yfOpen' \ {Injected, CallersOwn}
        PROVE  \E g \in Fetches : yfFetch'[g].uses = x
   <2>1. PICK g \in Fetches : yfFetch[g].uses = x
     BY <1>2 DEF YahooInv, NoClientLeaks
   <2>2. g # f BY <1>2, <2>1 DEF YahooInv, ClientsInUse, Closed
   <2> QED BY <1>3, <2>1, <2>2
  <1>7. CallersOwn \in yfOpen' BY <1>2 DEF YahooInv, ClientsInUse, NoClientLeaks, Closed
  <1>8. NoClientLeaks' BY <1>6, <1>7 DEF NoClientLeaks
  <1> QED BY <1>4, <1>5, <1>8 DEF YahooInv

(* Every step of the client keeps the invariant, NoClientLeaks with it. *)
LEMMA YahooSteps ==
    ASSUME YahooInv, [YahooNext]_yfVars
    PROVE  YahooInv'
  <1>1. CASE OtherWindow BY <1>1 DEF OtherWindow, YahooInv, YahooShape, ClientsInUse, NoClientLeaks
  <1>2. CASE ProviderCloses
    BY <1>2 DEF ProviderCloses, YahooInv, YahooShape, ClientsInUse, NoClientLeaks, Injected, CallersOwn
  <1>3. CASE UNCHANGED yfVars BY <1>3 DEF yfVars, YahooInv, YahooShape, ClientsInUse, NoClientLeaks
  <1> QED BY <1>1, <1>2, <1>3, FetchBeginsKeeps, FetchEndsKeeps DEF YahooNext

----------------------------------------
(* Retention. *)

RetentionShape ==
    /\ reDay \in Nat /\ rePolicy \in Policies
    /\ reRecords \in [RecordIds -> Int] /\ reState \in [RecordIds -> {"plain", "compressed", "deleted"}]
    /\ rePass \in [day : Nat \cup {Never}, left : SUBSET RecordIds]
    /\ rePass.day <= reDay /\ (rePass.left # {} => rePass.day # Never)

(* What was done to a record was due on the day of the latest pass, and what that pass has
   done is what was due. *)
DoneWhenDue ==
    /\ \A r \in RecordIds :
          /\ reState[r] = "deleted" =>
                rePass.day # Never /\ Expired(reRecords[r], rePolicy, rePass.day)
          /\ reState[r] = "compressed" =>
                /\ rePass.day # Never /\ rePolicy.compress # Never
                /\ rePass.day - reRecords[r] > rePolicy.compress
    /\ \A r \in RecordIds : rePass.day # Never /\ r \notin rePass.left =>
          reState[r] = DecideAction(reRecords[r], rePolicy, rePass.day)

RetentionInv == RetentionShape /\ DoneWhenDue

(* The invariant of retention holds at the start. *)
LEMMA RetentionStarts ==
    ASSUME RetentionInit
    PROVE  RetentionInv
  <1>1. reRecords \in [RecordIds -> Int] BY DEF RetentionInit
  <1> QED BY <1>1 DEF RetentionInit, RetentionInv, RetentionShape, DoneWhenDue, Never

(* A policy's days are numbers. *)
LEMMA PolicyDays ==
    ASSUME RetentionInv
    PROVE  rePolicy.retain \in Int /\ rePolicy.compress \in Int
  BY RetentionAssumption DEF RetentionInv, RetentionShape, Never

(* Every step of a pass keeps the invariant: a batch does what is due. *)
LEMMA RetentionSteps ==
    ASSUME RetentionInv, [RetentionNext]_reVars
    PROVE  RetentionInv'
  <1>1. /\ reDay \in Nat /\ \A r \in RecordIds : reRecords[r] \in Int
        /\ rePass.day \in Int /\ rePass.day <= reDay
        /\ rePolicy.retain \in Int /\ rePolicy.compress \in Int
    BY PolicyDays DEF RetentionInv, RetentionShape, Never
  <1>2. CASE StartPass
   <2>1. /\ rePass' = [day |-> reDay, left |-> RecordIds]
         /\ UNCHANGED <<reDay, rePolicy, reRecords, reState>>
     BY <1>2 DEF StartPass
   <2>2. RetentionShape' BY <1>1, <2>1 DEF RetentionInv, RetentionShape, Never
   <2>3. rePass'.day = reDay /\ rePass'.left = RecordIds BY <2>1
   <2>4. DoneWhenDue' BY <1>1, <2>1, <2>3 DEF RetentionInv, DoneWhenDue, Expired, Never
   <2> QED BY <2>2, <2>4 DEF RetentionInv
  <1>3. CASE RetentionDay
    BY <1>1, <1>3 DEF RetentionDay, RetentionInv, RetentionShape, DoneWhenDue, DecideAction, Expired, Compressible
  <1>4. ASSUME NEW batch \in SUBSET RecordIds, SweepBatch(batch)
        PROVE  RetentionInv'
   <2> DEFINE cutD == CleanupWindow(rePolicy, rePass.day).delete
              cutC == CleanupWindow(rePolicy, rePass.day).compress
              swept(r) == IF rePolicy.retain # Never /\ reRecords[r] < cutD THEN "deleted"
                          ELSE IF rePolicy.compress # Never /\ reRecords[r] < cutC THEN "compressed"
                          ELSE reState[r]
   <2>1. /\ batch # {} /\ batch \subseteq rePass.left
         /\ reState' = [r \in RecordIds |-> IF r \in batch THEN swept(r) ELSE reState[r]]
         /\ rePass' = [rePass EXCEPT !.left = @ \ batch]
         /\ UNCHANGED <<reDay, rePolicy, reRecords>>
     BY <1>4 DEF SweepBatch
   <2>2. /\ rePolicy.retain # Never => cutD = rePass.day - rePolicy.retain
         /\ rePolicy.compress # Never => cutC = rePass.day - rePolicy.compress
     BY DEF CleanupWindow
   <2>3. /\ rePass' \in [day : Nat \cup {Never}, left : SUBSET RecordIds]
         /\ rePass'.day = rePass.day /\ rePass'.left = rePass.left \ batch
     BY <2>1 DEF RetentionInv, RetentionShape
   <2>4. rePass.day # Never /\ rePass.day \in Nat BY <2>1 DEF RetentionInv, RetentionShape
   <2>5. ASSUME NEW r \in RecordIds
         PROVE  /\ swept(r) \in {"plain", "compressed", "deleted"}
                /\ swept(r) = DecideAction(reRecords[r], rePolicy, rePass.day)
    <3>1. /\ reState[r] \in {"plain", "compressed", "deleted"}
          /\ reState[r] = "deleted" => Expired(reRecords[r], rePolicy, rePass.day)
          /\ reState[r] = "compressed" => /\ rePolicy.compress # Never
                                          /\ rePass.day - reRecords[r] > rePolicy.compress
      BY DEF RetentionInv, RetentionShape, DoneWhenDue
    <3> QED BY <1>1, <2>2, <2>4, <3>1 DEF DecideAction, Expired, Compressible
   <2> HIDE DEF swept, cutD, cutC
   <2>6. /\ \A r \in RecordIds : reState'[r] = IF r \in batch THEN swept(r) ELSE reState[r]
         /\ reState' \in [RecordIds -> {"plain", "compressed", "deleted"}]
     BY <2>1, <2>5 DEF RetentionInv, RetentionShape
   <2>7. \A r \in RecordIds : r \notin rePass.left => reState[r] = DecideAction(reRecords[r], rePolicy, rePass.day)
     BY <2>4 DEF RetentionInv, DoneWhenDue
   <2>8. RetentionShape' BY <1>1, <2>1, <2>3, <2>4, <2>6 DEF RetentionInv, RetentionShape
   <2>9. \A r \in RecordIds : r \notin rePass'.left => reState'[r] = DecideAction(reRecords[r], rePolicy, rePass.day)
     BY <2>3, <2>5, <2>6, <2>7
   <2>10. ASSUME NEW r \in RecordIds
          PROVE  /\ reState'[r] = "deleted" => Expired(reRecords[r], rePolicy, rePass.day)
                 /\ reState'[r] = "compressed" =>
                       rePolicy.compress # Never /\ rePass.day - reRecords[r] > rePolicy.compress
    <3>1. CASE r \in batch BY <2>5, <2>6, <3>1 DEF DecideAction, Compressible
    <3>2. CASE r \notin batch BY <2>6, <3>2 DEF RetentionInv, DoneWhenDue
    <3> QED BY <3>1, <3>2
   <2>11. DoneWhenDue'
     BY <2>1, <2>3, <2>4, <2>9, <2>10 DEF DoneWhenDue, DecideAction, Expired, Compressible
   <2> QED BY <2>8, <2>11 DEF RetentionInv
  <1>5. CASE UNCHANGED reVars
    BY <1>5 DEF reVars, RetentionInv, RetentionShape, DoneWhenDue, DecideAction, Expired, Compressible
  <1> QED BY <1>2, <1>3, <1>4, <1>5 DEF RetentionNext

(* How many slices of a width cover some days: the last one ends at or after them, and all
   before it end within. *)
LEMMA SliceCount ==
    ASSUME NEW d \in Nat, d > 0, NEW c \in Nat \ {0}, NEW n, n = (d + c - 1) \div c
    PROVE  n \in Nat /\ n >= 1 /\ n * c >= d /\ (n - 1) * c < d
  <1>1. d + c - 1 \in Nat /\ c > 0 OBVIOUS
  <1>2. n \in Int /\ c * n <= d + c - 1 /\ d + c - 1 < c * n + c BY <1>1
  <1>3. n * c >= d /\ (n - 1) * c < d BY <1>2
  <1>4. n >= 1
   <2> SUFFICES ASSUME n <= 0 PROVE FALSE
     BY <1>2
   <2>1. n * c <= 0 BY <1>2
   <2> QED BY <1>3, <2>1
  <1> QED BY <1>2, <1>3, <1>4

(* A multiple grows with its factor. *)
LEMMA SliceOrder ==
    ASSUME NEW i \in Int, NEW j \in Int, i <= j, NEW c \in Nat
    PROVE  i * c <= j * c
  OBVIOUS

(* The slices of a horizon follow each other without gap or overlap up to the day. *)
LEMMA SlicesCover ==
    ASSUME NEW p, p.retain \in Nat \cup {Never}, p.compress \in Nat \cup {Never}, NEW now \in Nat,
           NEW s, s = Slices(p, now), s # <<>>
    PROVE  /\ s[Len(s)][2] = now /\ \A i \in DOMAIN s : s[i][1] < s[i][2]
           /\ \A i \in 1 .. Len(s) - 1 : s[i][2] = s[i + 1][1]
  <1> DEFINE days == IF p.retain # Never THEN p.retain ELSE p.compress
             first == now - days
             n == (days + ChunkDays - 1) \div ChunkDays
             from(i) == first + (i - 1) * ChunkDays
             end(i) == IF first + i * ChunkDays < now THEN first + i * ChunkDays ELSE now
  <1>1. days > 0 /\ days \in Nat /\ s = [i \in 1..n |-> <<from(i), end(i)>>] BY DEF Slices, Never
  <1>2. ChunkDays \in Nat \ {0} BY RetentionAssumption
  <1> HIDE DEF days
  <1>3. n \in Nat /\ n >= 1 /\ n * ChunkDays >= days /\ (n - 1) * ChunkDays < days
    BY <1>1, <1>2, SliceCount
  <1> HIDE DEF n
  <1>4. Len(s) = n /\ DOMAIN s = 1..n BY <1>1, <1>3
  <1>5. ASSUME NEW i \in 1..n
        PROVE  from(i) < now /\ from(i) < first + i * ChunkDays /\ from(i) \in Int
   <2>1. (i - 1) * ChunkDays <= (n - 1) * ChunkDays BY <1>2, <1>3, SliceOrder
   <2>2. (i - 1) * ChunkDays \in Int /\ i * ChunkDays = (i - 1) * ChunkDays + ChunkDays
     BY <1>2, <1>3
   <2> DEFINE x == (i - 1) * ChunkDays
              y == (n - 1) * ChunkDays
              z == i * ChunkDays
   <2>3. y \in Int /\ x \in Int /\ z = x + ChunkDays /\ x <= y /\ y < days BY <1>2, <1>3, <2>1, <2>2
   <2>4. from(i) = first + x OBVIOUS
   <2> HIDE DEF x, y, from
   <2>5. from(i) < now /\ from(i) < first + z /\ from(i) \in Int
    <3> HIDE DEF z
    <3> QED BY <1>1, <1>2, <2>3, <2>4
   <2> QED BY <2>5
  <1>6. end(n) = now
   <2>1. n * ChunkDays \in Int BY <1>2, <1>3
   <2> QED BY <1>1, <1>3, <2>1
  <1>7. ASSUME NEW i \in 1..(n - 1)
        PROVE  end(i) = from(i + 1)
   <2>1. i + 1 \in 1..n /\ (i + 1) - 1 = i BY <1>3
   <2>2. from(i + 1) < now BY <1>5, <2>1
   <2> QED BY <2>1, <2>2
  <1>8. \A i \in 1..n : from(i) < end(i) BY <1>5
  <1> HIDE DEF from, end
  <1>9. \A i \in 1..n : s[i][1] = from(i) /\ s[i][2] = end(i) BY <1>1
  <1>10. n \in 1..n /\ \A i \in 1..(n - 1) : i \in 1..n /\ i + 1 \in 1..n BY <1>3
  <1> QED BY <1>4, <1>6, <1>7, <1>8, <1>9, <1>10

(* So records are treated as their age asks. *)
LEMMA RetentionFollows ==
    ASSUME RetentionInv
    PROVE  RetentionFollowsAge
  <1>1. ASSUME NEW r \in RecordIds, reState[r] = "deleted"
        PROVE  Expired(reRecords[r], rePolicy, reDay)
   <2>1. /\ Expired(reRecords[r], rePolicy, rePass.day) /\ reRecords[r] \in Int /\ reDay \in Nat
         /\ rePass.day \in Int /\ rePass.day <= reDay
     BY <1>1 DEF RetentionInv, RetentionShape, DoneWhenDue, Never
   <2> QED BY <2>1, PolicyDays DEF Expired
  <1> DEFINE s == Slices(rePolicy, reDay)
  <1>2. s # <<>> => /\ s[Len(s)][2] = reDay /\ \A i \in DOMAIN s : s[i][1] < s[i][2]
                    /\ \A i \in 1 .. Len(s) - 1 : s[i][2] = s[i + 1][1]
   <2>1. rePolicy.retain \in Nat \cup {Never} /\ rePolicy.compress \in Nat \cup {Never} /\ reDay \in Nat
     BY RetentionAssumption DEF RetentionInv, RetentionShape
   <2> QED BY <2>1, SlicesCover
  <1> QED BY <1>1, <1>2 DEF RetentionInv, DoneWhenDue, RetentionFollowsAge

----------------------------------------
(* The cache of history files. *)

KeysOf(s) == {s[i].key : i \in DOMAIN s}
DistinctKeys(s) == \A i, j \in DOMAIN s : s[i].key = s[j].key => i = j

(* An entry taken out takes its key with it and leaves the others. *)
LEMMA EntryRemoved ==
    ASSUME NEW E, NEW s \in Seq(E), DistinctKeys(s), NEW i \in DOMAIN s
    PROVE  /\ RemoveAt(s, i) \in Seq(E) /\ Len(RemoveAt(s, i)) = Len(s) - 1
           /\ KeysOf(RemoveAt(s, i)) = KeysOf(s) \ {s[i].key} /\ DistinctKeys(RemoveAt(s, i))
  <1>1. i \in 1..Len(s) /\ Len(s) \in Nat /\ DOMAIN s = 1..Len(s) OBVIOUS
  <1> DEFINE head == SubSeq(s, 1, i - 1)
             tail == SubSeq(s, i + 1, Len(s))
             r == RemoveAt(s, i)
  <1>2. /\ head \in Seq(E) /\ Len(head) = i - 1
        /\ \A n \in 1..(i - 1) : head[n] = s[n]
    BY <1>1
  <1>3. /\ tail \in Seq(E) /\ Len(tail) = Len(s) - i
        /\ \A n \in 1..(Len(s) - i) : tail[n] = s[n + i]
    BY <1>1
  <1>4. r = head \o tail BY DEF RemoveAt
  <1> HIDE DEF head, tail, r
  <1>5. /\ r \in Seq(E) /\ Len(r) = Len(s) - 1
        /\ \A n \in 1..(Len(s) - 1) : r[n] = IF n < i THEN s[n] ELSE s[n + 1]
   <2>1. /\ r \in Seq(E) /\ Len(r) = Len(head) + Len(tail)
         /\ \A n \in 1..(Len(head) + Len(tail)) :
               r[n] = IF n <= Len(head) THEN head[n] ELSE tail[n - Len(head)]
     BY <1>2, <1>3, <1>4, ConcatProperties
   <2>2. Len(head) + Len(tail) = Len(s) - 1 BY <1>1, <1>2, <1>3
   <2>3. ASSUME NEW n \in 1..(Len(s) - 1)
         PROVE  r[n] = IF n < i THEN s[n] ELSE s[n + 1]
    <3>1. r[n] = IF n <= i - 1 THEN head[n] ELSE tail[n - (i - 1)] BY <1>2, <2>1, <2>2
    <3>2. CASE n < i BY <1>1, <1>2, <3>1, <3>2
    <3>3. CASE ~(n < i)
     <4>1. n - (i - 1) \in 1..(Len(s) - i) /\ n - (i - 1) + i = n + 1 /\ ~(n <= i - 1) BY <1>1, <3>3
     <4> QED BY <1>3, <3>1, <3>3, <4>1
    <3> QED BY <3>2, <3>3
   <2> QED BY <2>1, <2>2, <2>3
  <1> DEFINE at(n) == IF n < i THEN n ELSE n + 1
  <1>6. DOMAIN r = 1..(Len(s) - 1) BY <1>5
  <1>7. \A n \in DOMAIN r : at(n) \in DOMAIN s /\ at(n) # i /\ r[n] = s[at(n)] BY <1>1, <1>5, <1>6
  <1>8. \A n, m \in DOMAIN r : at(n) = at(m) => n = m BY <1>1, <1>6
  <1>9. \A m \in DOMAIN s : m # i => \E n \in DOMAIN r : at(n) = m
   <2> TAKE m \in DOMAIN s
   <2> HAVE m # i
   <2> DEFINE n == IF m < i THEN m ELSE m - 1
   <2>1. n \in DOMAIN r /\ at(n) = m BY <1>1, <1>6
   <2> QED BY <2>1
  <1> HIDE DEF at
  <1>10. DistinctKeys(r) BY <1>7, <1>8 DEF DistinctKeys
  <1>11. KeysOf(r) \subseteq KeysOf(s) \ {s[i].key} BY <1>7 DEF KeysOf, DistinctKeys
  <1>12. KeysOf(s) \ {s[i].key} \subseteq KeysOf(r) BY <1>7, <1>9 DEF KeysOf
  <1> QED BY <1>5, <1>10, <1>11, <1>12 DEF r

(* An entry put at the end under a new key. *)
LEMMA EntryAppended ==
    ASSUME NEW E, NEW s \in Seq(E), DistinctKeys(s), NEW e \in E, e.key \notin KeysOf(s)
    PROVE  /\ Append(s, e) \in Seq(E) /\ Len(Append(s, e)) = Len(s) + 1
           /\ KeysOf(Append(s, e)) = KeysOf(s) \cup {e.key} /\ DistinctKeys(Append(s, e))
  <1> DEFINE r == Append(s, e)
  <1>1. /\ r \in Seq(E) /\ Len(r) = Len(s) + 1 /\ Len(s) \in Nat
        /\ DOMAIN s = 1..Len(s) /\ DOMAIN r = 1..(Len(s) + 1)
        /\ r[Len(s) + 1] = e /\ \A n \in 1..Len(s) : r[n] = s[n]
    OBVIOUS
  <1> HIDE DEF r
  <1>2. \A n \in DOMAIN r : n = Len(s) + 1 \/ (n \in DOMAIN s /\ r[n] = s[n]) BY <1>1
  <1>3. \A n \in DOMAIN s : n \in DOMAIN r /\ n # Len(s) + 1 BY <1>1
  <1>4. Len(s) + 1 \in DOMAIN r BY <1>1
  <1>5. DistinctKeys(r) BY <1>1, <1>2, <1>3 DEF DistinctKeys, KeysOf
  <1>6. KeysOf(r) \subseteq KeysOf(s) \cup {e.key} BY <1>1, <1>2 DEF KeysOf
  <1>7. KeysOf(s) \cup {e.key} \subseteq KeysOf(r) BY <1>1, <1>2, <1>3, <1>4 DEF KeysOf
  <1> QED BY <1>1, <1>5, <1>6, <1>7 DEF r

(* The oldest entry taken out. *)
LEMMA EntryEvicted ==
    ASSUME NEW E, NEW s \in Seq(E), DistinctKeys(s), s # <<>>
    PROVE  /\ Tail(s) \in Seq(E) /\ Len(Tail(s)) = Len(s) - 1
           /\ KeysOf(Tail(s)) = KeysOf(s) \ {Head(s).key} /\ DistinctKeys(Tail(s))
  <1> DEFINE r == Tail(s)
  <1>1. /\ r \in Seq(E) /\ Len(r) = Len(s) - 1 /\ Len(s) \in Nat \ {0}
        /\ DOMAIN s = 1..Len(s) /\ DOMAIN r = 1..(Len(s) - 1)
        /\ Head(s) = s[1] /\ \A n \in 1..(Len(s) - 1) : r[n] = s[n + 1]
    OBVIOUS
  <1> HIDE DEF r
  <1>2. \A n \in DOMAIN r : n + 1 \in DOMAIN s /\ n + 1 # 1 /\ r[n] = s[n + 1] BY <1>1
  <1>3. \A n, m \in DOMAIN r : n + 1 = m + 1 => n = m BY <1>1
  <1>4. \A m \in DOMAIN s : m # 1 => m - 1 \in DOMAIN r /\ (m - 1) + 1 = m BY <1>1
  <1>5. DistinctKeys(r) BY <1>2, <1>3 DEF DistinctKeys
  <1>6. 1 \in DOMAIN s BY <1>1
  <1>7. KeysOf(r) \subseteq KeysOf(s) \ {s[1].key} BY <1>2, <1>6 DEF KeysOf, DistinctKeys
  <1>8. KeysOf(s) \ {s[1].key} \subseteq KeysOf(r) BY <1>2, <1>4 DEF KeysOf
  <1> QED BY <1>1, <1>5, <1>7, <1>8 DEF r

HistoryKey == [file : Files \cup {"none"}, version : Nat]

(* What is stored is no older than its key says. *)
HistoryEntry == {e \in [key : HistoryKey, content : Nat] : e.content >= e.key.version}

HistoryShape ==
    /\ hcStore \in Seq(HistoryEntry) /\ Len(hcStore) <= MaxEntries
    /\ DistinctKeys(hcStore) /\ KeysOf(hcStore) = hcSizes
    /\ hcFile \in [Files -> Nat]
    /\ hcLoad \in [Loaders -> [pc : {"idle", "read", "put", "done"}, key : HistoryKey, content : Nat]]
    /\ \A l \in Loaders : hcLoad[l].pc = "read" => hcLoad[l].key.file \in Files

(* A file gets newer until it is gone, so what a load reads is not older than its key. *)
LoadsFresh ==
    \A l \in Loaders :
      /\ hcLoad[l].pc = "read" =>
            hcFile[hcLoad[l].key.file] = 0 \/ hcFile[hcLoad[l].key.file] >= hcLoad[l].key.version
      /\ hcLoad[l].pc \in {"put", "done"} => hcLoad[l].content >= hcLoad[l].key.version

HistoryInv == HistoryShape /\ LoadsFresh

(* The invariant of the file cache holds at the start. *)
LEMMA HistoryStarts ==
    ASSUME HistoryInit
    PROVE  HistoryInv
  <1>1. /\ IdleLoad.pc = "idle" /\ NoKey \in HistoryKey
        /\ IdleLoad \in [pc : {"idle", "read", "put", "done"}, key : HistoryKey, content : Nat]
    BY DEF IdleLoad, NoKey, HistoryKey
  <1>2. hcStore \in Seq(HistoryEntry) /\ Len(hcStore) = 0 /\ DOMAIN hcStore = {} BY DEF HistoryInit
  <1>3. DistinctKeys(hcStore) /\ KeysOf(hcStore) = hcSizes
    BY <1>2 DEF HistoryInit, DistinctKeys, KeysOf
  <1> QED
    BY <1>1, <1>2, <1>3, HistoryAssumption DEF HistoryInit, HistoryInv, HistoryShape, LoadsFresh

(* The store without a key has the other keys. *)
LEMMA WithoutKey ==
    ASSUME HistoryInv, NEW key
    PROVE  /\ StoreWithout(key) \in Seq(HistoryEntry) /\ Len(StoreWithout(key)) <= MaxEntries
           /\ DistinctKeys(StoreWithout(key)) /\ KeysOf(StoreWithout(key)) = hcSizes \ {key}
  <1>1. /\ hcStore \in Seq(HistoryEntry) /\ DistinctKeys(hcStore) /\ KeysOf(hcStore) = hcSizes
        /\ Len(hcStore) <= MaxEntries /\ MaxEntries \in Nat /\ Len(hcStore) \in Nat
    BY HistoryAssumption DEF HistoryInv, HistoryShape
  <1>2. CASE PlaceOf(key) = {}
   <2>1. key \notin hcSizes BY <1>1, <1>2 DEF PlaceOf, KeysOf
   <2> QED BY <1>1, <1>2, <2>1 DEF StoreWithout
  <1>3. CASE PlaceOf(key) # {}
   <2> DEFINE i == CHOOSE i \in PlaceOf(key) : TRUE
   <2>1. i \in DOMAIN hcStore /\ hcStore[i].key = key BY <1>3 DEF PlaceOf
   <2>2. StoreWithout(key) = RemoveAt(hcStore, i) BY <1>3 DEF StoreWithout
   <2> HIDE DEF i
   <2> QED BY <1>1, <2>1, <2>2, EntryRemoved
  <1> QED BY <1>2, <1>3

(* A load's record changes. *)
LEMMA LoadChanges ==
    ASSUME HistoryInv, NEW l \in Loaders,
           NEW n \in [pc : {"idle", "read", "put", "done"}, key : HistoryKey, content : Nat],
           hcLoad' = [hcLoad EXCEPT ![l] = n], hcFile' = hcFile,
           n.pc = "read" => /\ n.key.file \in Files
                            /\ hcFile[n.key.file] = 0 \/ hcFile[n.key.file] >= n.key.version,
           n.pc \in {"put", "done"} => n.content >= n.key.version
    PROVE  /\ LoadsFresh'
           /\ hcLoad' \in [Loaders -> [pc : {"idle", "read", "put", "done"}, key : HistoryKey, content : Nat]]
           /\ \A k \in Loaders : hcLoad'[k].pc = "read" => hcLoad'[k].key.file \in Files
  <1>1. /\ hcLoad' \in [Loaders -> [pc : {"idle", "read", "put", "done"}, key : HistoryKey, content : Nat]]
        /\ hcLoad'[l] = n /\ \A k \in Loaders : k # l => hcLoad'[k] = hcLoad[k]
    BY DEF HistoryInv, HistoryShape
  <1>2. \A k \in Loaders : hcLoad'[k].pc = "read" => hcLoad'[k].key.file \in Files
    BY <1>1 DEF HistoryInv, HistoryShape
  <1>3. LoadsFresh' BY <1>1 DEF HistoryInv, LoadsFresh
  <1> QED BY <1>1, <1>2, <1>3

(* A lookup finds an entry, which moves to the end, or goes on to read the file. *)
LEMMA LooksUpKeeps ==
    ASSUME HistoryInv, NEW l \in Loaders, NEW f \in Files, LoadLooksUp(l, f)
    PROVE  HistoryInv'
  <1> DEFINE key == Fingerprint(f)
  <1>1. key \in HistoryKey /\ key.file = f /\ key.version = hcFile[f] /\ hcFile[f] \in Nat
    BY DEF HistoryInv, HistoryShape, Fingerprint, HistoryKey
  <1>2. /\ hcStore \in Seq(HistoryEntry) /\ DistinctKeys(hcStore) /\ KeysOf(hcStore) = hcSizes
        /\ Len(hcStore) <= MaxEntries /\ MaxEntries \in Nat /\ Len(hcStore) \in Nat
    BY HistoryAssumption DEF HistoryInv, HistoryShape
  <1>3. UNCHANGED <<hcSizes, hcFile>> BY DEF LoadLooksUp
  <1>4. ASSUME NEW i \in PlaceOf(key), hcStore' = Append(RemoveAt(hcStore, i), hcStore[i]),
               hcLoad' = [hcLoad EXCEPT ![l] = [pc |-> "done", key |-> [key EXCEPT !.version = hcFile[f]],
                                                content |-> hcStore[i].content]]
        PROVE  HistoryInv'
   <2>1. i \in DOMAIN hcStore /\ hcStore[i].key = key BY <1>4 DEF PlaceOf
   <2>2. hcStore[i] \in HistoryEntry BY <1>2, <2>1
   <2> DEFINE rest == RemoveAt(hcStore, i)
              n == [pc |-> "done", key |-> [key EXCEPT !.version = hcFile[f]], content |-> hcStore[i].content]
   <2>3. /\ rest \in Seq(HistoryEntry) /\ Len(rest) = Len(hcStore) - 1
         /\ KeysOf(rest) = KeysOf(hcStore) \ {key} /\ DistinctKeys(rest)
     BY <1>2, <2>1, EntryRemoved
   <2>4. hcStore' = Append(rest, hcStore[i]) BY <1>4
   <2> HIDE DEF rest
   <2>5. /\ hcStore' \in Seq(HistoryEntry) /\ Len(hcStore') = Len(rest) + 1
         /\ KeysOf(hcStore') = KeysOf(rest) \cup {key} /\ DistinctKeys(hcStore')
     BY <2>1, <2>2, <2>3, <2>4, EntryAppended
   <2>6. key \in KeysOf(hcStore) BY <2>1 DEF KeysOf
   <2>7. Len(hcStore') <= MaxEntries /\ KeysOf(hcStore') = hcSizes BY <1>2, <2>3, <2>5, <2>6
   <2>8. [key EXCEPT !.version = hcFile[f]] = key BY <1>1 DEF HistoryKey
   <2>9. /\ n \in [pc : {"idle", "read", "put", "done"}, key : HistoryKey, content : Nat]
         /\ n.pc = "done" /\ n.content >= n.key.version /\ hcLoad' = [hcLoad EXCEPT ![l] = n]
     BY <1>1, <1>4, <2>1, <2>2, <2>8 DEF HistoryEntry
   <2> HIDE DEF n
   <2>10. /\ LoadsFresh'
          /\ hcLoad' \in [Loaders -> [pc : {"idle", "read", "put", "done"}, key : HistoryKey, content : Nat]]
          /\ \A k \in Loaders : hcLoad'[k].pc = "read" => hcLoad'[k].key.file \in Files
     BY <1>3, <2>9, LoadChanges
   <2> QED BY <1>3, <2>5, <2>7, <2>10 DEF HistoryInv, HistoryShape, DistinctKeys, KeysOf
  <1>5. ASSUME hcLoad' = [hcLoad EXCEPT ![l] = [pc |-> "read", key |-> key, content |-> 0]], hcStore' = hcStore
        PROVE  HistoryInv'
   <2> DEFINE n == [pc |-> "read", key |-> key, content |-> 0]
   <2>1. /\ n \in [pc : {"idle", "read", "put", "done"}, key : HistoryKey, content : Nat]
         /\ n.pc = "read" /\ n.key = key /\ hcLoad' = [hcLoad EXCEPT ![l] = n]
     BY <1>1, <1>5
   <2> HIDE DEF n, key
   <2>3. n.key.file \in Files /\ hcFile[n.key.file] >= n.key.version /\ n.pc \notin {"put", "done"}
     BY <1>1, <2>1
   <2>2. /\ LoadsFresh'
         /\ hcLoad' \in [Loaders -> [pc : {"idle", "read", "put", "done"}, key : HistoryKey, content : Nat]]
         /\ \A k \in Loaders : hcLoad'[k].pc = "read" => hcLoad'[k].key.file \in Files
     BY <1>3, <2>1, <2>3, LoadChanges
   <2> QED BY <1>3, <1>5, <2>2 DEF HistoryInv, HistoryShape, DistinctKeys, KeysOf
  <1> QED BY <1>4, <1>5 DEF LoadLooksUp

(* The file is read as it is now, or is gone. *)
LEMMA ReadsKeeps ==
    ASSUME HistoryInv, NEW l \in Loaders, LoadReads(l)
    PROVE  HistoryInv'
  <1> DEFINE f == hcLoad[l].key.file
             n == IF hcFile[f] = 0 THEN IdleLoad
                  ELSE [hcLoad[l] EXCEPT !.pc = "put", !.content = hcFile[f]]
  <1>1. /\ hcLoad[l] \in [pc : {"idle", "read", "put", "done"}, key : HistoryKey, content : Nat]
        /\ hcLoad[l].pc = "read" /\ f \in Files /\ hcFile[f] \in Nat
        /\ hcFile[f] = 0 \/ hcFile[f] >= hcLoad[l].key.version
    BY DEF LoadReads, HistoryInv, HistoryShape, LoadsFresh
  <1>2. /\ IdleLoad.pc = "idle" /\ NoKey \in HistoryKey
        /\ IdleLoad \in [pc : {"idle", "read", "put", "done"}, key : HistoryKey, content : Nat]
    BY DEF IdleLoad, NoKey, HistoryKey
  <1>3. /\ n \in [pc : {"idle", "read", "put", "done"}, key : HistoryKey, content : Nat]
        /\ n.pc # "read" /\ (n.pc \in {"put", "done"} => n.content >= n.key.version)
   <2>1. CASE hcFile[f] = 0 BY <1>2, <2>1
   <2>2. CASE hcFile[f] # 0
    <3> DEFINE m == [hcLoad[l] EXCEPT !.pc = "put", !.content = hcFile[f]]
    <3>1. /\ m \in [pc : {"idle", "read", "put", "done"}, key : HistoryKey, content : Nat]
          /\ m.pc = "put" /\ m.content = hcFile[f] /\ m.key = hcLoad[l].key
      BY <1>1
    <3> QED BY <1>1, <2>2, <3>1
   <2> QED BY <2>1, <2>2
  <1>4. hcLoad' = [hcLoad EXCEPT ![l] = n] /\ UNCHANGED <<hcStore, hcSizes, hcFile>>
    BY DEF LoadReads
  <1> HIDE DEF n
  <1>5. /\ LoadsFresh'
        /\ hcLoad' \in [Loaders -> [pc : {"idle", "read", "put", "done"}, key : HistoryKey, content : Nat]]
        /\ \A k \in Loaders : hcLoad'[k].pc = "read" => hcLoad'[k].key.file \in Files
    BY <1>3, <1>4, LoadChanges
  <1> QED BY <1>4, <1>5 DEF HistoryInv, HistoryShape, DistinctKeys, KeysOf

(* What was read is stored under the key it was asked with, and the oldest entry goes when
   there is one too many. *)
LEMMA PutsKeeps ==
    ASSUME HistoryInv, NEW l \in Loaders, LoadPuts(l)
    PROVE  HistoryInv'
  <1> DEFINE n == [hcLoad[l] EXCEPT !.pc = "done"]
             key == hcLoad[l].key
             e == [key |-> key, content |-> hcLoad[l].content]
             others == StoreWithout(key)
             all == Append(others, e)
  <1>1. /\ hcLoad[l] \in [pc : {"idle", "read", "put", "done"}, key : HistoryKey, content : Nat]
        /\ hcLoad[l].content >= hcLoad[l].key.version
    BY DEF LoadPuts, HistoryInv, HistoryShape, LoadsFresh
  <1>2. /\ n \in [pc : {"idle", "read", "put", "done"}, key : HistoryKey, content : Nat]
        /\ n.pc = "done" /\ n.content >= n.key.version
    BY <1>1
  <1>3. hcLoad' = [hcLoad EXCEPT ![l] = n] /\ hcFile' = hcFile BY DEF LoadPuts
  <1>4. \/ hcStore' = Evicted(all).kept /\ hcSizes' = (hcSizes \cup {key}) \ Evicted(all).gone
        \/ hcStore' = hcStore /\ hcSizes' = hcSizes
    BY DEF LoadPuts
  <1> HIDE DEF n
  <1>5. /\ LoadsFresh'
        /\ hcLoad' \in [Loaders -> [pc : {"idle", "read", "put", "done"}, key : HistoryKey, content : Nat]]
        /\ \A k \in Loaders : hcLoad'[k].pc = "read" => hcLoad'[k].key.file \in Files
    BY <1>2, <1>3, LoadChanges
  <1>6. e \in HistoryEntry /\ e.key = key BY <1>1 DEF HistoryEntry
  <1>7. /\ others \in Seq(HistoryEntry) /\ Len(others) <= MaxEntries
        /\ DistinctKeys(others) /\ KeysOf(others) = hcSizes \ {key}
    BY WithoutKey
  <1> HIDE DEF e, others
  <1>8. /\ all \in Seq(HistoryEntry) /\ Len(all) = Len(others) + 1
        /\ KeysOf(all) = KeysOf(others) \cup {key} /\ DistinctKeys(all)
    BY <1>6, <1>7, EntryAppended
  <1> HIDE DEF all
  <1>9. MaxEntries \in Nat \ {0} /\ Len(others) \in Nat /\ Len(all) \in Nat
    BY <1>7, <1>8, HistoryAssumption
  <1>10. CASE hcStore' = Evicted(all).kept /\ hcSizes' = (hcSizes \cup {key}) \ Evicted(all).gone
   <2>1. CASE Len(all) > MaxEntries
    <3>1. hcStore' = Tail(all) /\ hcSizes' = (hcSizes \cup {key}) \ {Head(all).key} /\ all # <<>>
      BY <1>8, <1>9, <1>10, <2>1 DEF Evicted
    <3>2. /\ hcStore' \in Seq(HistoryEntry) /\ Len(hcStore') = Len(all) - 1
          /\ KeysOf(hcStore') = KeysOf(all) \ {Head(all).key} /\ DistinctKeys(hcStore')
      BY <1>8, <3>1, EntryEvicted
    <3>3. Len(hcStore') <= MaxEntries /\ KeysOf(hcStore') = hcSizes' BY <1>7, <1>8, <1>9, <3>1, <3>2
    <3> QED BY <1>3, <1>5, <3>2, <3>3 DEF HistoryInv, HistoryShape, DistinctKeys, KeysOf
   <2>2. CASE ~(Len(all) > MaxEntries)
    <3>1. hcStore' = all /\ hcSizes' = hcSizes \cup {key} BY <1>10, <2>2 DEF Evicted
    <3>2. Len(hcStore') <= MaxEntries /\ KeysOf(hcStore') = hcSizes' BY <1>7, <1>8, <1>9, <2>2, <3>1
    <3> QED BY <1>3, <1>5, <1>8, <3>1, <3>2 DEF HistoryInv, HistoryShape, DistinctKeys, KeysOf
   <2> QED BY <2>1, <2>2
  <1>11. CASE hcStore' = hcStore /\ hcSizes' = hcSizes
    BY <1>3, <1>5, <1>11 DEF HistoryInv, HistoryShape, DistinctKeys, KeysOf
  <1> QED BY <1>4, <1>10, <1>11

(* Every step of the file cache keeps the invariant. *)
LEMMA HistorySteps ==
    ASSUME HistoryInv, [HistoryNext]_hcVars
    PROVE  HistoryInv'
  <1>1. ASSUME NEW l \in Loaders, LoadReturns(l)
        PROVE  HistoryInv'
   <2>1. /\ IdleLoad.pc = "idle" /\ NoKey \in HistoryKey
         /\ IdleLoad \in [pc : {"idle", "read", "put", "done"}, key : HistoryKey, content : Nat]
     BY DEF IdleLoad, NoKey, HistoryKey
   <2>2. hcLoad' = [hcLoad EXCEPT ![l] = IdleLoad] /\ UNCHANGED <<hcStore, hcSizes, hcFile>>
     BY <1>1 DEF LoadReturns
   <2>3. /\ LoadsFresh'
         /\ hcLoad' \in [Loaders -> [pc : {"idle", "read", "put", "done"}, key : HistoryKey, content : Nat]]
         /\ \A k \in Loaders : hcLoad'[k].pc = "read" => hcLoad'[k].key.file \in Files
     BY <2>1, <2>2, LoadChanges
   <2> QED BY <2>2, <2>3 DEF HistoryInv, HistoryShape, DistinctKeys, KeysOf
  <1>2. ASSUME NEW i \in DOMAIN hcStore, Invalidate(hcStore[i].key)
        PROVE  HistoryInv'
   <2> DEFINE key == hcStore[i].key
   <2>1. hcStore' = StoreWithout(key) /\ hcSizes' = hcSizes \ {key} /\ UNCHANGED <<hcFile, hcLoad>>
     BY <1>2 DEF Invalidate
   <2>2. /\ StoreWithout(key) \in Seq(HistoryEntry) /\ Len(StoreWithout(key)) <= MaxEntries
         /\ DistinctKeys(StoreWithout(key)) /\ KeysOf(StoreWithout(key)) = hcSizes \ {key}
     BY WithoutKey
   <2> HIDE DEF key
   <2>3. /\ hcStore' \in Seq(HistoryEntry) /\ Len(hcStore') <= MaxEntries
         /\ DistinctKeys(hcStore') /\ KeysOf(hcStore') = hcSizes'
     BY <2>1, <2>2
   <2> QED BY <2>1, <2>3 DEF HistoryInv, HistoryShape, LoadsFresh, DistinctKeys, KeysOf
  <1>3. CASE ClearHistory
   <2>1. hcStore' = <<>> /\ hcSizes' = {} /\ UNCHANGED <<hcFile, hcLoad>> BY <1>3 DEF ClearHistory
   <2>2. hcStore' \in Seq(HistoryEntry) /\ Len(hcStore') = 0 /\ DOMAIN hcStore' = {} BY <2>1
   <2>3. DistinctKeys(hcStore') /\ KeysOf(hcStore') = hcSizes'
     BY <2>1, <2>2 DEF DistinctKeys, KeysOf
   <2> QED
     BY <2>1, <2>2, <2>3, HistoryAssumption DEF HistoryInv, HistoryShape, LoadsFresh, DistinctKeys, KeysOf
  <1>4. ASSUME NEW f \in Files, FileRewritten(f) \/ FileRemoved(f)
        PROVE  HistoryInv'
   <2>1. /\ hcFile' \in [Files -> Nat] /\ UNCHANGED <<hcStore, hcSizes, hcLoad>>
         /\ \A g \in Files : hcFile'[g] = hcFile[g] \/ hcFile'[g] = 0 \/ (hcFile[g] # 0 /\ hcFile'[g] = hcFile[g] + 1)
     BY <1>4 DEF FileRewritten, FileRemoved, HistoryInv, HistoryShape
   <2>2. \A l \in Loaders : hcLoad[l].key.version \in Nat
     BY DEF HistoryInv, HistoryShape, HistoryKey
   <2>3. ASSUME NEW l \in Loaders, hcLoad'[l].pc = "read"
         PROVE  hcFile'[hcLoad'[l].key.file] = 0 \/ hcFile'[hcLoad'[l].key.file] >= hcLoad'[l].key.version
    <3> DEFINE g == hcLoad[l].key.file
    <3>1. g \in Files /\ (hcFile[g] = 0 \/ hcFile[g] >= hcLoad[l].key.version) /\ hcFile[g] \in Nat
      BY <2>1, <2>3 DEF HistoryInv, HistoryShape, LoadsFresh
    <3> HIDE DEF g
    <3>2. hcFile'[g] = 0 \/ hcFile'[g] >= hcLoad[l].key.version BY <2>1, <2>2, <3>1
    <3> QED BY <2>1, <3>2 DEF g
   <2>4. LoadsFresh' BY <2>1, <2>3 DEF HistoryInv, LoadsFresh
   <2> QED BY <2>1, <2>4 DEF HistoryInv, HistoryShape, DistinctKeys, KeysOf
  <1>5. CASE UNCHANGED hcVars
    BY <1>5 DEF hcVars, HistoryInv, HistoryShape, LoadsFresh, DistinctKeys, KeysOf
  <1> QED BY <1>1, <1>2, <1>3, <1>4, <1>5, LooksUpKeeps, ReadsKeeps, PutsKeeps DEF HistoryNext

(* So no load returns stale bars and the size table is the store's. *)
LEMMA HistoryServes ==
    ASSUME HistoryInv
    PROVE  NoStaleBars /\ SizesMatchStore
  <1>1. NoStaleBars BY DEF HistoryInv, LoadsFresh, NoStaleBars
  <1>2. IsInjective([i \in DOMAIN hcStore |-> hcStore[i].key])
    BY DEF HistoryInv, HistoryShape, DistinctKeys, IsInjective
  <1> QED BY <1>1, <1>2 DEF HistoryInv, HistoryShape, KeysOf, SizesMatchStore

----------------------------------------
(* The stream buffer and the replay log. *)

LogEntry == [seq : Int, item : Int]

StreamShape ==
    /\ smPolicy \in DropPolicies
    /\ smItems \in Seq(Nat) /\ smGot \in Seq(Nat) /\ smMade \in Nat
    /\ smDropped \in [oldest : Nat, newest : Nat]
    /\ smLog \in Seq(LogEntry) /\ smNextSeq = smMade
    /\ smClient \in [after : Int, has : SUBSET Int]

(* Items are numbered as they are made; the consumed ones come before the buffered ones. *)
InOrder ==
    /\ smMade = Len(smGot) + Len(smItems) + smDropped.oldest + smDropped.newest
    /\ \A i, j \in DOMAIN smGot : i < j => smGot[i] < smGot[j]
    /\ \A i, j \in DOMAIN smItems : i < j => smItems[i] < smItems[j]
    /\ \A i \in DOMAIN smGot, j \in DOMAIN smItems : smGot[i] < smItems[j]
    /\ \A i \in DOMAIN smGot : smGot[i] <= smMade
    /\ \A i \in DOMAIN smItems : smItems[i] <= smMade

(* The log holds the latest entries without a gap; the subscriber has what lies before its
   position and nothing after it. *)
LogConsecutive ==
    /\ Len(smLog) <= smNextSeq
    /\ \A i \in 1..Len(smLog) : /\ smLog[i].seq = smNextSeq - Len(smLog) + i - 1
                                /\ smLog[i].item = smLog[i].seq + 1
    /\ smClient.after \in -1 .. smNextSeq - 1
    /\ \A n \in smClient.has : n <= smClient.after + 1
    /\ \A i \in 1..Len(smLog) : smLog[i].seq <= smClient.after => smLog[i].item \in smClient.has

StreamInv == StreamShape /\ InOrder /\ LogConsecutive

(* The invariant of the stream holds at the start. *)
LEMMA StreamStarts ==
    ASSUME StreamInit
    PROVE  StreamInv
  <1>1. /\ smItems = <<>> /\ smGot = <<>> /\ smLog = <<>> /\ smMade = 0 /\ smNextSeq = 0
        /\ smDropped = [oldest |-> 0, newest |-> 0] /\ smClient = [after |-> -1, has |-> {}]
    BY DEF StreamInit
  <1>2. Len(smItems) = 0 /\ Len(smGot) = 0 /\ Len(smLog) = 0 /\ DOMAIN smItems = {} /\ DOMAIN smGot = {}
    BY <1>1
  <1>3. StreamShape BY <1>1 DEF StreamInit, StreamShape
  <1>4. smDropped.oldest = 0 /\ smDropped.newest = 0 /\ smClient.after = -1 /\ smClient.has = {}
    BY <1>1
  <1>5. InOrder BY <1>1, <1>2, <1>4 DEF InOrder
  <1>6. LogConsecutive BY <1>1, <1>2, <1>4 DEF LogConsecutive
  <1> QED BY <1>3, <1>5, <1>6 DEF StreamInv

(* since tells the entries after a position for every prefix of the log. *)
SinceUpTo(since, log, after) ==
    since = [i \in 0..Len(log) |->
               IF i = 0 THEN <<>>
               ELSE IF log[i].seq > after THEN Append(since[i - 1], log[i]) ELSE since[i - 1]]

(* How many entries of the log the position lies behind. *)
Behind(after) ==
    IF after + 1 - (smNextSeq - Len(smLog)) > 0 THEN after + 1 - (smNextSeq - Len(smLog)) ELSE 0

(* The entries after a position, when the log is without a gap. *)
LaterEntries(after, i) ==
    [j \in 1 .. (IF i > Behind(after) THEN i - Behind(after) ELSE 0) |-> smLog[Behind(after) + j]]

(* A function on an interval from one is a sequence. *)
LEMMA SeqOfEntries ==
    ASSUME NEW S, NEW m \in Nat, NEW t \in [1..m -> S]
    PROVE  t \in Seq(S) /\ Len(t) = m
  OBVIOUS

(* One entry more. *)
LEMMA LaterGrows ==
    ASSUME StreamInv, NEW after \in -1 .. smNextSeq - 1, NEW i \in 1..Len(smLog)
    PROVE  LaterEntries(after, i) = IF smLog[i].seq > after
                                    THEN Append(LaterEntries(after, i - 1), smLog[i])
                                    ELSE LaterEntries(after, i - 1)
  <1> DEFINE b == Behind(after)
  <1>1. /\ Len(smLog) \in Nat /\ smNextSeq \in Nat /\ Len(smLog) <= smNextSeq /\ smLog \in Seq(LogEntry)
        /\ smLog[i].seq = smNextSeq - Len(smLog) + i - 1
    BY DEF StreamInv, StreamShape, LogConsecutive
  <1>2. b \in Nat /\ (smLog[i].seq > after <=> i > b) BY <1>1 DEF Behind
  <1> HIDE DEF b
  <1>3. CASE i > b
   <2> DEFINE s == LaterEntries(after, i - 1)
              t == LaterEntries(after, i)
   <2>1. s = [j \in 1 .. (i - 1 - b) |-> smLog[b + j]] BY <1>2, <1>3 DEF LaterEntries, b
   <2>2. t = [j \in 1 .. (i - b) |-> smLog[b + j]] BY <1>2, <1>3 DEF LaterEntries, b
   <2> HIDE DEF s, t
   <2>3. \A j \in 1 .. (i - b) : b + j \in 1..Len(smLog) /\ smLog[b + j] \in LogEntry
     BY <1>1, <1>2, <1>3, SMTT(30)
   <2>4. s \in Seq(LogEntry) /\ Len(s) = i - 1 - b
    <3>1. i - 1 - b \in Nat BY <1>1, <1>2, <1>3
    <3>2. \A j \in 1 .. (i - 1 - b) : smLog[b + j] \in LogEntry BY <1>1, <1>2, <2>3
    <3>3. s \in [1 .. (i - 1 - b) -> LogEntry] BY <2>1, <3>2
    <3> QED BY <3>1, <3>3, SeqOfEntries
   <2>5. t \in Seq(LogEntry) /\ Len(t) = i - b
    <3>1. i - b \in Nat BY <1>1, <1>2, <1>3
    <3>2. t \in [1 .. (i - b) -> LogEntry] BY <2>2, <2>3
    <3> QED BY <3>1, <3>2, SeqOfEntries
   <2>6. /\ Append(s, smLog[i]) \in Seq(LogEntry) /\ Len(Append(s, smLog[i])) = i - b
         /\ \A j \in 1 .. (i - 1 - b) : Append(s, smLog[i])[j] = s[j]
         /\ Append(s, smLog[i])[i - b] = smLog[i]
     BY <1>1, <1>2, <1>3, <2>4
   <2>7. \A j \in 1 .. (i - b) : Append(s, smLog[i])[j] = t[j] BY <1>2, <1>3, <2>1, <2>2, <2>6
   <2>8. Append(s, smLog[i]) = t BY <2>5, <2>6, <2>7
   <2> QED BY <1>2, <1>3, <2>8 DEF s, t
  <1>4. CASE ~(i > b) BY <1>1, <1>2, <1>4 DEF LaterEntries, b
  <1> QED BY <1>3, <1>4

(* since_seq returns what lies after the position. *)
LEMMA SinceIsLater ==
    ASSUME StreamInv, NEW after \in -1 .. smNextSeq - 1
    PROVE  SinceSeq(after) = LaterEntries(after, Len(smLog))
  <1> DEFINE n == Len(smLog)
             w == [i \in 0..n |-> LaterEntries(after, i)]
             k == CHOOSE f : SinceUpTo(f, smLog, after)
  <1>1. n \in Nat BY DEF StreamInv, StreamShape
  <1>2. LaterEntries(after, 0) = <<>>
   <2>1. Behind(after) \in Nat BY <1>1 DEF Behind, StreamInv, StreamShape
   <2> QED BY <2>1 DEF LaterEntries
  <1>3. \A i \in 0..n : w[i] = IF i = 0 THEN <<>>
                               ELSE IF smLog[i].seq > after THEN Append(w[i - 1], smLog[i]) ELSE w[i - 1]
   <2> TAKE i \in 0..n
   <2>1. CASE i = 0 BY <1>1, <1>2, <2>1
   <2>2. CASE i # 0
    <3>1. i \in 1..n /\ i - 1 \in 0..n BY <1>1, <2>2
    <3>2. w[i] = LaterEntries(after, i) /\ w[i - 1] = LaterEntries(after, i - 1) BY <3>1
    <3> HIDE DEF w
    <3> QED BY <2>2, <3>1, <3>2, LaterGrows
   <2> QED BY <2>1, <2>2
  <1>4. SinceUpTo(w, smLog, after)
   <2>1. w = [i \in 0..n |-> w[i]] OBVIOUS
   <2> HIDE DEF w
   <2> QED BY <1>3, <2>1 DEF SinceUpTo
  <1>5. SinceUpTo(k, smLog, after) BY <1>4
  <1>6. SinceSeq(after) = k[n] BY DEF SinceSeq, SinceUpTo
  <1> HIDE DEF w, k
  <1> DEFINE Bad == {i \in 0..n : k[i] # w[i]}
  <1>7. Bad = {}
   <2> SUFFICES ASSUME Bad # {} PROVE FALSE
     OBVIOUS
   <2>1. PICK m \in Bad : \A i \in Bad : m <= i
    <3>1. Bad \subseteq Nat BY <1>1
    <3> HIDE DEF Bad
    <3> QED BY <3>1, LeastNatural
   <2>2. m \in 0..n /\ k[m] # w[m] BY <2>1
   <2>3. k[m] = IF m = 0 THEN <<>>
                ELSE IF smLog[m].seq > after THEN Append(k[m - 1], smLog[m]) ELSE k[m - 1]
     BY <1>5, <2>2 DEF SinceUpTo
   <2>4. m # 0 => k[m - 1] = w[m - 1]
    <3>1. m # 0 => m - 1 \in 0..n /\ m - 1 < m BY <1>1, <2>2
    <3>2. m # 0 => m - 1 \notin Bad BY <1>1, <2>1, <2>2, <3>1
    <3> QED BY <3>1, <3>2
   <2> HIDE DEF Bad
   <2> QED BY <1>3, <2>2, <2>3, <2>4
  <1>8. k[n] = w[n] /\ w[n] = LaterEntries(after, n)
   <2>1. n \in 0..n BY <1>1
   <2> QED BY <1>7, <2>1 DEF w
  <1> QED BY <1>6, <1>8

(* Its entries, one by one. *)
LEMMA SinceTells ==
    ASSUME StreamInv, NEW after \in -1 .. smNextSeq - 1
    PROVE  /\ Behind(after) \in 0..Len(smLog)
           /\ SinceSeq(after) \in Seq(LogEntry) /\ Len(SinceSeq(after)) = Len(smLog) - Behind(after)
           /\ \A j \in 1 .. Len(smLog) - Behind(after) : SinceSeq(after)[j] = smLog[Behind(after) + j]
           /\ \A i \in 1..Len(smLog) : smLog[i].seq > after <=> i > Behind(after)
  <1> DEFINE b == Behind(after)
  <1>1. /\ Len(smLog) \in Nat /\ smNextSeq \in Nat /\ Len(smLog) <= smNextSeq /\ smLog \in Seq(LogEntry)
        /\ \A i \in 1..Len(smLog) : smLog[i].seq = smNextSeq - Len(smLog) + i - 1
    BY DEF StreamInv, StreamShape, LogConsecutive
  <1>2. b \in 0..Len(smLog) /\ \A i \in 1..Len(smLog) : smLog[i].seq > after <=> i > b
    BY <1>1, SMTT(30) DEF Behind
  <1>3. SinceSeq(after) = [j \in 1 .. Len(smLog) - b |-> smLog[b + j]]
    BY <1>1, <1>2, SinceIsLater DEF LaterEntries
  <1> HIDE DEF b
  <1>4. \A j \in 1 .. Len(smLog) - b : smLog[b + j] \in LogEntry BY <1>1, <1>2
  <1>5. SinceSeq(after) \in Seq(LogEntry) /\ Len(SinceSeq(after)) = Len(smLog) - b
   <2>1. Len(smLog) - b \in Nat /\ SinceSeq(after) \in [1 .. Len(smLog) - b -> LogEntry]
     BY <1>1, <1>2, <1>3, <1>4
   <2> QED BY <2>1, SeqOfEntries
  <1> QED BY <1>2, <1>3, <1>5 DEF b

(* A full log drops its oldest entry and takes the new one. *)
LEMMA RecordKeeps ==
    ASSUME StreamInv, Record, smNextSeq' = smNextSeq + 1, smClient' = smClient
    PROVE  LogConsecutive' /\ smLog' \in Seq(LogEntry)
  <1> DEFINE kept == IF Len(smLog) = ReplayCapacity THEN Tail(smLog) ELSE smLog
             e == [seq |-> smNextSeq, item |-> smMade + 1]
  <1>1. /\ Len(smLog) \in Nat /\ smNextSeq \in Nat /\ Len(smLog) <= smNextSeq /\ smLog \in Seq(LogEntry)
        /\ smNextSeq = smMade /\ ReplayCapacity \in Nat \ {0}
        /\ \A i \in 1..Len(smLog) : /\ smLog[i].seq = smNextSeq - Len(smLog) + i - 1
                                    /\ smLog[i].item = smLog[i].seq + 1
    BY StreamingAssumption DEF StreamInv, StreamShape, LogConsecutive
  <1>2. /\ kept \in Seq(LogEntry) /\ Len(kept) \in Nat /\ Len(kept) <= Len(smLog)
        /\ \A i \in 1..Len(kept) : /\ kept[i].seq = smNextSeq - Len(kept) + i - 1
                                   /\ kept[i].item = kept[i].seq + 1
                                   /\ \E j \in 1..Len(smLog) : kept[i] = smLog[j]
   <2>1. CASE Len(smLog) = ReplayCapacity
    <3> DEFINE t == Tail(smLog)
    <3>1. /\ t \in Seq(LogEntry) /\ Len(t) = Len(smLog) - 1
          /\ \A i \in 1..(Len(smLog) - 1) : t[i] = smLog[i + 1]
      BY <1>1, <2>1
    <3> HIDE DEF t
    <3>2. \A i \in 1..(Len(smLog) - 1) : i + 1 \in 1..Len(smLog) BY <1>1
    <3>3. \A i \in 1..Len(t) : /\ t[i].seq = smNextSeq - Len(t) + i - 1
                               /\ t[i].item = t[i].seq + 1
                               /\ \E j \in 1..Len(smLog) : t[i] = smLog[j]
      BY <1>1, <3>1, <3>2, SMTT(30)
    <3> QED BY <1>1, <2>1, <3>1, <3>3 DEF t
   <2>2. CASE Len(smLog) # ReplayCapacity
    <3>1. kept = smLog BY <2>2
    <3>2. \A i \in 1..Len(smLog) : \E j \in 1..Len(smLog) : smLog[i] = smLog[j] OBVIOUS
    <3> HIDE DEF kept
    <3>3. kept \in Seq(LogEntry) /\ Len(kept) \in Nat /\ Len(kept) <= Len(smLog) BY <1>1, <3>1
    <3> QED BY <1>1, <3>1, <3>2, <3>3
   <2> QED BY <2>1, <2>2
  <1>3. e \in LogEntry /\ e.seq = smNextSeq /\ e.item = smNextSeq + 1 BY <1>1 DEF LogEntry
  <1>4. smLog' = kept \o <<e>> BY DEF Record
  <1> HIDE DEF kept, e
  <1>5. /\ smLog' \in Seq(LogEntry) /\ Len(smLog') = Len(kept) + 1
        /\ \A i \in 1..Len(kept) : smLog'[i] = kept[i]
        /\ smLog'[Len(kept) + 1] = e
   <2>1. <<e>> \in Seq(LogEntry) /\ Len(<<e>>) = 1 /\ <<e>>[1] = e BY <1>3
   <2>2. /\ smLog' \in Seq(LogEntry) /\ Len(smLog') = Len(kept) + 1
         /\ \A i \in 1 .. Len(kept) + 1 : smLog'[i] = IF i <= Len(kept) THEN kept[i] ELSE <<e>>[i - Len(kept)]
     BY <1>2, <1>4, <2>1, ConcatProperties
   <2> QED BY <1>2, <2>1, <2>2
  <1>6. \A i \in 1..Len(smLog') : /\ smLog'[i].seq = smNextSeq' - Len(smLog') + i - 1
                                  /\ smLog'[i].item = smLog'[i].seq + 1
   <2> TAKE i \in 1..Len(smLog')
   <2>1. CASE i \in 1..Len(kept)
    <3>1. smLog'[i] = kept[i] /\ Len(smLog') = Len(kept) + 1 BY <1>5, <2>1
    <3>2. /\ kept[i].seq = smNextSeq - Len(kept) + i - 1
          /\ kept[i].item = kept[i].seq + 1
      BY <1>2, <2>1
    <3>3. smNextSeq - Len(kept) + i - 1 = smNextSeq' - Len(smLog') + i - 1
     <4>1. smNextSeq \in Nat /\ smNextSeq' = smNextSeq + 1 /\ Len(kept) \in Nat /\ i \in Int
       BY <1>1, <1>2, <2>1
     <4> QED BY <3>1, <4>1
    <3> QED BY <3>1, <3>2, <3>3
   <2>2. CASE i = Len(kept) + 1 BY <1>1, <1>2, <1>3, <1>5, <2>2
   <2> QED BY <1>2, <1>5, <2>1, <2>2
  <1>7. /\ smClient.after \in -1 .. smNextSeq - 1 /\ \A n \in smClient.has : n <= smClient.after + 1
        /\ \A i \in 1..Len(smLog) : smLog[i].seq <= smClient.after => smLog[i].item \in smClient.has
    BY DEF StreamInv, LogConsecutive
  <1>8. \A i \in 1..Len(smLog') : smLog'[i].seq <= smClient.after => smLog'[i].item \in smClient.has
   <2> TAKE i \in 1..Len(smLog')
   <2>1. CASE i \in 1..Len(kept) BY <1>2, <1>5, <1>7, <2>1
   <2>2. CASE i = Len(kept) + 1 BY <1>1, <1>3, <1>5, <1>7, <2>2
   <2> QED BY <1>2, <1>5, <2>1, <2>2
  <1>9. Len(smLog') <= smNextSeq' BY <1>1, <1>2, <1>5
  <1>10. smClient.after \in -1 .. smNextSeq' - 1 BY <1>1, <1>7
  <1> QED BY <1>5, <1>6, <1>7, <1>8, <1>9, <1>10 DEF LogConsecutive

(* A tick goes into the buffer or is counted as dropped. *)
LEMMA PutKeeps ==
    ASSUME StreamInv, Put, smMade' = smMade + 1, smGot' = smGot
    PROVE  /\ InOrder' /\ smItems' \in Seq(Nat)
           /\ smDropped' \in [oldest : Nat, newest : Nat]
  <1> DEFINE x == smMade + 1
  <1>1. /\ smItems \in Seq(Nat) /\ smGot \in Seq(Nat) /\ smMade \in Nat /\ x \in Nat
        /\ Len(smItems) \in Nat /\ Len(smGot) \in Nat
        /\ smDropped \in [oldest : Nat, newest : Nat] /\ BufferSize \in Nat \ {0}
    BY StreamingAssumption DEF StreamInv, StreamShape
  <1>2. /\ smMade = Len(smGot) + Len(smItems) + smDropped.oldest + smDropped.newest
        /\ \A i, j \in DOMAIN smGot : i < j => smGot[i] < smGot[j]
        /\ \A i, j \in DOMAIN smItems : i < j => smItems[i] < smItems[j]
        /\ \A i \in DOMAIN smGot, j \in DOMAIN smItems : smGot[i] < smItems[j]
        /\ \A i \in DOMAIN smGot : smGot[i] <= smMade /\ smGot[i] < x
        /\ \A i \in DOMAIN smItems : smItems[i] <= smMade /\ smItems[i] < x
   <2>1. (\A i \in DOMAIN smGot : smGot[i] \in Nat) /\ (\A i \in DOMAIN smItems : smItems[i] \in Nat)
     BY <1>1
   <2> QED BY <1>1, <2>1 DEF StreamInv, InOrder
  <1>6. (\A i \in DOMAIN smGot : smGot[i] \in Nat) /\ (\A i \in DOMAIN smItems : smItems[i] \in Nat)
    BY <1>1
  <1>3. CASE Len(smItems) < BufferSize /\ smItems' = Append(smItems, x) /\ smDropped' = smDropped
   <2>1. /\ smItems' \in Seq(Nat) /\ Len(smItems') = Len(smItems) + 1
         /\ \A i \in DOMAIN smItems' : \/ i \in DOMAIN smItems /\ smItems'[i] = smItems[i]
                                       \/ i = Len(smItems) + 1 /\ smItems'[i] = x
         /\ \A i \in DOMAIN smItems : i < Len(smItems) + 1 /\ i \in Nat
     BY <1>1, <1>3
   <2>7. \A i, j \in DOMAIN smItems' : i < j => i # Len(smItems) + 1
    <3>1. \A i \in DOMAIN smItems' : i \in Nat /\ i <= Len(smItems) + 1 BY <1>1, <2>1
    <3> QED BY <1>1, <3>1
   <2> HIDE DEF x
   <2>2. \A i, j \in DOMAIN smItems' : i < j => smItems'[i] < smItems'[j] BY <1>2, <2>1, <2>7
   <2>3. \A i \in DOMAIN smGot, j \in DOMAIN smItems' : smGot[i] < smItems'[j] BY <1>2, <2>1
   <2>4. ASSUME NEW i \in DOMAIN smItems'
         PROVE  smItems'[i] <= x
    <3>1. CASE i \in DOMAIN smItems /\ smItems'[i] = smItems[i]
     <4>1. smItems[i] \in Nat /\ smItems[i] < x BY <1>2, <1>6, <3>1
     <4> QED BY <1>1, <3>1, <4>1
    <3>2. CASE smItems'[i] = x BY <1>1, <3>2
    <3> QED BY <2>1, <3>1, <3>2
   <2>5. \A i \in DOMAIN smGot : smGot[i] <= x BY <1>1, <1>2, <1>6
   <2>6. x = Len(smGot) + Len(smItems') + smDropped'.oldest + smDropped'.newest
     BY <1>1, <1>2, <1>3, <2>1, SMTT(30) DEF x
   <2> QED BY <1>1, <1>2, <1>3, <2>1, <2>2, <2>3, <2>4, <2>5, <2>6 DEF InOrder, x
  <1>4. CASE /\ Len(smItems) >= BufferSize /\ smItems' = Append(Tail(smItems), x)
             /\ smDropped' = [smDropped EXCEPT !.oldest = @ + 1]
   <2> DEFINE t == Tail(smItems)
   <2>1. /\ t \in Seq(Nat) /\ Len(t) = Len(smItems) - 1
         /\ \A i \in 1..(Len(smItems) - 1) : t[i] = smItems[i + 1]
     BY <1>1, <1>4
   <2>2. smItems' = Append(t, x) BY <1>4
   <2> HIDE DEF t
   <2>3. /\ smItems' \in Seq(Nat) /\ Len(smItems') = Len(smItems)
         /\ \A i \in 1..(Len(smItems) - 1) : smItems'[i] = t[i]
         /\ smItems'[Len(smItems)] = x
     BY <1>1, <2>1, <2>2
   <2>4. ASSUME NEW i \in DOMAIN smItems'
         PROVE  \/ i + 1 \in DOMAIN smItems /\ smItems'[i] = smItems[i + 1]
                \/ i = Len(smItems) /\ smItems'[i] = x
    <3>1. i \in 1..Len(smItems) BY <1>1, <2>3
    <3>2. i # Len(smItems) => i \in 1..(Len(smItems) - 1) /\ i + 1 \in DOMAIN smItems BY <1>1, <3>1
    <3> QED BY <2>1, <2>3, <3>2
   <2>5. \A i \in DOMAIN smItems' : i \in Nat /\ i <= Len(smItems) BY <1>1, <2>3
   <2>9. \A i, j \in DOMAIN smItems' : i < j => i # Len(smItems) /\ i + 1 < j + 1 BY <1>1, <2>5
   <2>10. smDropped'.oldest = smDropped.oldest + 1 /\ smDropped'.newest = smDropped.newest
          /\ smDropped' \in [oldest : Nat, newest : Nat]
    <3> DEFINE o == smDropped.oldest
               w == smDropped.newest
    <3>1. smDropped = [oldest |-> o, newest |-> w] /\ o \in Nat /\ w \in Nat BY <1>1
    <3>2. smDropped' = [oldest |-> o + 1, newest |-> w]
     <4> HIDE DEF o, w
     <4>1. smDropped' = [smDropped EXCEPT !.oldest = smDropped.oldest + 1] BY <1>4
     <4> QED BY <3>1, <4>1
    <3> HIDE DEF o, w
    <3>3. smDropped'.oldest = o + 1 /\ smDropped'.newest = w /\ smDropped' \in [oldest : Nat, newest : Nat]
      BY <3>1, <3>2
    <3> QED BY <3>3 DEF o, w
   <2> HIDE DEF x
   <2>6. \A i, j \in DOMAIN smItems' : i < j => smItems'[i] < smItems'[j] BY <1>2, <2>4, <2>9
   <2>7. \A i \in DOMAIN smGot, j \in DOMAIN smItems' : smGot[i] < smItems'[j] BY <1>2, <2>4
   <2>8. \A i \in DOMAIN smItems' : smItems'[i] <= x BY <1>1, <1>2, <1>6, <2>4, SMTT(30)
   <2>11. \A i \in DOMAIN smGot : smGot[i] <= x BY <1>1, <1>2, <1>6
   <2>12. x = Len(smGot) + Len(smItems') + smDropped'.oldest + smDropped'.newest
     BY <1>1, <1>2, <2>3, <2>10 DEF x
   <2> QED BY <1>2, <2>3, <2>6, <2>7, <2>8, <2>10, <2>11, <2>12 DEF InOrder, x
  <1>5. CASE smDropped' = [smDropped EXCEPT !.newest = @ + 1] /\ smItems' = smItems
   <2>1. smDropped'.oldest = smDropped.oldest /\ smDropped'.newest = smDropped.newest + 1
         /\ smDropped' \in [oldest : Nat, newest : Nat]
     BY <1>1, <1>5
   <2>2. \A i \in DOMAIN smGot : smGot[i] \in Nat /\ smGot[i] <= x BY <1>1, <1>2, SMTT(30)
   <2>3. \A i \in DOMAIN smItems : smItems[i] \in Nat /\ smItems[i] <= x BY <1>1, <1>2, SMTT(30)
   <2>4. x = Len(smGot) + Len(smItems) + smDropped'.oldest + smDropped'.newest BY <1>1, <1>2, <2>1
   <2> QED BY <1>1, <1>2, <1>5, <2>1, <2>2, <2>3, <2>4 DEF InOrder
  <1> QED BY <1>3, <1>4, <1>5 DEF Put, PutFull

(* A consumer takes the first item. *)
LEMMA GetKeeps ==
    ASSUME StreamInv, GetItem
    PROVE  InOrder' /\ smItems' \in Seq(Nat) /\ smGot' \in Seq(Nat)
  <1>1. /\ smItems \in Seq(Nat) /\ smGot \in Seq(Nat) /\ smItems # <<>>
        /\ Len(smItems) \in Nat \ {0} /\ Len(smGot) \in Nat /\ 1 \in DOMAIN smItems
        /\ smGot' = Append(smGot, smItems[1]) /\ smItems' = Tail(smItems)
        /\ UNCHANGED <<smDropped, smMade>>
    BY DEF StreamInv, StreamShape, GetItem
  <1>2. /\ smMade = Len(smGot) + Len(smItems) + smDropped.oldest + smDropped.newest
        /\ \A i, j \in DOMAIN smGot : i < j => smGot[i] < smGot[j]
        /\ \A i, j \in DOMAIN smItems : i < j => smItems[i] < smItems[j]
        /\ \A i \in DOMAIN smGot, j \in DOMAIN smItems : smGot[i] < smItems[j]
        /\ \A i \in DOMAIN smGot : smGot[i] <= smMade
        /\ \A i \in DOMAIN smItems : smItems[i] <= smMade
        /\ smDropped.oldest \in Nat /\ smDropped.newest \in Nat
    BY DEF StreamInv, StreamShape, InOrder
  <1>3. /\ smItems' \in Seq(Nat) /\ Len(smItems') = Len(smItems) - 1
        /\ \A i \in DOMAIN smItems' : i + 1 \in DOMAIN smItems /\ smItems'[i] = smItems[i + 1] /\ 1 < i + 1
    BY <1>1
  <1>4. \A i, j \in DOMAIN smItems' : i < j => i + 1 < j + 1 BY <1>3
  <1>5. smItems[1] \in Nat BY <1>1
  <1>6. /\ smGot' \in Seq(Nat) /\ Len(smGot') = Len(smGot) + 1
        /\ \A i \in DOMAIN smGot' : \/ i \in DOMAIN smGot /\ smGot'[i] = smGot[i]
                                    \/ i = Len(smGot) + 1 /\ smGot'[i] = smItems[1]
        /\ \A i \in DOMAIN smGot' : i \in Nat /\ i <= Len(smGot) + 1
    BY <1>1, <1>5
  <1>7. \A i, j \in DOMAIN smGot' : i < j => i # Len(smGot) + 1 BY <1>1, <1>6
  <1>8. \A i, j \in DOMAIN smGot' : i < j => smGot'[i] < smGot'[j] BY <1>1, <1>2, <1>6, <1>7
  <1>9. \A i, j \in DOMAIN smItems' : i < j => smItems'[i] < smItems'[j] BY <1>2, <1>3, <1>4
  <1>10. \A i \in DOMAIN smGot', j \in DOMAIN smItems' : smGot'[i] < smItems'[j]
    BY <1>1, <1>2, <1>3, <1>6
  <1>11. (\A i \in DOMAIN smGot' : smGot'[i] <= smMade) /\ (\A i \in DOMAIN smItems' : smItems'[i] <= smMade)
    BY <1>1, <1>2, <1>3, <1>6
  <1>12. smMade = Len(smGot') + Len(smItems') + smDropped.oldest + smDropped.newest
    BY <1>1, <1>2, <1>3, <1>6
  <1> QED BY <1>1, <1>3, <1>6, <1>8, <1>9, <1>10, <1>11, <1>12 DEF InOrder

(* What was consumed and what is buffered, one after the other. *)
LEMMA AllInOrder ==
    ASSUME StreamInv, NEW all, all = smGot \o smItems
    PROVE  /\ all \in Seq(Nat) /\ Len(all) = Len(smGot) + Len(smItems)
           /\ \A i, j \in DOMAIN all : i < j => all[i] < all[j]
           /\ \A i \in DOMAIN all : all[i] <= smMade
  <1>1. /\ smItems \in Seq(Nat) /\ smGot \in Seq(Nat) /\ Len(smItems) \in Nat /\ Len(smGot) \in Nat
        /\ \A i, j \in DOMAIN smGot : i < j => smGot[i] < smGot[j]
        /\ \A i, j \in DOMAIN smItems : i < j => smItems[i] < smItems[j]
        /\ \A i \in DOMAIN smGot, j \in DOMAIN smItems : smGot[i] < smItems[j]
        /\ \A i \in DOMAIN smGot : smGot[i] <= smMade
        /\ \A i \in DOMAIN smItems : smItems[i] <= smMade
    BY DEF StreamInv, StreamShape, InOrder
  <1>2. /\ all \in Seq(Nat) /\ Len(all) = Len(smGot) + Len(smItems)
        /\ \A i \in 1 .. Len(smGot) + Len(smItems) :
              all[i] = IF i <= Len(smGot) THEN smGot[i] ELSE smItems[i - Len(smGot)]
    BY <1>1, ConcatProperties
  <1>3. \A i \in DOMAIN all : \/ i \in DOMAIN smGot /\ all[i] = smGot[i] /\ i <= Len(smGot)
                              \/ /\ i > Len(smGot) /\ i - Len(smGot) \in DOMAIN smItems
                                 /\ all[i] = smItems[i - Len(smGot)]
    BY <1>1, <1>2
  <1>4. \A i, j \in DOMAIN all : i < j => i - Len(smGot) < j - Len(smGot) /\ ~(i > Len(smGot) /\ j <= Len(smGot))
    BY <1>1, <1>2
  <1>5. \A i, j \in DOMAIN all : i < j => all[i] < all[j] BY <1>1, <1>3, <1>4
  <1>6. \A i \in DOMAIN all : all[i] <= smMade BY <1>1, <1>3
  <1> QED BY <1>2, <1>5, <1>6

(* A consumer takes everything. *)
LEMMA DrainKeeps ==
    ASSUME StreamInv, Drain
    PROVE  InOrder' /\ smItems' \in Seq(Nat) /\ smGot' \in Seq(Nat)
  <1>1. smGot' = smGot \o smItems /\ smItems' = <<>> /\ UNCHANGED <<smDropped, smMade>> BY DEF Drain
  <1>2. /\ smGot' \in Seq(Nat) /\ Len(smGot') = Len(smGot) + Len(smItems)
        /\ \A i, j \in DOMAIN smGot' : i < j => smGot'[i] < smGot'[j]
        /\ \A i \in DOMAIN smGot' : smGot'[i] <= smMade
    BY <1>1, AllInOrder
  <1>3. smItems' \in Seq(Nat) /\ Len(smItems') = 0 /\ DOMAIN smItems' = {} BY <1>1
  <1>4. /\ smMade = Len(smGot) + Len(smItems) + smDropped.oldest + smDropped.newest
        /\ Len(smItems) \in Nat /\ Len(smGot) \in Nat /\ smDropped.oldest \in Nat /\ smDropped.newest \in Nat
    BY DEF StreamInv, StreamShape, InOrder
  <1>5. smMade = Len(smGot') + Len(smItems') + smDropped.oldest + smDropped.newest
    BY <1>2, <1>3, <1>4
  <1> QED BY <1>1, <1>2, <1>3, <1>5 DEF InOrder

(* A subscriber that resumes has everything the log holds. *)
LEMMA ResumeKeeps ==
    ASSUME StreamInv, Resume
    PROVE  LogConsecutive' /\ smClient' \in [after : Int, has : SUBSET Int]
  <1> DEFINE after == smClient.after
             got == SinceSeq(after)
             b == Behind(after)
             n == Len(smLog)
             items == {got[i].item : i \in DOMAIN got}
  <1>1. /\ n \in Nat /\ smNextSeq \in Nat /\ n <= smNextSeq /\ smLog \in Seq(LogEntry)
        /\ \A i \in 1..n : smLog[i].seq = smNextSeq - n + i - 1 /\ smLog[i].item = smLog[i].seq + 1
        /\ after \in -1 .. smNextSeq - 1 /\ \A k \in smClient.has : k <= after + 1
        /\ \A i \in 1..n : smLog[i].seq <= after => smLog[i].item \in smClient.has
        /\ smClient \in [after : Int, has : SUBSET Int]
    BY DEF StreamInv, StreamShape, LogConsecutive
  <1>2. /\ b \in 0..n /\ got \in Seq(LogEntry) /\ Len(got) = n - b
        /\ \A j \in 1 .. n - b : got[j] = smLog[b + j]
        /\ \A i \in 1..n : smLog[i].seq > after <=> i > b
    BY <1>1, SinceTells
  <1>3. got # <<>> /\ smClient' = [after |-> Last(got).seq, has |-> smClient.has \cup items]
        /\ UNCHANGED <<smLog, smNextSeq>>
    BY DEF Resume
  <1> HIDE DEF got, b
  <1>4. n - b \in Nat \ {0} /\ Last(got) = smLog[n] /\ n \in 1..n
   <2>1. n - b \in Nat \ {0} /\ DOMAIN got = 1..(n - b) BY <1>1, <1>2, <1>3
   <2>2. Last(got) = got[n - b] /\ b + (n - b) = n BY <1>1, <1>2, <2>1 DEF Last
   <2> QED BY <1>1, <1>2, <2>1, <2>2, SMTT(30)
  <1>5. smLog[n].seq = smNextSeq - 1 BY <1>1, <1>4
  <1>6. smClient'.after = smNextSeq - 1 /\ smClient'.has = smClient.has \cup items
    BY <1>3, <1>4, <1>5
  <1>7. \A i \in DOMAIN got : /\ i \in 1 .. n - b /\ b + i \in 1..n /\ got[i].item = smLog[b + i].item
   <2> TAKE i \in DOMAIN got
   <2>1. i \in 1 .. n - b BY <1>1, <1>2
   <2>2. b + i \in 1..n BY <1>1, <1>2, <2>1
   <2> QED BY <1>2, <2>1, <2>2
  <1>8. items \subseteq Int /\ \A k \in items : k <= smNextSeq
   <2> SUFFICES ASSUME NEW i \in DOMAIN got PROVE got[i].item \in Int /\ got[i].item <= smNextSeq
     OBVIOUS
   <2>1. b + i \in 1..n /\ got[i].item = smNextSeq - n + (b + i) - 1 + 1 BY <1>1, <1>7
   <2> QED BY <1>1, <1>2, <2>1, SMTT(30)
  <1>9. \A i \in 1..n : smLog[i].item \in smClient'.has
   <2> TAKE i \in 1..n
   <2>1. CASE i > b
    <3>1. i - b \in DOMAIN got /\ b + (i - b) = i BY <1>1, <1>2, <2>1
    <3>2. got[i - b].item = smLog[i].item BY <1>7, <3>1
    <3> QED BY <1>6, <3>1, <3>2
   <2>2. CASE ~(i > b)
    <3>1. smLog[i].seq \in Int /\ ~(smLog[i].seq > after) BY <1>1, <1>2, <2>2
    <3> QED BY <1>1, <1>6, <3>1
   <2> QED BY <2>1, <2>2
  <1> HIDE DEF items
  <1>10. \A k \in smClient'.has : k <= smClient'.after + 1
   <2>1. \A k \in smClient.has : k \in Int /\ k <= smNextSeq BY <1>1
   <2>2. smClient'.after + 1 = smNextSeq BY <1>1, <1>6
   <2> QED BY <1>6, <1>8, <2>1, <2>2
  <1>11. smClient' \in [after : Int, has : SUBSET Int]
   <2>1. Last(got).seq \in Int BY <1>1, <1>4, <1>5
   <2> QED BY <1>1, <1>3, <1>8, <2>1
  <1> HIDE DEF after
  <1>12. LogConsecutive' BY <1>1, <1>3, <1>6, <1>9, <1>10 DEF LogConsecutive
  <1> QED BY <1>11, <1>12

(* Every step of the stream keeps the invariant. *)
LEMMA StreamSteps ==
    ASSUME StreamInv, [StreamNext]_smVars
    PROVE  StreamInv'
  <1>1. CASE Produce
   <2>1. /\ Put /\ Record /\ smMade' = smMade + 1 /\ smNextSeq' = smNextSeq + 1
         /\ UNCHANGED <<smPolicy, smGot, smClient>>
     BY <1>1 DEF Produce
   <2>2. LogConsecutive' /\ smLog' \in Seq(LogEntry) BY <2>1, RecordKeeps
   <2>3. InOrder' /\ smItems' \in Seq(Nat) /\ smDropped' \in [oldest : Nat, newest : Nat]
     BY <2>1, PutKeeps
   <2> QED BY <2>1, <2>2, <2>3 DEF StreamInv, StreamShape
  <1>2. CASE GetItem
   <2>1. InOrder' /\ smItems' \in Seq(Nat) /\ smGot' \in Seq(Nat) BY <1>2, GetKeeps
   <2>2. UNCHANGED <<smPolicy, smDropped, smMade, smLog, smNextSeq, smClient>> BY <1>2 DEF GetItem
   <2> QED BY <2>1, <2>2 DEF StreamInv, StreamShape, LogConsecutive
  <1>3. CASE Drain
   <2>1. InOrder' /\ smItems' \in Seq(Nat) /\ smGot' \in Seq(Nat) BY <1>3, DrainKeeps
   <2>2. UNCHANGED <<smPolicy, smDropped, smMade, smLog, smNextSeq, smClient>> BY <1>3 DEF Drain
   <2> QED BY <2>1, <2>2 DEF StreamInv, StreamShape, LogConsecutive
  <1>4. CASE Resume
   <2>1. LogConsecutive' /\ smClient' \in [after : Int, has : SUBSET Int] BY <1>4, ResumeKeeps
   <2>2. UNCHANGED <<smPolicy, smItems, smDropped, smMade, smGot, smLog, smNextSeq>>
     BY <1>4 DEF Resume
   <2> QED BY <2>1, <2>2 DEF StreamInv, StreamShape, InOrder
  <1>5. CASE ClearLog
   <2>1. smLog' = <<>> /\ UNCHANGED <<smPolicy, smItems, smDropped, smMade, smGot, smNextSeq, smClient>>
     BY <1>5 DEF ClearLog
   <2>2. smLog' \in Seq(LogEntry) /\ Len(smLog') = 0 BY <2>1
   <2>3. smNextSeq \in Nat BY DEF StreamInv, StreamShape
   <2> QED BY <2>1, <2>2, <2>3 DEF StreamInv, StreamShape, InOrder, LogConsecutive
  <1>6. CASE UNCHANGED smVars BY <1>6 DEF smVars, StreamInv, StreamShape, InOrder, LogConsecutive
  <1> QED BY <1>1, <1>2, <1>3, <1>4, <1>5, <1>6 DEF StreamNext

(* So items are accounted for and the replay tells its gaps. *)
LEMMA StreamTells ==
    ASSUME StreamInv
    PROVE  ItemsAccounted /\ ReplayTellsGaps
  <1>1. ItemsAccounted
   <2> DEFINE all == smGot \o smItems
   <2>1. \A i, j \in DOMAIN all : i < j => all[i] < all[j] BY AllInOrder
   <2> QED BY <2>1 DEF StreamInv, InOrder, ItemsAccounted
  <1> DEFINE after == smClient.after
             n == Len(smLog)
  <1>2. /\ n \in Nat /\ smNextSeq \in Nat /\ n <= smNextSeq /\ smLog \in Seq(LogEntry)
        /\ \A i \in 1..n : smLog[i].seq = smNextSeq - n + i - 1 /\ smLog[i].item = smLog[i].seq + 1
        /\ after \in -1 .. smNextSeq - 1 /\ \A k \in smClient.has : k <= after + 1
        /\ \A i \in 1..n : smLog[i].seq <= after => smLog[i].item \in smClient.has
    BY DEF StreamInv, StreamShape, LogConsecutive
  <1>3. \A i \in DOMAIN smLog : smLog[i].seq > after <=> smLog[i].item \notin smClient.has
   <2> TAKE i \in DOMAIN smLog
   <2>1. i \in 1..n BY <1>2
   <2>2. smLog[i].seq \in Int /\ smLog[i].item = smLog[i].seq + 1 /\ after \in Int BY <1>2, <2>1
   <2>3. smLog[i].item \in smClient.has => smLog[i].seq <= after BY <1>2, <2>2
   <2> QED BY <1>2, <2>1, <2>2, <2>3, SMTT(30)
  <1>4. ASSUME smLog # <<>>, smLog[1].seq <= after + 1
        PROVE  Len(SinceSeq(after)) = smNextSeq - after - 1
   <2>1. n \in Nat \ {0} BY <1>2, <1>4
   <2>2. smLog[1].seq = smNextSeq - n BY <1>2, <2>1
   <2>3. Behind(after) = after + 1 - (smNextSeq - n) BY <1>2, <1>4, <2>2 DEF Behind
   <2>4. Len(SinceSeq(after)) = n - Behind(after) BY <1>2, SinceTells
   <2> QED BY <1>2, <2>3, <2>4
  <1> QED BY <1>1, <1>3, <1>4 DEF ReplayTellsGaps

----------------------------------------
(* The registry with its failover. *)

CallFields == {"pc", "method", "todo", "left", "attempt", "empty", "said", "result"}

(* A call is a record of its fields, and what the adapters said a sequence of pairs. *)
CallShape(c) ==
    /\ c = [f \in CallFields |-> c[f]]
    /\ \E S : c.said \in Seq(S)
    /\ c.empty \in BOOLEAN

SaidIn(c) == {c.said[i][2] : i \in DOMAIN c.said}

(* What the adapters before the current one did: they failed or were empty. *)
NoneAnswered(c) == SaidIn(c) \subseteq {"error", "empty"} /\ (c.empty <=> "empty" \in SaidIn(c))

(* The verdict is the truth about the candidates. *)
Truthful(c) ==
    /\ c.result = "unavailable" => SaidIn(c) \subseteq {"error"}
    /\ c.result = "empty" => "empty" \in SaidIn(c) /\ "answer" \notin SaidIn(c)
    /\ c.result = "answer" =>
          \A i \in DOMAIN c.said : (c.said[i][2] = "answer") = (i = Len(c.said))

CallHonest(c) ==
    /\ CallShape(c)
    /\ c.pc \in {"cache", "request", "parse"} => NoneAnswered(c)
    /\ c.pc = "done" => Truthful(c)
    /\ c.pc = "idle" => c.said = <<>> /\ c.empty = FALSE

FailoverInv == CallHonest(dpCall)

(* A call whose record of what was said is another's has its shape. *)
LEMMA ShapeKept ==
    ASSUME NEW c, NEW d, CallShape(c), d = [f \in CallFields |-> d[f]], d.said = c.said,
           d.empty \in BOOLEAN
    PROVE  CallShape(d) /\ SaidIn(d) = SaidIn(c)
  <1>1. PICK S : c.said \in Seq(S)
    BY DEF CallShape
  <1>2. d.said \in Seq(S) BY <1>1
  <1>3. CallShape(d) BY <1>2 DEF CallShape
  <1>4. SaidIn(d) = SaidIn(c) BY DEF SaidIn
  <1> QED BY <1>3, <1>4

(* The next adapter begins with what was said before it. *)
LEMMA BeginsHonest ==
    ASSUME NEW c, CallShape(c), NoneAnswered(c), NEW a
    PROVE  CallHonest(BeginAdapter(c, a))
  <1> DEFINE d == BeginAdapter(c, a)
  <1>1. /\ d = [f \in CallFields |-> d[f]] /\ d.pc \in {"cache", "request"}
        /\ d.said = c.said /\ d.empty = c.empty
    BY DEF CallShape, CallFields, BeginAdapter
  <1> HIDE DEF d
  <1>2. d.empty \in BOOLEAN BY <1>1 DEF CallShape
  <1>3. CallShape(d) /\ SaidIn(d) = SaidIn(c) BY <1>1, <1>2, ShapeKept
  <1>4. NoneAnswered(d) BY <1>1, <1>3 DEF NoneAnswered
  <1>5. CallHonest(d) BY <1>1, <1>3, <1>4 DEF CallHonest
  <1> QED BY <1>5 DEF d

(* A verdict that fits what was said. *)
LEMMA FinishesHonest ==
    ASSUME NEW c, CallShape(c), NEW result,
           result = "unavailable" => SaidIn(c) \subseteq {"error"},
           result = "empty" => "empty" \in SaidIn(c) /\ "answer" \notin SaidIn(c),
           result = "answer" => \A i \in DOMAIN c.said : (c.said[i][2] = "answer") = (i = Len(c.said))
    PROVE  CallHonest(FinishCall(c, result))
  <1> DEFINE d == FinishCall(c, result)
  <1>1. /\ d = [f \in CallFields |-> d[f]] /\ d.pc = "done" /\ d.result = result
        /\ d.said = c.said /\ d.empty = c.empty
    BY DEF CallShape, CallFields, FinishCall
  <1> HIDE DEF d
  <1>2. d.empty \in BOOLEAN BY <1>1 DEF CallShape
  <1>3. CallShape(d) /\ SaidIn(d) = SaidIn(c) BY <1>1, <1>2, ShapeKept
  <1>4. Truthful(d) BY <1>1, <1>3 DEF Truthful
  <1>5. CallHonest(d) BY <1>1, <1>3, <1>4 DEF CallHonest
  <1> QED BY <1>5 DEF d

(* The next candidate, or the verdict when there is none. *)
LEMMA NextHonest ==
    ASSUME NEW c, CallShape(c), NoneAnswered(c)
    PROVE  CallHonest(NextAdapter(c))
  <1>1. CASE Len(c.todo) > 1
   <2> DEFINE d == [c EXCEPT !.todo = Tail(c.todo)]
   <2>1. /\ d = [f \in CallFields |-> d[f]] /\ d.said = c.said /\ d.empty = c.empty
     BY DEF CallShape, CallFields
   <2>2. NextAdapter(c) = BeginAdapter(d, c.todo[2].adapter) BY <1>1 DEF NextAdapter
   <2> HIDE DEF d
   <2>3. CallShape(d) /\ NoneAnswered(d)
    <3>1. d.empty \in BOOLEAN BY <2>1 DEF CallShape
    <3>2. CallShape(d) /\ SaidIn(d) = SaidIn(c) BY <2>1, <3>1, ShapeKept
    <3> QED BY <2>1, <3>2 DEF NoneAnswered
   <2> QED BY <2>2, <2>3, BeginsHonest
  <1>2. CASE ~(Len(c.todo) > 1)
   <2>1. NextAdapter(c) = FinishCall(c, IF c.empty THEN "empty" ELSE "unavailable")
     BY <1>2 DEF NextAdapter
   <2>2. c.empty => "empty" \in SaidIn(c) /\ "answer" \notin SaidIn(c) BY DEF NoneAnswered
   <2>3. ~c.empty => SaidIn(c) \subseteq {"error"} BY DEF NoneAnswered
   <2>4. CASE c.empty BY <2>1, <2>2, <2>4, FinishesHonest
   <2>5. CASE ~c.empty BY <2>1, <2>3, <2>5, FinishesHonest
   <2> QED BY <2>4, <2>5
  <1> QED BY <1>1, <1>2

(* Whatever the current adapter did, the call stays honest. *)
LEMMA SaidHonest ==
    ASSUME NEW c, CallShape(c), NoneAnswered(c), NEW what \in {"answer", "empty", "error", "other"}
    PROVE  CallHonest(AdapterSaid(c, what))
  <1> DEFINE e == <<c.todo[1].adapter.name, what>>
             n == [c EXCEPT !.said = Append(c.said, e)]
  <1>1. e[2] = what OBVIOUS
  <1> HIDE DEF e
  <1>2. PICK S : c.said \in Seq(S)
    BY DEF CallShape
  <1>3. /\ Append(c.said, e) \in Seq(S \cup {e}) /\ Len(Append(c.said, e)) = Len(c.said) + 1
        /\ Len(c.said) \in Nat /\ DOMAIN c.said = 1..Len(c.said)
        /\ \A i \in 1..Len(c.said) : Append(c.said, e)[i] = c.said[i]
        /\ Append(c.said, e)[Len(c.said) + 1] = e
        /\ DOMAIN Append(c.said, e) = 1 .. Len(c.said) + 1
   <2>1. c.said \in Seq(S \cup {e}) /\ e \in S \cup {e} BY <1>2
   <2> HIDE DEF e
   <2> QED BY <2>1
  <1>4. /\ n = [f \in CallFields |-> n[f]] /\ n.said = Append(c.said, e) /\ n.empty = c.empty
        /\ n.todo = c.todo /\ n.method = c.method
    BY DEF CallShape, CallFields
  <1>5. CallShape(n)
   <2> HIDE DEF n
   <2> QED BY <1>3, <1>4 DEF CallShape
  <1>6. /\ AdapterSaid(c, what) \in {FinishCall(n, "answer"), NextAdapter([n EXCEPT !.empty = TRUE]),
                                     FinishCall(n, "empty"), NextAdapter(n), FinishCall(n, "escaped")}
        /\ what = "answer" => AdapterSaid(c, what) = FinishCall(n, "answer")
        /\ what = "empty" => AdapterSaid(c, what) \in {NextAdapter([n EXCEPT !.empty = TRUE]), FinishCall(n, "empty")}
        /\ what = "error" => AdapterSaid(c, what) = NextAdapter(n)
        /\ what = "other" => AdapterSaid(c, what) = FinishCall(n, "escaped")
    BY DEF AdapterSaid, e
  <1> HIDE DEF n
  <1>7. SaidIn(n) = SaidIn(c) \cup {what}
   <2>1. \A i \in DOMAIN n.said : n.said[i][2] \in SaidIn(c) \cup {what}
    <3> TAKE i \in DOMAIN n.said
    <3>1. i \in 1 .. Len(c.said) + 1 /\ Len(c.said) \in Nat BY <1>3, <1>4
    <3>2. CASE i = Len(c.said) + 1 BY <1>1, <1>3, <1>4, <3>2
    <3>3. CASE i # Len(c.said) + 1
     <4>1. i \in DOMAIN c.said /\ n.said[i] = c.said[i] BY <1>3, <1>4, <3>1, <3>3, SMTT(60)
     <4> QED BY <4>1 DEF SaidIn
    <3> QED BY <3>2, <3>3
   <2>2. \A i \in DOMAIN c.said : i \in DOMAIN n.said /\ n.said[i] = c.said[i]
     BY <1>3, <1>4, SMTT(30)
   <2>3. Len(c.said) + 1 \in DOMAIN n.said /\ n.said[Len(c.said) + 1][2] = what BY <1>1, <1>3, <1>4
   <2> QED BY <2>1, <2>2, <2>3 DEF SaidIn
  <1>8. CASE what = "answer"
   <2>1. \A i \in DOMAIN c.said : c.said[i][2] # "answer" BY DEF NoneAnswered, SaidIn
   <2>2. \A i \in DOMAIN n.said : (n.said[i][2] = "answer") = (i = Len(n.said))
    <3> TAKE i \in DOMAIN n.said
    <3>1. Len(n.said) = Len(c.said) + 1 /\ Len(c.said) \in Nat /\ i \in 1 .. Len(c.said) + 1
      BY <1>3, <1>4
    <3>2. CASE i = Len(c.said) + 1 BY <1>1, <1>3, <1>4, <1>8, <3>1, <3>2
    <3>3. CASE i # Len(c.said) + 1
     <4>1. i \in DOMAIN c.said /\ n.said[i] = c.said[i] /\ i # Len(n.said) BY <1>3, <1>4, <3>1, <3>3
     <4>2. n.said[i][2] # "answer" BY <2>1, <4>1
     <4> QED BY <4>1, <4>2
    <3> QED BY <3>2, <3>3
   <2> QED BY <1>5, <1>6, <1>8, <2>2, FinishesHonest
  <1>9. CASE what = "empty"
   <2> DEFINE m == [n EXCEPT !.empty = TRUE]
   <2>1. m = [f \in CallFields |-> m[f]] /\ m.said = n.said /\ m.empty = TRUE BY <1>4 DEF CallFields
   <2> HIDE DEF m
   <2>2. SaidIn(n) \subseteq {"error", "empty"} /\ "empty" \in SaidIn(n)
     BY <1>7, <1>9 DEF NoneAnswered
   <2>3. CallShape(m) /\ NoneAnswered(m)
    <3>1. CallShape(m) /\ SaidIn(m) = SaidIn(n) BY <1>5, <2>1, ShapeKept
    <3> QED BY <2>1, <2>2, <3>1 DEF NoneAnswered
   <2>4. CallHonest(NextAdapter(m)) BY <2>3, NextHonest
   <2>5. CallHonest(FinishCall(n, "empty")) BY <1>5, <2>2, FinishesHonest
   <2> QED BY <1>6, <1>9, <2>4, <2>5 DEF m
  <1>10. CASE what = "error"
   <2>1. NoneAnswered(n) BY <1>4, <1>7, <1>10 DEF NoneAnswered
   <2> QED BY <1>5, <1>6, <1>10, <2>1, NextHonest
  <1>11. CASE what = "other" BY <1>5, <1>6, <1>11, FinishesHonest
  <1> QED BY <1>8, <1>9, <1>10, <1>11

(* The invariant of the calls holds at the start. *)
LEMMA IdleHonest ==
    CallHonest(IdleDataCall)
  <1>1. <<>> \in Seq({}) OBVIOUS
  <1>2. /\ IdleDataCall = [f \in CallFields |-> IdleDataCall[f]]
        /\ IdleDataCall.said = <<>> /\ IdleDataCall.empty = FALSE /\ IdleDataCall.pc = "idle"
    BY DEF IdleDataCall, CallFields
  <1> HIDE DEF IdleDataCall
  <1> QED BY <1>1, <1>2 DEF CallHonest, CallShape

(* A new call of some method over some adapters. *)
LEMMA NewCallHonest ==
    ASSUME NEW m, NEW todo, NEW c, c = [IdleDataCall EXCEPT !.method = m, !.todo = todo]
    PROVE  CallShape(c) /\ NoneAnswered(c) /\ c.said = <<>>
  <1>1. <<>> \in Seq({}) /\ DOMAIN <<>> = {} OBVIOUS
  <1>2. c = [f \in CallFields |-> c[f]] /\ c.said = <<>> /\ c.empty = FALSE
    BY DEF IdleDataCall, CallFields
  <1> QED BY <1>1, <1>2 DEF CallShape, NoneAnswered, SaidIn

(* At first there is no call. *)
LEMMA FailoverStarts ==
    ASSUME FailoverInit
    PROVE  FailoverInv
  BY IdleHonest DEF FailoverInit, FailoverInv

(* Every step of the registry keeps the call honest. *)
LEMMA FailoverSteps ==
    ASSUME FailoverInv, [FailoverNext]_dpVars
    PROVE  FailoverInv'
  <1>1. ASSUME NEW m \in DataMethods, NEW cls \in AssetClasses, RegistryCall(m, cls)
        PROVE  FailoverInv'
   <2> DEFINE todo == CandidatesFor(cls, m)
              c == [IdleDataCall EXCEPT !.method = m, !.todo = todo]
              none == IF RetryOnEmpty(m) THEN "unavailable" ELSE "unsupported"
   <2>1. dpCall' = IF todo = <<>> THEN FinishCall(c, none) ELSE BeginAdapter(c, todo[1].adapter)
     BY <1>1 DEF RegistryCall
   <2> HIDE DEF todo
   <2>2. CallShape(c) /\ NoneAnswered(c) /\ c.said = <<>> BY NewCallHonest
   <2>3. none \in {"unavailable", "unsupported"} OBVIOUS
   <2> HIDE DEF c, none
   <2>4. SaidIn(c) = {} BY <2>2 DEF SaidIn
   <2>5. CallHonest(FinishCall(c, none)) BY <2>2, <2>3, <2>4, FinishesHonest
   <2>6. CallHonest(BeginAdapter(c, todo[1].adapter)) BY <2>2, BeginsHonest
   <2> QED BY <2>1, <2>5, <2>6 DEF FailoverInv
  <1>2. ASSUME NEW m \in DataMethods, NEW r \in dpRegs, PinnedCall(m, r)
        PROVE  FailoverInv'
   <2> DEFINE c == [IdleDataCall EXCEPT !.method = m, !.todo = <<r>>]
   <2>1. dpCall' = BeginAdapter(c, r.adapter) BY <1>2 DEF PinnedCall
   <2>2. CallShape(c) /\ NoneAnswered(c) BY NewCallHonest
   <2> HIDE DEF c
   <2> QED BY <2>1, <2>2, BeginsHonest DEF FailoverInv
  <1>3. CASE CallStep
   <2>1. CallShape(dpCall) /\ NoneAnswered(dpCall)
     BY <1>3 DEF CallStep, ReadCache, RequestOnce, ParseBody, FailoverInv, CallHonest
   <2>2. \A what \in {"answer", "empty", "error", "other"} : CallHonest(AdapterSaid(dpCall, what))
     BY <2>1, SaidHonest
   <2>3. \/ \E what \in {"answer", "empty", "error", "other"} : dpCall' = AdapterSaid(dpCall, what)
         \/ dpCall' = [dpCall EXCEPT !.pc = "request"] \/ dpCall' = [dpCall EXCEPT !.pc = "parse"]
         \/ dpCall' = [dpCall EXCEPT !.attempt = @ + 1]
         \/ dpCall' = [dpCall EXCEPT !.pc = "request", !.left = @ - 1, !.attempt = 1]
    <3>1. CASE ReadCache BY <3>1 DEF ReadCache
    <3>2. CASE RequestOnce
     <4>1. RequestFailed(dpCall) \in {AdapterSaid(dpCall, "empty"), AdapterSaid(dpCall, "error")}
       BY DEF RequestFailed
     <4> QED BY <3>2, <4>1 DEF RequestOnce
    <3>3. CASE ParseBody BY <3>3 DEF ParseBody
    <3> QED BY <1>3, <3>1, <3>2, <3>3 DEF CallStep
   <2>4. CASE \/ dpCall' = [dpCall EXCEPT !.pc = "request"] \/ dpCall' = [dpCall EXCEPT !.pc = "parse"]
              \/ dpCall' = [dpCall EXCEPT !.attempt = @ + 1]
              \/ dpCall' = [dpCall EXCEPT !.pc = "request", !.left = @ - 1, !.attempt = 1]
    <3>1. /\ dpCall' = [f \in CallFields |-> dpCall'[f]] /\ dpCall'.said = dpCall.said
          /\ dpCall'.empty = dpCall.empty /\ dpCall'.pc \in {"cache", "request", "parse"}
     <4>1. dpCall.pc \in {"cache", "request", "parse"}
       BY <1>3 DEF CallStep, ReadCache, RequestOnce, ParseBody
     <4> QED BY <2>1, <2>4, <4>1 DEF CallShape, CallFields
    <3> QED BY <2>1, <3>1, ZenonT(60) DEF FailoverInv, CallHonest, CallShape, NoneAnswered, SaidIn
   <2> QED BY <2>2, <2>3, <2>4 DEF FailoverInv
  <1>4. CASE CallReturns BY <1>4, IdleHonest DEF CallReturns, FailoverInv
  <1>5. ASSUME dpCall' = dpCall
        PROVE  FailoverInv'
   <2>1. CallHonest(dpCall) BY DEF FailoverInv
   <2>2. CallHonest(dpCall') BY <1>5, <2>1
   <2> QED BY <2>2 DEF FailoverInv
  <1> QED
    BY <1>1, <1>2, <1>3, <1>4, <1>5 DEF FailoverNext, Configure, Deregister, EntryExpires, dpVars

(* So the verdict is honest. *)
LEMMA FailoverHonest ==
    ASSUME FailoverInv
    PROVE  VerdictIsHonest
  BY DEF FailoverInv, CallHonest, Truthful, SaidIn, AllSaid, VerdictIsHonest
=============================================================================
