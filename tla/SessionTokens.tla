---------------------------- MODULE SessionTokens ----------------------------
(***************************************************************************)
(* What stands for a signed-in user: sessions, then refresh tokens.  The   *)
(* parts share no state.                                                   *)
(***************************************************************************)
EXTENDS Integers, Sequences, FiniteSets
LOCAL INSTANCE FiniteSetsExt

(***************************************************************************)
(* SessionService over the in-memory store (src/engine/api/sessions.py),   *)
(* for one user.  Every store call is an await: creations, touches and     *)
(* revocations interleave at them, kept apart by the user's lock, which    *)
(* touch and revoke take only after a first read without it.               *)
(***************************************************************************)
CONSTANTS Calls,          \* concurrent calls of the service
          MaxConcurrent,  \* max_concurrent
          MaxTotal,       \* max_total_per_user
          IdleTimeout, AbsoluteTimeout,
          MaxSessions,    \* bound: sessions created
          MaxClock        \* bound: last tick of the clock

ASSUME SessionAssumption ==
    /\ "free" \notin Calls   \* what no holder is called
    /\ MaxConcurrent \in Nat \ {0} /\ MaxTotal \in Nat \ {0}
    /\ IdleTimeout \in Nat /\ AbsoluteTimeout \in Nat
    /\ MaxSessions \in Nat /\ MaxClock \in Nat

VARIABLES seStore,    \* _by_id, in the order of _by_user: records with their id
          seLock,     \* the user's lock: the call that holds it, or "free"
          seCall,     \* each call: pc, the session it is about, what it read
          seNow,      \* the clock
          seHist      \* history: sessions created, the ones ever revoked

seVars == <<seStore, seLock, seCall, seNow, seHist>>

NoSession == [id |-> 0, revoked |-> FALSE, created |-> 0, last |-> 0]
IdleCall == [pc |-> "idle", id |-> 0, read |-> NoSession]

SessionInit ==
    /\ seStore = <<>> /\ seLock = "free" /\ seNow = 0
    /\ seCall = [c \in Calls |-> IdleCall]
    /\ seHist = [made |-> 0, revoked |-> {}]

Places(id) == {i \in DOMAIN seStore : seStore[i].id = id}
Lookup(id) == IF Places(id) = {} THEN NoSession ELSE seStore[CHOOSE i \in Places(id) : TRUE]
Active == {i \in DOMAIN seStore : ~seStore[i].revoked}

\* save: a known session is replaced in place, a new one appended and the oldest
\* records beyond the cap are dropped.
SaveSession(s) ==
    seStore' = IF Places(s.id) # {} THEN [i \in DOMAIN seStore |-> IF seStore[i].id = s.id THEN s ELSE seStore[i]]
               ELSE IF Len(seStore) >= MaxTotal THEN Append(Tail(seStore), s)
               ELSE Append(seStore, s)

AtCall(c, pc) == seCall[c].pc = pc
CallEnds(c) == /\ seCall' = [seCall EXCEPT ![c] = IdleCall]
           /\ seLock' = IF seLock = c THEN "free" ELSE seLock

----------------------------------------
(* create *)

CreateLocks(c) ==
    /\ AtCall(c, "idle") /\ seLock = "free" /\ seHist.made < MaxSessions
    /\ seLock' = c
    /\ seCall' = [seCall EXCEPT ![c].pc = "evict"]
    /\ UNCHANGED <<seStore, seNow, seHist>>

MutMustEvict == Cardinality(Active) > MaxConcurrent     \* lets the cap be passed by one

\* _evict_to_make_room_locked
MustEvict == Cardinality(Active) >= MaxConcurrent

\* At the cap the oldest active session is revoked.
CreateEvicts(c) ==
    /\ AtCall(c, "evict")
    /\ \/ /\ MustEvict
          /\ LET old == CHOOSE i \in Active : \A j \in Active : seStore[i].created <= seStore[j].created
             IN  /\ SaveSession([seStore[old] EXCEPT !.revoked = TRUE])
                 /\ seHist' = [seHist EXCEPT !.revoked = @ \cup {seStore[old].id}]
       \/ ~MustEvict /\ UNCHANGED <<seStore, seHist>>
    /\ seCall' = [seCall EXCEPT ![c].pc = "save"]
    /\ UNCHANGED <<seLock, seNow>>

CreateSaves(c) ==
    /\ AtCall(c, "save")
    /\ SaveSession([id |-> seHist.made + 1, revoked |-> FALSE, created |-> seNow, last |-> seNow])
    /\ seHist' = [seHist EXCEPT !.made = @ + 1]
    /\ CallEnds(c)
    /\ UNCHANGED seNow

----------------------------------------
(* touch *)

\* The first read, without the lock; an unknown session raises.
TouchReads(c, id) ==
    /\ AtCall(c, "idle") /\ Places(id) # {}
    /\ seCall' = [seCall EXCEPT ![c] = [pc |-> "touch", id |-> id, read |-> Lookup(id)]]
    /\ UNCHANGED <<seStore, seLock, seNow, seHist>>

MutRefetch(c) == seCall[c].read             \* trusts what it read before the lock

\* The record as it is now that the lock is held.
Refetch(c) == Lookup(seCall[c].id)

TouchLocks(c) ==
    /\ AtCall(c, "touch") /\ seLock = "free"
    /\ seLock' = c
    /\ seCall' = [seCall EXCEPT ![c].pc = "renew", ![c].read = Refetch(c)]
    /\ UNCHANGED <<seStore, seNow, seHist>>

MutUsable(s) == s # NoSession /\ ~s.revoked /\ seNow - s.last <= IdleTimeout   \* may be renewed for ever

Usable(s) == /\ s # NoSession /\ ~s.revoked
             /\ seNow - s.last <= IdleTimeout /\ seNow - s.created <= AbsoluteTimeout

\* Gone, revoked or expired raises; otherwise last_active_at is renewed.
TouchSaves(c) ==
    /\ AtCall(c, "renew")
    /\ \/ Usable(seCall[c].read) /\ SaveSession([seCall[c].read EXCEPT !.last = seNow])
       \/ ~Usable(seCall[c].read) /\ UNCHANGED seStore
    /\ CallEnds(c)
    /\ UNCHANGED <<seNow, seHist>>

----------------------------------------
(* revoke and revoke_all_for_user *)

RevokeReads(c, id) ==
    /\ AtCall(c, "idle") /\ Places(id) # {}
    /\ seCall' = [seCall EXCEPT ![c] = [pc |-> "revoke", id |-> id, read |-> Lookup(id)]]
    /\ UNCHANGED <<seStore, seLock, seNow, seHist>>

RevokeSaves(c) ==
    /\ AtCall(c, "revoke") /\ seLock = "free"
    /\ LET s == Lookup(seCall[c].id) IN
       \/ /\ s # NoSession /\ ~s.revoked
          /\ SaveSession([s EXCEPT !.revoked = TRUE])
          /\ seHist' = [seHist EXCEPT !.revoked = @ \cup {s.id}]
       \/ (s = NoSession \/ s.revoked) /\ UNCHANGED <<seStore, seHist>>
    /\ seCall' = [seCall EXCEPT ![c] = IdleCall]
    /\ UNCHANGED <<seLock, seNow>>

RevokeAll(c) ==
    /\ AtCall(c, "idle") /\ seLock = "free" /\ Active # {}
    /\ seStore' = [i \in DOMAIN seStore |-> [seStore[i] EXCEPT !.revoked = TRUE]]
    /\ seHist' = [seHist EXCEPT !.revoked = @ \cup {seStore[i].id : i \in Active}]
    /\ UNCHANGED <<seLock, seCall, seNow>>

ClockTicks ==
    /\ seNow < MaxClock
    /\ seNow' = seNow + 1
    /\ UNCHANGED <<seStore, seLock, seCall, seHist>>

SessionNext ==
    \/ \E c \in Calls :
          \/ CreateLocks(c) \/ CreateEvicts(c) \/ CreateSaves(c)
          \/ \E id \in 1..MaxSessions : TouchReads(c, id) \/ RevokeReads(c, id)
          \/ TouchLocks(c) \/ TouchSaves(c) \/ RevokeSaves(c) \/ RevokeAll(c)
    \/ ClockTicks

----------------------------------------
(* Properties *)

\* A revoked session is never active again: a touch that read it before the
\* revocation does not write the old record back.
RevokedStaysRevoked == \A i \in Active : seStore[i].id \notin seHist.revoked

\* No interleaving of logins gives a user more active sessions than allowed.
ActiveWithinCap == Cardinality(Active) <= MaxConcurrent

\* However often it is renewed, no session is active later than its absolute
\* timeout, nor renewed after it was idle too long.
RenewedInTime ==
    [][\A i \in DOMAIN seStore, j \in DOMAIN seStore' :
          seStore'[j].id = seStore[i].id /\ seStore'[j].last # seStore[i].last =>
             /\ seNow - seStore[i].created <= AbsoluteTimeout
             /\ seNow - seStore[i].last <= IdleTimeout]_seVars

----------------------------------------
(***************************************************************************)
(* Refresh-token rotation of src/engine/api/routes/auth.py, for one user.  *)
(* Each request is one database transaction (get_db commits when the       *)
(* handler returns and rolls back when it raises).  The UPDATE that        *)
(* rotates a token locks its row until the transaction ends; another       *)
(* UPDATE of that row waits and then looks at the row again.               *)
(***************************************************************************)

CONSTANTS Requests,    \* concurrent requests
          MaxTokens,   \* bound: tokens issued
          MaxToggles   \* bound: changes of the user's is_active

ASSUME TokenAssumption ==
    /\ "free" \notin Requests   \* what no holder is called
    /\ MaxTokens \in Nat /\ MaxToggles \in Nat

VARIABLES rtRows,     \* refresh_tokens: id -> none, live, expired, revoked
          rtActive,   \* users.is_active
          rtReq,      \* each request: pc, the token it rotates, the rows it saw
          rtLocks,    \* row -> request that updated it in an open transaction
          rtHist      \* history: tokens issued, successors of a token, toggles

rtVars == <<rtRows, rtActive, rtReq, rtLocks, rtHist>>

TokenIds == 1..MaxTokens
IdleReq == [pc |-> "idle", token |-> 0, saw |-> {}]

TokenInit ==
    /\ rtRows = [t \in TokenIds |-> "none"]
    /\ rtActive = TRUE
    /\ rtReq = [r \in Requests |-> IdleReq]
    /\ rtLocks = [t \in TokenIds |-> "free"]
    /\ rtHist = [issued |-> 0, heirs |-> [t \in TokenIds |-> 0], toggles |-> 0]

AtReq(r, pc) == rtReq[r].pc = pc
ReqEnds(r) == rtReq' = [rtReq EXCEPT ![r] = IdleReq]
Unlocked(r) == [t \in TokenIds |-> IF rtLocks[t] = r THEN "free" ELSE rtLocks[t]]
Unrevoked == {t \in TokenIds : rtRows[t] \in {"live", "expired"}}

\* login: _store_refresh_token, committed with the request.
Login(r) ==
    /\ AtReq(r, "idle") /\ rtHist.issued < MaxTokens
    /\ rtRows' = [rtRows EXCEPT ![rtHist.issued + 1] = "live"]
    /\ rtHist' = [rtHist EXCEPT !.issued = @ + 1]
    /\ UNCHANGED <<rtActive, rtReq, rtLocks>>

Expire(t) ==
    /\ rtRows[t] = "live" /\ rtLocks[t] = "free"
    /\ rtRows' = [rtRows EXCEPT ![t] = "expired"]
    /\ UNCHANGED <<rtActive, rtReq, rtLocks, rtHist>>

SetActive ==
    /\ rtHist.toggles < MaxToggles
    /\ rtActive' = ~rtActive
    /\ rtHist' = [rtHist EXCEPT !.toggles = @ + 1]
    /\ UNCHANGED <<rtRows, rtReq, rtLocks>>

MutRotate(r, t) ==             \* reads the row and checks it, and writes later
    /\ AtReq(r, "idle") /\ rtRows[t] \in {"live", "expired"}
    /\ rtReq' = [rtReq EXCEPT ![r] = [pc |-> "rotated", token |-> t, saw |-> {}]]
    /\ UNCHANGED <<rtRows, rtActive, rtLocks, rtHist>>

\* refresh: UPDATE ... WHERE revoked_at IS NULL RETURNING, which waits for a
\* transaction that holds the row.  A token that is unknown or already revoked
\* makes the request raise: what it wrote is rolled back, nothing changes.
Rotate(r, t) ==
    /\ AtReq(r, "idle") /\ rtLocks[t] = "free" /\ rtRows[t] \in {"live", "expired"}
    /\ rtReq' = [rtReq EXCEPT ![r] = [pc |-> "rotated", token |-> t, saw |-> {}]]
    /\ rtLocks' = [rtLocks EXCEPT ![t] = r]
    /\ UNCHANGED <<rtRows, rtActive, rtHist>>

\* The checks pass: a new token is stored and the rotation committed.
Refreshed(r) ==
    LET t == rtReq[r].token IN
    /\ AtReq(r, "rotated") /\ rtRows[t] # "expired" /\ rtActive /\ rtHist.issued < MaxTokens
    /\ rtRows' = [rtRows EXCEPT ![t] = "revoked", ![rtHist.issued + 1] = "live"]
    /\ rtHist' = [rtHist EXCEPT !.issued = @ + 1, !.heirs[t] = @ + 1]
    /\ rtLocks' = Unlocked(r)
    /\ ReqEnds(r)
    /\ UNCHANGED rtActive

\* Expired, or the user is disabled: rolled back.
RotationUndone(r) ==
    /\ AtReq(r, "rotated") /\ (rtRows[rtReq[r].token] = "expired" \/ ~rtActive)
    /\ rtLocks' = Unlocked(r)
    /\ ReqEnds(r)
    /\ UNCHANGED <<rtRows, rtActive, rtHist>>

\* logout with a token revokes that one ...
LogoutOne(r, t) ==
    /\ AtReq(r, "idle") /\ rtLocks[t] = "free" /\ rtRows[t] # "none"
    /\ rtRows' = [rtRows EXCEPT ![t] = "revoked"]
    /\ UNCHANGED <<rtActive, rtReq, rtLocks, rtHist>>

\* ... and without one every unrevoked row its statement sees; it waits for the
\* rows that are locked and does not see rows committed since it began.
LogoutAllBegins(r) ==
    /\ AtReq(r, "idle") /\ Unrevoked # {}
    /\ rtReq' = [rtReq EXCEPT ![r] = [pc |-> "logout", token |-> 0, saw |-> Unrevoked]]
    /\ UNCHANGED <<rtRows, rtActive, rtLocks, rtHist>>

LogoutAllEnds(r) ==
    /\ AtReq(r, "logout") /\ \A t \in rtReq[r].saw : rtLocks[t] = "free"
    /\ rtRows' = [t \in TokenIds |-> IF t \in rtReq[r].saw THEN "revoked" ELSE rtRows[t]]
    /\ ReqEnds(r)
    /\ UNCHANGED <<rtActive, rtLocks, rtHist>>

TokenNext ==
    \/ \E r \in Requests :
          \/ Login(r) \/ Refreshed(r) \/ RotationUndone(r) \/ LogoutAllBegins(r) \/ LogoutAllEnds(r)
          \/ \E t \in TokenIds : Rotate(r, t) \/ LogoutOne(r, t)
    \/ \E t \in TokenIds : Expire(t)
    \/ SetActive

----------------------------------------
(* Properties *)

\* However many requests present a token at once, it is exchanged at most once,
\* and an exchanged token is revoked for good.
ExchangedOnce ==
    \A t \in TokenIds : /\ rtHist.heirs[t] <= 1
                        /\ rtHist.heirs[t] = 1 => rtRows[t] = "revoked"
=============================================================================
