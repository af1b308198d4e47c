---------------------------- MODULE RateLimiter ----------------------------
(***************************************************************************)
(* The token buckets of src/engine/api/rate_limit.py in one process: the   *)
(* middleware picks a key and the limits of the route or role, and the     *)
(* in-memory backend refills, consumes and evicts under its lock.  An      *)
(* anonymous client has one key on all routes, so one bucket is used with  *)
(* different limits.  Tokens are counted in parts of a token, time in      *)
(* ticks, and a tier refills a whole number of parts per tick.             *)
(***************************************************************************)
EXTENDS Integers, Sequences, SequencesExt, FiniteSetsExt

CONSTANTS Keys,      \* bucket keys
          Tiers,     \* limits in use: records with cap (tokens) and refill (parts per tick)
          Parts,     \* parts of a token
          MaxKeys,   \* max_keys of the backend
          MaxTime    \* bound: last tick

ASSUME LimiterAssumption ==
    /\ Tiers \subseteq [cap : Nat \ {0}, refill : Nat] /\ Tiers # {} /\ IsFiniteSet(Tiers)
    /\ Parts \in Nat \ {0} /\ MaxKeys \in Nat \ {0} /\ MaxTime \in Nat

VARIABLES rlState,    \* _state: buckets, least recently used first
          rlNow,      \* the monotonic clock
          rlAdmitted, \* history: when a key's requests were admitted since its bucket exists
          rlPromise   \* history: the last refusal of a key, with the Retry-After it was given

rlVars == <<rlState, rlNow, rlAdmitted, rlPromise>>

NoPromise == [tier |-> CHOOSE t \in Tiers : TRUE, at |-> -1]

LimiterInit ==
    /\ rlState = <<>> /\ rlNow = 0
    /\ rlAdmitted = [k \in Keys |-> <<>>]
    /\ rlPromise = [k \in Keys |-> NoPromise]

Place(k) == {i \in DOMAIN rlState : rlState[i].key = k}

\* A key without a bucket starts with a full one.
BucketOf(k, tier) ==
    IF Place(k) = {} THEN [key |-> k, tokens |-> tier.cap * Parts, last |-> rlNow]
    ELSE rlState[CHOOSE i \in Place(k) : TRUE]

MutRefilled(b, tier) ==        \* tokens pile up beyond the burst
    b.tokens + (rlNow - b.last) * tier.refill

Refilled(b, tier) == Min({tier.cap * Parts, b.tokens + (rlNow - b.last) * tier.refill})

MutSaved(b, tokens) ==         \* a refused request does not restart the clock
    [b EXCEPT !.tokens = tokens, !.last = IF tokens < Parts THEN @ ELSE rlNow]

SavedBucket(b, tokens) == [b EXCEPT !.tokens = tokens, !.last = rlNow]

\* The bucket goes to the recent end; beyond max_keys the oldest is evicted.
LruStored(b) ==
    LET rest == IF Place(b.key) = {} THEN rlState
                ELSE RemoveAt(rlState, CHOOSE i \in Place(b.key) : TRUE)
        all  == Append(rest, b)
    IN  IF Len(all) > MaxKeys THEN Tail(all) ELSE all

Kept(k) == \E i \in DOMAIN rlState' : rlState'[i].key = k

MutRetryAfter(tokens, tier) == (Parts - tokens) \div tier.refill   \* rounds down

\* Ticks until a token is there, rounded up as in _build_429.
RetryAfter(tokens, tier) == (Parts - tokens + tier.refill - 1) \div tier.refill

Admit(k, tier) ==
    LET b == BucketOf(k, tier)
        tokens == Refilled(b, tier)
    IN
    /\ tokens >= Parts
    /\ rlState' = LruStored(SavedBucket(b, tokens - Parts))
    /\ rlAdmitted' = [x \in Keys |-> IF x = k THEN Append(rlAdmitted[x], rlNow)
                                     ELSE IF Kept(x) THEN rlAdmitted[x] ELSE <<>>]
    /\ rlPromise' = [x \in Keys |-> IF x = k \/ ~Kept(x) THEN NoPromise ELSE rlPromise[x]]
    /\ UNCHANGED rlNow

Refuse(k, tier) ==
    LET b == BucketOf(k, tier)
        tokens == Refilled(b, tier)
    IN
    /\ tokens < Parts
    /\ rlState' = LruStored(SavedBucket(b, tokens))
    /\ rlAdmitted' = [x \in Keys |-> IF Kept(x) THEN rlAdmitted[x] ELSE <<>>]
    /\ rlPromise' = [x \in Keys |->
          IF ~Kept(x) THEN NoPromise
          ELSE IF x # k THEN rlPromise[x]
          ELSE [tier |-> tier, at |-> rlNow + IF tier.refill > 0 THEN RetryAfter(tokens, tier)
                                              ELSE MaxTime + 1]]
    /\ UNCHANGED rlNow

LimiterTick ==
    /\ rlNow < MaxTime
    /\ rlNow' = rlNow + 1
    /\ UNCHANGED <<rlState, rlAdmitted, rlPromise>>

LimiterNext ==
    \/ \E k \in Keys, tier \in Tiers : Admit(k, tier) \/ Refuse(k, tier)
    \/ LimiterTick

----------------------------------------
(* Properties *)

MaxCap == Max({t.cap : t \in Tiers})
MaxRefill == Max({t.refill : t \in Tiers})

\* In every span of time a key's bucket admits at most the largest burst and what
\* the fastest tier refills meanwhile, however routes with different limits share
\* the bucket and refused requests come in between (update).
AdmittedWithinRate ==
    \A k \in Keys : \A i, j \in DOMAIN rlAdmitted[k] :
        i <= j => (j - i + 1) * Parts
                    <= MaxCap * Parts + (rlAdmitted[k][j] - rlAdmitted[k][i]) * MaxRefill

\* A client that was told when to come back, and waits that long while nothing
\* else happens to its bucket, is admitted.
RetryAfterIsEnough ==
    \A k \in Keys :
        rlPromise[k].at >= 0 /\ rlNow >= rlPromise[k].at =>
            Refilled(BucketOf(k, rlPromise[k].tier), rlPromise[k].tier) >= Parts
=============================================================================
