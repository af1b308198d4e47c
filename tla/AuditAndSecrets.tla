--------------------------- MODULE AuditAndSecrets ---------------------------
(***************************************************************************)
(* The audit chain, then the secrets at rest.  The parts share no state.   *)
(***************************************************************************)
EXTENDS Integers, Sequences, SequencesExt

(****************************************************************************)
(* The hash-chained audit log (core/audit_log.py): appends through the      *)
(* service, and changes behind its back to what is stored. A hash is the    *)
(* tuple of what was hashed, so that different contents never collide.      *)
(****************************************************************************)
CONSTANTS Actors, MaxAudited, MaxTampered

VARIABLES auLog,      \* the stored events
          auThen,     \* the log after each append
          auTampered  \* changes made behind the service's back

auVars == <<auLog, auThen, auTampered>>

Genesis == <<>>
Payloads == {"plain", "secret"}
\* redact_processor, of which the service uses that no secret is left.
Redacted(p) == IF p = "secret" THEN "redacted" ELSE p
\* _hash_event over _canonical_bytes: every field but the id and the hash itself.
MutHashEvent(seq, actor, payload, prev) == <<seq, actor, payload>>
HashEvent(seq, actor, payload, prev) == <<seq, actor, payload, prev>>

AuditInit == auLog = <<>> /\ auThen = <<>> /\ auTampered = 0

\* AuditService.append on the in-memory log, whose calls do not suspend: the event
\* continues the one stored last.
NewEvent(actor, p) ==
    LET seq == IF auLog = <<>> THEN 1 ELSE Last(auLog).seq + 1
        prev == IF auLog = <<>> THEN Genesis ELSE Last(auLog).hash
    IN [seq |-> seq, actor |-> actor, payload |-> Redacted(p), prev |-> prev,
        hash |-> HashEvent(seq, actor, Redacted(p), prev)]
AppendAudited(actor, p) ==
    /\ Len(auThen) < MaxAudited
    /\ auLog' = Append(auLog, NewEvent(actor, p))
    /\ auThen' = Append(auThen, auLog')
    /\ UNCHANGED auTampered

\* Someone changes a stored event, with or without its hash, which needs no key, moves
\* it or removes it.
Rehashed(e) == [e EXCEPT !.hash = HashEvent(e.seq, e.actor, e.payload, e.prev)]
Edited(e) == {[e EXCEPT !.payload = "forged"], [e EXCEPT !.seq = @ + 1]}
             \cup {[e EXCEPT !.prev = auLog[j].hash] : j \in DOMAIN auLog}
Tamper(i) ==
    /\ auTampered < MaxTampered /\ auTampered' = auTampered + 1
    /\ auLog' \in {[auLog EXCEPT ![i] = e] : e \in Edited(auLog[i])}
                 \cup {[auLog EXCEPT ![i] = Rehashed(e)] : e \in Edited(auLog[i])}
                 \cup {[auLog EXCEPT ![i] = auLog[j], ![j] = auLog[i]] : j \in DOMAIN auLog}
                 \cup {RemoveAt(auLog, i)}
    /\ UNCHANGED auThen

\* verify_chain
MutVerifyChain(log) ==
    \A i \in DOMAIN log :
        /\ log[i].seq = i
        /\ log[i].hash = HashEvent(log[i].seq, log[i].actor, log[i].payload, log[i].prev)
VerifyChain(log) ==
    \A i \in DOMAIN log :
        /\ log[i].seq = i
        /\ log[i].prev = IF i = 1 THEN Genesis ELSE log[i - 1].hash
        /\ log[i].hash = HashEvent(log[i].seq, log[i].actor, log[i].payload, log[i].prev)

AuditNext ==
    \/ \E actor \in Actors, p \in Payloads : AppendAudited(actor, p)
    \/ \E i \in DOMAIN auLog : Tamper(i)

----------------------------------------
\* Who remembers the last event of a log that verified can tell any later change to
\* the events before it: a log that verifies and ends in that event is the log as it
\* was then, whatever was edited, rehashed, moved, removed and appended in between.
\* Without tampering the log verifies, and no append stores a secret
\* (AuditService.append, verify_chain).
TamperingShows ==
    /\ \A k \in DOMAIN auThen :
          VerifyChain(auThen[k]) /\ VerifyChain(auLog) /\ auLog # <<>> /\ Last(auLog) = Last(auThen[k])
          => auLog = auThen[k]
    /\ auTampered = 0 => VerifyChain(auLog)
    /\ \A k \in DOMAIN auThen : Last(auThen[k]).payload # "secret"

----------------------------------------
(****************************************************************************)
(* Encrypted secrets and the rotation of the master key (core/secrets.py).  *)
(* Every await on the store is a point where other calls run; a process may *)
(* crash during a re-encryption and start again with the same keys. The     *)
(* operator drops the previous key only after a re-encryption that began    *)
(* after the rotation ended without an error, as the docstrings ask.        *)
(****************************************************************************)

CONSTANTS SecretNames, SecretCalls, MaxMasterKeys, MaxPuts

VARIABLES skKeys,     \* MasterKey: current and previous, 0: none
          skStore,    \* records: key and value under it; key 0: no record
          skCalls,    \* puts between encryption and write
          skJob,      \* reencrypt_all: its key and the records still to write
          skDrained,  \* a re-encryption under these keys has ended
          skLatest,   \* value of the last put, 0: none or deleted
          skTouched,  \* names written or deleted during a re-encryption, or encrypted before a rotation
          skPuts

skVars == <<skKeys, skStore, skCalls, skJob, skDrained, skLatest, skTouched, skPuts>>

NoSecret == [key |-> 0, value |-> 0]
NoPut == [name |-> "none", key |-> 0, value |-> 0]
NoJob == [key |-> 0, todo |-> {}, texts |-> [n \in SecretNames |-> 0]]
Readable(r) == r.key \in {skKeys.current, skKeys.previous} \ {0}

SecretInit ==
    /\ skKeys = [current |-> 1, previous |-> 0] /\ skStore = [n \in SecretNames |-> NoSecret]
    /\ skCalls = [c \in SecretCalls |-> NoPut] /\ skJob = NoJob /\ skDrained = FALSE
    /\ skLatest = [n \in SecretNames |-> 0] /\ skTouched = {} /\ skPuts = 0

\* put: the value is encrypted before the store is asked for the old record.
PutEncrypts(c, n) ==
    /\ skCalls[c] = NoPut /\ skPuts < MaxPuts /\ skPuts' = skPuts + 1
    /\ skCalls' = [skCalls EXCEPT ![c] = [name |-> n, key |-> skKeys.current, value |-> skPuts']]
    /\ UNCHANGED <<skKeys, skStore, skJob, skDrained, skLatest, skTouched>>
Touched(n) == IF skJob.key # 0 THEN skTouched \cup {n} ELSE skTouched \ {n}
PutWrites(c) ==
    LET p == skCalls[c]
    IN /\ p # NoPut /\ skCalls' = [skCalls EXCEPT ![c] = NoPut]
       /\ skStore' = [skStore EXCEPT ![p.name] = [key |-> p.key, value |-> p.value]]
       /\ skLatest' = [skLatest EXCEPT ![p.name] = p.value]
       /\ skTouched' = IF p.key # skKeys.current THEN skTouched \cup {p.name} ELSE Touched(p.name)
       /\ UNCHANGED <<skKeys, skJob, skDrained, skPuts>>
DeleteSecret(n) ==
    /\ skStore[n] # NoSecret /\ skStore' = [skStore EXCEPT ![n] = NoSecret]
    /\ skLatest' = [skLatest EXCEPT ![n] = 0] /\ skTouched' = Touched(n)
    /\ UNCHANGED <<skKeys, skCalls, skJob, skDrained, skPuts>>

\* rotate_master_key: refused while a previous key is held.
MutRotateAllowed == TRUE
RotateAllowed == skKeys.previous = 0
RotateMasterKey ==
    /\ RotateAllowed /\ skKeys.current < MaxMasterKeys
    /\ skKeys' = [current |-> skKeys.current + 1, previous |-> skKeys.current] /\ skDrained' = FALSE
    /\ UNCHANGED <<skStore, skCalls, skJob, skLatest, skTouched, skPuts>>
DropPreviousKey ==
    /\ skKeys.previous # 0 /\ skDrained /\ skKeys' = [skKeys EXCEPT !.previous = 0]
    /\ UNCHANGED <<skStore, skCalls, skJob, skDrained, skLatest, skTouched, skPuts>>

\* reencrypt_all: all records are decrypted first, under the keys held now; one
\* that cannot be read aborts the run before any write.
ReencryptReads ==
    LET held == {n \in SecretNames : skStore[n] # NoSecret}
    IN /\ skJob = NoJob /\ \A n \in held : Readable(skStore[n])
       /\ skJob' = [key |-> skKeys.current, todo |-> held, texts |-> [n \in SecretNames |-> skStore[n].value]]
       /\ UNCHANGED <<skKeys, skStore, skCalls, skDrained, skLatest, skTouched, skPuts>>
MutJobKey == IF skKeys.previous # 0 THEN skKeys.previous ELSE skJob.key
JobKey == skJob.key
ReencryptWrites(n) ==
    /\ n \in skJob.todo /\ skJob' = [skJob EXCEPT !.todo = @ \ {n}]
    /\ skStore' = [skStore EXCEPT ![n] = [key |-> JobKey, value |-> skJob.texts[n]]]
    /\ UNCHANGED <<skKeys, skCalls, skDrained, skLatest, skTouched, skPuts>>
ReencryptEnds ==
    /\ skJob # NoJob /\ skJob.todo = {} /\ skJob' = NoJob
    /\ skDrained' = (skDrained \/ skJob.key = skKeys.current)
    /\ UNCHANGED <<skKeys, skStore, skCalls, skLatest, skTouched, skPuts>>
\* The process dies: calls and a re-encryption on the way are gone.
CrashSecrets ==
    /\ skJob # NoJob /\ skJob' = NoJob /\ skCalls' = [c \in SecretCalls |-> NoPut]
    /\ UNCHANGED <<skKeys, skStore, skDrained, skLatest, skTouched, skPuts>>

SecretNext ==
    \/ \E c \in SecretCalls : PutWrites(c) \/ \E n \in SecretNames : PutEncrypts(c, n)
    \/ \E n \in SecretNames : DeleteSecret(n) \/ ReencryptWrites(n)
    \/ RotateMasterKey \/ DropPreviousKey \/ ReencryptReads \/ ReencryptEnds \/ CrashSecrets

----------------------------------------
\* Through rotations, re-encryptions that a crash cuts short and dropped keys, a
\* secret stays readable and is the last one put; a deleted one stays deleted.
\* Excepted are the names whose put or delete overlapped a re-encryption, and puts
\* encrypted before a rotation and written after it: put does not look again.
SecretsSurviveRotation ==
    \A n \in SecretNames \ skTouched :
       /\ skStore[n].value = skLatest[n]
       /\ skStore[n] # NoSecret => Readable(skStore[n])
=============================================================================
