----------------------------- MODULE Credentials -----------------------------
(***************************************************************************)
(* What a user proves its identity with: the second factor, then API keys. *)
(* The parts share no state.                                               *)
(***************************************************************************)
EXTENDS Naturals, Sequences, FiniteSets

(****************************************************************************)
(* The second factor of a user: enrolment, the challenge of the password    *)
(* step, TOTP and backup codes (api/routes/mfa.py, api/auth/mfa_service.py, *)
(* api/auth/mfa.py).                                                        *)
(****************************************************************************)
CONSTANTS MfaCalls,      \* requests of the user in flight at once
          CodesPerSet,   \* mfa_backup_codes_count
          ChallengeTtl,  \* mfa_challenge_ttl_seconds, in TOTP steps
          MaxSets,       \* sets of backup codes issued
          MaxStep        \* TOTP steps that pass

VARIABLES crMfa,    \* the user's row: the TOTP secret (0: off) and the unused backup codes
          crSets,   \* sets of codes issued so far; each has a secret of its own
          crCalls,  \* requests: what they read of the row
          crUsed,   \* how often each backup code was accepted, counted up to two
          crRaced,  \* two requests that read the row were in flight together
          crStep    \* the current TOTP counter

crVars == <<crMfa, crSets, crCalls, crUsed, crRaced, crStep>>

Resting == [pc |-> "rest"]
CodeSet(n) == {<<n, i>> : i \in 1..CodesPerSet}
InCall == {c \in MfaCalls : crCalls[c] # Resting}

MfaInit ==
    /\ crMfa = [secret |-> 0, codes |-> {}] /\ crSets = 0 /\ crRaced = FALSE
    /\ crCalls = [c \in MfaCalls |-> Resting] /\ crStep = 1
    /\ crUsed = [k \in UNION {CodeSet(n) : n \in 1..MaxSets} |-> 0]

\* verify_totp: the code of a step is accepted one step early and one late, any
\* number of times; a code is the secret and the step it was made for.
TotpValid(secret, code) == code.secret = secret /\ code.step + 1 >= crStep /\ code.step <= crStep + 1

\* POST /enroll/confirm: a secret proved by a code, and new backup codes.
Confirm ==
    /\ crMfa.secret = 0 /\ crSets < MaxSets
    /\ crSets' = crSets + 1
    /\ crMfa' = [secret |-> crSets + 1, codes |-> CodeSet(crSets + 1)]
    /\ UNCHANGED <<crCalls, crUsed, crRaced, crStep>>

\* A request reads the row: verify with a challenge of the password step (which
\* names its time), disable and regen in a session.
ReadRow(c, what, issued) ==
    /\ crCalls[c] = Resting
    /\ crMfa.secret # 0
    /\ what = "verify" => ~(issued + ChallengeTtl < crStep)
    /\ crCalls' = [crCalls EXCEPT ![c] = [pc |-> what, row |-> crMfa]]
    /\ crRaced' = (crRaced \/ InCall # {})
    /\ UNCHANGED <<crMfa, crSets, crUsed, crStep>>

\* verify_backup_code against the row as it was read: the unused codes.
MutUnused(row) == CodeSet(row.secret) \cup row.codes
Unused(row) == row.codes
Effect(what, row, k) ==
    CASE what = "verify" -> [row EXCEPT !.codes = row.codes \ {k}]
      [] what = "disable" -> [secret |-> 0, codes |-> {}]
      [] what = "regen" -> [row EXCEPT !.codes = CodeSet(crSets + 1)]

\* The backup code is accepted and the row written back from what was read.
BackupAccepted(c, k) ==
    LET q == crCalls[c] IN
    /\ q # Resting /\ k \in Unused(q.row)
    /\ q.pc = "regen" => crSets < MaxSets
    /\ crMfa' = Effect(q.pc, q.row, k)
    /\ crSets' = IF q.pc = "regen" THEN crSets + 1 ELSE crSets
    /\ crUsed' = [crUsed EXCEPT ![k] = IF @ = 2 THEN 2 ELSE @ + 1]
    /\ crCalls' = [crCalls EXCEPT ![c] = Resting]
    /\ UNCHANGED <<crRaced, crStep>>

\* The same with a TOTP code, which verify does not record.
TotpAccepted(c, code) ==
    LET q == crCalls[c] IN
    /\ q # Resting /\ TotpValid(q.row.secret, code)
    /\ q.pc = "regen" => crSets < MaxSets
    /\ crMfa' = IF q.pc = "verify" THEN crMfa ELSE Effect(q.pc, q.row, <<0, 0>>)
    /\ crSets' = IF q.pc = "regen" THEN crSets + 1 ELSE crSets
    /\ crCalls' = [crCalls EXCEPT ![c] = Resting]
    /\ UNCHANGED <<crUsed, crRaced, crStep>>

CodeRefused(c) == crCalls[c] # Resting /\ crCalls' = [crCalls EXCEPT ![c] = Resting]
                  /\ UNCHANGED <<crMfa, crSets, crUsed, crRaced, crStep>>
StepPasses == crStep < MaxStep /\ crStep' = crStep + 1
              /\ UNCHANGED <<crMfa, crSets, crCalls, crUsed, crRaced>>

MfaNext ==
    \/ Confirm \/ StepPasses
    \/ \E c \in MfaCalls :
          \/ \E what \in {"verify", "disable", "regen"}, issued \in 1..crStep : ReadRow(c, what, issued)
          \/ \E k \in DOMAIN crUsed : BackupAccepted(c, k)
          \/ \E s \in 1..crSets, n \in 1..MaxStep : TotpAccepted(c, [secret |-> s, step |-> n])
          \/ CodeRefused(c)

----------------------------------------
\* A backup code is accepted once, across verifications, new sets and a factor
\* that is switched off and on, as long as no two requests hold the row at once
\* (verify_backup_code returns the storage that the caller writes back).
CodesSingleUse == ~crRaced => \A k \in DOMAIN crUsed : crUsed[k] <= 1

----------------------------------------
(****************************************************************************)
(* API keys: issue, revocation, expiry, and the calls they authenticate     *)
(* (api/auth/api_keys.py, api/routes/api_keys.py, api/auth/dependency.py).  *)
(****************************************************************************)

CONSTANTS KeyOwners,     \* users
          KeyPrefixes,      \* first twelve characters of a token
          Scopes,        \* scopes asked for
          MaxKeysIssued

VARIABLES akKeys,   \* api_keys
          akCall,   \* the call being authenticated: the row it found
          akServed  \* the call served last

akVars == <<akKeys, akCall, akServed>>
NoApiKey == 0
Level == [read |-> 0, trade |-> 1, admin |-> 2]

KeyInit == akKeys = <<>> /\ akCall = [row |-> NoApiKey] /\ akServed = [key |-> NoApiKey]

\* normalise_scopes: none asked for means read.
Normalised(scopes) == IF scopes = {} THEN {"read"} ELSE scopes
\* issue_api_key: the prefix is unique in the table,
\* revoked keys included, and a second one makes the flush fail.
IssueKey(o, p, scopes) ==
    /\ Len(akKeys) < MaxKeysIssued
    /\ \A i \in DOMAIN akKeys : akKeys[i].prefix # p
    /\ akKeys' = Append(akKeys, [owner |-> o, prefix |-> p, live |-> TRUE, userActive |-> TRUE,
                                 scopes |-> Normalised(scopes)])
    /\ UNCHANGED <<akCall, akServed>>

\* revoke_api_key by its owner, and the expiry of a key.
EndKey(i) == akKeys[i].live /\ akKeys' = [akKeys EXCEPT ![i].live = FALSE] /\ UNCHANGED <<akCall, akServed>>
DisableOwner(i) == akKeys[i].userActive /\ akKeys' = [akKeys EXCEPT ![i].userActive = FALSE]
                   /\ UNCHANGED <<akCall, akServed>>

\* find_active_by_token: the row of the prefix, live, with the hash of this token.
MutKeyMatches(i, token) == akKeys[i].prefix = token.prefix /\ akKeys[i].live
KeyMatches(i, token) == akKeys[i].prefix = token.prefix /\ akKeys[i].live /\ i = token.key
FindKey(token) ==
    /\ akCall.row = NoApiKey
    /\ \E i \in DOMAIN akKeys : /\ KeyMatches(i, token)
                                /\ akCall' = [row |-> i, token |-> token, live |-> akKeys[i].live]
    /\ UNCHANGED <<akKeys, akServed>>

\* _load_active_user, touch_last_used, then require_api_scope.
ScopeSatisfied(granted, required) == \E s \in granted : Level[s] >= Level[required]
ServeCall(required) ==
    LET row == akKeys[akCall.row] IN
    /\ akCall.row # NoApiKey
    /\ akCall' = [row |-> NoApiKey]
    /\ IF row.userActive /\ ScopeSatisfied(row.scopes, required)
       THEN akServed' = [key |-> akCall.token.key, as |-> row.owner, need |-> required]
       ELSE UNCHANGED akServed
    /\ UNCHANGED akKeys

\* Tokens that clients present: the ones that were issued, and unknown ones of
\* the same prefix.
Tokens == {[prefix |-> p, key |-> n] : p \in KeyPrefixes, n \in 0..MaxKeysIssued}
KeyNext ==
    \/ \E o \in KeyOwners, p \in KeyPrefixes, scopes \in SUBSET Scopes : IssueKey(o, p, scopes)
    \/ \E i \in DOMAIN akKeys : EndKey(i) \/ DisableOwner(i)
    \/ \E token \in Tokens : FindKey(token)
    \/ \E required \in DOMAIN Level : ServeCall(required)

----------------------------------------
\* A call is served as the owner of the key that was presented, within what any
\* of that key's scopes covers (find_active_by_token, _scope_satisfied).
KeyActsForOwner ==
    "as" \in DOMAIN akServed =>
       /\ akServed.key \in DOMAIN akKeys /\ akKeys[akServed.key].owner = akServed.as
       /\ \E s \in akKeys[akServed.key].scopes : Level[s] >= Level[akServed.need]
=============================================================================
