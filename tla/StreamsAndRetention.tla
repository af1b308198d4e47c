------------------------- MODULE StreamsAndRetention -------------------------
(***************************************************************************)
(* Ticks as they arrive and bars as they age: the stream buffers, then the *)
(* retention job.  The parts share no state.                               *)
(***************************************************************************)
EXTENDS Integers, Sequences, FiniteSets, SequencesExt

(***************************************************************************)
(* The bounded buffer and the replay log of src/engine/data/streaming/:    *)
(* producers put and record, consumers get and drain, a subscriber that    *)
(* lost its connection resumes after the last sequence number it saw.      *)
(* Every method holds the object's threading lock: one action each.        *)
(***************************************************************************)
CONSTANTS DropPolicies,    \* "drop_oldest" | "drop_newest"
          BufferSize, ReplayCapacity,
          MaxTicksMade     \* bound: items produced

ASSUME StreamingAssumption ==
    /\ DropPolicies \subseteq {"drop_oldest", "drop_newest"}
    /\ BufferSize \in Nat \ {0} /\ ReplayCapacity \in Nat \ {0} /\ MaxTicksMade \in Nat

VARIABLES smPolicy, smItems, smDropped,   \* BoundedBuffer
          smMade, smGot,                  \* history: items put, items consumed
          smLog, smNextSeq,               \* ReplayLog: entries [seq, item]
          smClient                        \* subscriber: last seq it saw, items it has

smVars == <<smPolicy, smItems, smDropped, smMade, smGot, smLog, smNextSeq, smClient>>

StreamInit ==
    /\ smPolicy \in DropPolicies
    /\ smItems = <<>> /\ smDropped = [oldest |-> 0, newest |-> 0]
    /\ smMade = 0 /\ smGot = <<>>
    /\ smLog = <<>> /\ smNextSeq = 0
    /\ smClient = [after |-> -1, has |-> {}]

\* put of a full buffer: the oldest item goes, or the new one is refused.
PutFull ==
    \/ /\ smPolicy = "drop_oldest"
       /\ smItems' = Append(Tail(smItems), smMade + 1)
       /\ smDropped' = [smDropped EXCEPT !.oldest = @ + 1]
    \/ /\ smPolicy = "drop_newest"
       /\ smDropped' = [smDropped EXCEPT !.newest = @ + 1]
       /\ UNCHANGED smItems

Put ==
    \/ /\ Len(smItems) < BufferSize
       /\ smItems' = Append(smItems, smMade + 1) /\ UNCHANGED smDropped
    \/ Len(smItems) >= BufferSize /\ PutFull

MutRecord ==                  \* numbers entries by their place
    smLog' = (IF Len(smLog) = ReplayCapacity THEN Tail(smLog) ELSE smLog)
               \o <<[seq |-> Len(smLog), item |-> smMade + 1]>>

\* record: the deque drops its oldest entry when full.
Record ==
    smLog' = (IF Len(smLog) = ReplayCapacity THEN Tail(smLog) ELSE smLog)
               \o <<[seq |-> smNextSeq, item |-> smMade + 1]>>

\* A tick arrives: it is put and recorded.
Produce ==
    /\ smMade < MaxTicksMade
    /\ Put /\ Record
    /\ smMade' = smMade + 1 /\ smNextSeq' = smNextSeq + 1
    /\ UNCHANGED <<smPolicy, smGot, smClient>>

GetItem ==
    /\ smItems # <<>>
    /\ smGot' = Append(smGot, Head(smItems)) /\ smItems' = Tail(smItems)
    /\ UNCHANGED <<smPolicy, smDropped, smMade, smLog, smNextSeq, smClient>>

MutDrain ==                   \* copies without emptying
    /\ smItems # <<>>
    /\ smGot' = smGot \o smItems
    /\ UNCHANGED <<smPolicy, smItems, smDropped, smMade, smLog, smNextSeq, smClient>>

Drain ==
    /\ smItems # <<>>
    /\ smGot' = smGot \o smItems /\ smItems' = <<>>
    /\ UNCHANGED <<smPolicy, smDropped, smMade, smLog, smNextSeq, smClient>>

\* since_seq: the entries after a position, in their order.  (SelectSeq, as a function
\* the proofs can unfold.)
SinceSeq(after) ==
    LET since[i \in 0..Len(smLog)] ==
            IF i = 0 THEN <<>>
            ELSE IF smLog[i].seq > after THEN Append(since[i - 1], smLog[i]) ELSE since[i - 1]
    IN  since[Len(smLog)]

\* The subscriber resumes and moves its position to the last entry it got.
Resume ==
    LET got == SinceSeq(smClient.after) IN
    /\ got # <<>>
    /\ smClient' = [after |-> Last(got).seq, has |-> smClient.has \cup {got[i].item : i \in DOMAIN got}]
    /\ UNCHANGED <<smPolicy, smItems, smDropped, smMade, smGot, smLog, smNextSeq>>

\* clear keeps _next_seq.
ClearLog ==
    /\ smLog # <<>>
    /\ smLog' = <<>>
    /\ UNCHANGED <<smPolicy, smItems, smDropped, smMade, smGot, smNextSeq, smClient>>

StreamNext == Produce \/ GetItem \/ Drain \/ Resume \/ ClearLog

----------------------------------------
(* Properties *)

\* No item is lost silently, delivered twice or out of order: what was put is
\* what was consumed, what is buffered and what the drop counters tell.
ItemsAccounted ==
    /\ smMade = Len(smGot) + Len(smItems) + smDropped.oldest + smDropped.newest
    /\ LET all == smGot \o smItems IN \A i, j \in DOMAIN all : i < j => all[i] < all[j]

\* A subscriber that resumes sees everything after its position that the log
\* still holds, and oldest_seq tells whether something is missing: if the oldest
\* entry follows the position, nothing is.
ReplayTellsGaps ==
    /\ \A i \in DOMAIN smLog : smLog[i].seq > smClient.after <=> smLog[i].item \notin smClient.has
    /\ smLog # <<>> /\ smLog[1].seq <= smClient.after + 1 =>
          Len(SinceSeq(smClient.after)) = smNextSeq - smClient.after - 1

----------------------------------------
(****************************************************************************)
(* Data retention (data/retention.py, data/retention_cleanup.py): what the  *)
(* age of a record asks for, the cut-offs one cleanup pass hands to bulk    *)
(* statements, and the slices the horizon is cut into. The worker that runs *)
(* the statements is not in the repository; passes come at any day, as late *)
(* as they like, and handle one batch of records after the other.           *)
(****************************************************************************)

CONSTANTS RecordIds,
          Policies,      \* [retain, compress]: days, Never for None; the default and others
          ChunkDays,     \* width of a slice
          MaxRetentionDay

Never == -1

ASSUME RetentionAssumption ==
    /\ ChunkDays \in Nat \ {0}
    /\ \A p \in Policies : /\ p.retain \in Nat \cup {Never} /\ p.compress \in Nat \cup {Never}
                           /\ p.retain # Never => p.compress <= p.retain

VARIABLES reDay, rePolicy,
          reRecords,  \* day a record is dated; it may lie ahead
          reState,    \* record: "plain", "compressed" or "deleted"
          rePass      \* a pass on the way: the day its cut-offs were computed, what is left

reVars == <<reDay, rePolicy, reRecords, reState, rePass>>

\* is_expired, is_compressible: strictly older than the limit.
MutExpired(dated, p, now) == p.retain # Never /\ now - dated >= p.retain
Expired(dated, p, now) == p.retain # Never /\ now - dated > p.retain
Compressible(dated, p, now) ==
    p.compress # Never /\ now - dated > p.compress /\ ~Expired(dated, p, now)
DecideAction(dated, p, now) ==
    IF Expired(dated, p, now) THEN "deleted"
    ELSE IF Compressible(dated, p, now) THEN "compressed" ELSE "plain"

\* compute_cleanup_window: everything dated before a cut-off.
MutCleanup(p, now) == [delete |-> IF p.retain = Never THEN Never ELSE now - p.retain,
                       compress |-> IF p.retain = Never THEN Never ELSE now - p.retain]
CleanupWindow(p, now) == [delete |-> IF p.retain = Never THEN Never ELSE now - p.retain,
                    compress |-> IF p.compress = Never THEN Never ELSE now - p.compress]
\* partition_boundaries: half-open slices from the deletion cut-off, or else the
\* compression cut-off, up to now.
Slices(p, now) ==
    LET days == IF p.retain # Never THEN p.retain ELSE p.compress
        first == now - days
        count == (days + ChunkDays - 1) \div ChunkDays
    IN IF days <= 0 THEN <<>>
       ELSE [i \in 1..count |->
               <<first + (i - 1) * ChunkDays,
                 IF first + i * ChunkDays < now THEN first + i * ChunkDays ELSE now>>]

RetentionInit ==
    /\ reDay = 0 /\ rePolicy \in Policies
    /\ reRecords \in [RecordIds -> -1..1] /\ reState = [r \in RecordIds |-> "plain"]
    /\ rePass = [day |-> Never, left |-> {}]

StartPass ==
    /\ rePass.left = {} /\ rePass.day # reDay
    /\ rePass' = [day |-> reDay, left |-> RecordIds]
    /\ UNCHANGED <<reDay, rePolicy, reRecords, reState>>
\* One batch (batch_iter): the statements delete what is before the first cut-off
\* and compress what is before the second. Cut-offs stay those of the start.
SweepBatch(batch) ==
    LET w == CleanupWindow(rePolicy, rePass.day)
        before(r, days, cut) == days # Never /\ reRecords[r] < cut
        swept(r) == IF before(r, rePolicy.retain, w.delete) THEN "deleted"
                    ELSE IF before(r, rePolicy.compress, w.compress) THEN "compressed" ELSE reState[r]
    IN /\ batch # {} /\ batch \subseteq rePass.left
       /\ reState' = [r \in RecordIds |-> IF r \in batch THEN swept(r) ELSE reState[r]]
       /\ rePass' = [rePass EXCEPT !.left = @ \ batch]
       /\ UNCHANGED <<reDay, rePolicy, reRecords>>
RetentionDay == reDay < MaxRetentionDay /\ reDay' = reDay + 1 /\ UNCHANGED <<rePolicy, reRecords, reState, rePass>>

RetentionNext == StartPass \/ RetentionDay \/ \E batch \in SUBSET RecordIds : SweepBatch(batch)

----------------------------------------
\* The bulk cut-offs do to a record what decide_action says on the day of the pass,
\* and a record is never treated harsher than its age allows, also by a pass that
\* takes several days; the slices of the horizon follow each other without gap or
\* overlap up to the day.
RetentionFollowsAge ==
    /\ \A r \in RecordIds :
          /\ reState[r] = "deleted" => Expired(reRecords[r], rePolicy, reDay)
          /\ rePass.day # Never /\ r \notin rePass.left =>
                reState[r] = DecideAction(reRecords[r], rePolicy, rePass.day)
    /\ LET s == Slices(rePolicy, reDay)
       IN s # <<>> => /\ s[Len(s)][2] = reDay /\ \A i \in DOMAIN s : s[i][1] < s[i][2]
                      /\ \A i \in 1 .. Len(s) - 1 : s[i][2] = s[i + 1][1]
=============================================================================
