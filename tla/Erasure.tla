------------------------------- MODULE Erasure -------------------------------
(****************************************************************************)
(* Deletion of an account: the request, the grace period, its cancellation, *)
(* the purge of what is due, and the export of a user's data                *)
(* (api/routes/privacy.py, privacy/deletion.py, privacy/dsr.py, export.py). *)
(****************************************************************************)
EXTENDS Naturals, Sequences, FiniteSets

CONSTANTS Persons,       \* users of the engine
          PrivacyCalls,  \* requests in flight at once
          Grace,         \* DELETION_GRACE_DAYS
          MaxDsr, MaxErasureDay

ASSUME GraceAssumption == Grace \in Nat \ {0}

VARIABLES erUser,   \* "active", "disabled" or "tombstone"
          erOwns,   \* the tables with rows of a user
          erDsr,    \* data-subject requests, newest last, each with its schedule
          erCalls,  \* requests in flight
          erDay

erVars == <<erUser, erOwns, erDsr, erCalls, erDay>>

\* The tables anonymize_user empties by name, and those whose foreign key
\* (ondelete=CASCADE) deletes their rows with it: orders, positions and tax lots
\* of a portfolio, deliveries of a webhook. The users row, to which the legal
\* acceptances refer (RESTRICT), is kept as a tombstone.
Purgeable == {"portfolios", "backtests", "webhooks", "api_keys", "refresh_tokens", "consents"}
Parent == [trade_records |-> "portfolios", deliveries |-> "webhooks"]
Emptied == Purgeable \cup {t \in DOMAIN Parent : Parent[t] \in Purgeable}
Tables == Emptied \cup {"legal_acceptances"}
NoPrivacyCall == [pc |-> "none"]

ErasureInit ==
    /\ erUser = [p \in Persons |-> "active"]
    /\ erOwns = [p \in Persons |-> Tables]
    /\ erDsr = <<>> /\ erDay = 0
    /\ erCalls = [c \in PrivacyCalls |-> NoPrivacyCall]

Admits(p) == erUser[p] = "active"
\* _find_active_deletion
MutActiveDeletion(p) == {d \in DOMAIN erDsr : erDsr[d].user = p /\ erDsr[d].kind = "delete"}
ActiveDeletion(p) == {d \in DOMAIN erDsr : erDsr[d].user = p /\ erDsr[d].kind = "delete" /\ erDsr[d].status = "pending"}
Newest(live) == CHOOSE d \in live : \A e \in live : e <= d
RecordRequest(p, kind, status, schedule) ==
    [user |-> p, kind |-> kind, status |-> status, schedule |-> schedule, due |-> erDay + Grace]

\* record_request and, in the same transaction, schedule_deletion.
Scheduled(p) == RecordRequest(p, "delete", "pending", "scheduled")

\* A request is admitted; a deletion looks for one that is under way.
CallPrivacy(c, p, what) ==
    /\ erCalls[c] = NoPrivacyCall /\ Admits(p)
    /\ what = "delete" => ActiveDeletion(p) = {}
    /\ erCalls' = [erCalls EXCEPT ![c] = [pc |-> what, user |-> p]]
    /\ UNCHANGED <<erUser, erOwns, erDsr, erDay>>

\* request_deletion after its check: the request, the schedule, the disabled account.
RequestDeletion(c) ==
    LET p == erCalls[c].user IN
    /\ erCalls[c].pc = "delete" /\ Len(erDsr) < MaxDsr
    /\ erDsr' = Append(erDsr, Scheduled(p))
    /\ erUser' = [erUser EXCEPT ![p] = "disabled"]
    /\ erCalls' = [erCalls EXCEPT ![c] = NoPrivacyCall]
    /\ UNCHANGED <<erOwns, erDay>>

\* cancel_deletion: transition, reactivate, cancel the schedule of that request.
MutCancelled(d) == [erDsr[d] EXCEPT !.status = "cancelled"]
Cancelled(d) ==
    [erDsr[d] EXCEPT !.status = "cancelled",
                     !.schedule = IF erDsr[d].schedule = "scheduled" THEN "cancelled" ELSE erDsr[d].schedule]
CancelDeletion(c) ==
    LET p == erCalls[c].user
        live == ActiveDeletion(p)
    IN /\ erCalls[c].pc = "cancel"
       /\ erCalls' = [erCalls EXCEPT ![c] = NoPrivacyCall]
       /\ IF live = {} THEN UNCHANGED <<erDsr, erUser>>
          ELSE /\ erDsr' = [erDsr EXCEPT ![Newest(live)] = Cancelled(Newest(live))]
               /\ erUser' = [erUser EXCEPT ![p] = "active"]
       /\ UNCHANGED <<erOwns, erDay>>

\* POST /export: recorded and completed in one transaction.
ExportData(c) ==
    LET p == erCalls[c].user IN
    /\ erCalls[c].pc = "export" /\ Len(erDsr) < MaxDsr
    /\ erDsr' = Append(erDsr, RecordRequest(p, "export", "completed", "none"))
    /\ erCalls' = [erCalls EXCEPT ![c] = NoPrivacyCall]
    /\ UNCHANGED <<erUser, erOwns, erDay>>

\* process_due_deletions: anonymize_user for each schedule that is due.
MutDueSchedules == {d \in DOMAIN erDsr : erDsr[d].schedule = "scheduled"}
DueSchedules == {d \in DOMAIN erDsr : erDsr[d].schedule = "scheduled" /\ erDsr[d].due <= erDay}
ProcessDueDeletions ==
    LET gone == {erDsr[d].user : d \in DueSchedules}
    IN /\ DueSchedules # {}
       /\ erUser' = [p \in Persons |-> IF p \in gone THEN "tombstone" ELSE erUser[p]]
       /\ erOwns' = [p \in Persons |-> IF p \in gone THEN erOwns[p] \ Emptied ELSE erOwns[p]]
       /\ erDsr' = [d \in DOMAIN erDsr |->
                       IF d \in DueSchedules THEN [erDsr[d] EXCEPT !.status = "completed", !.schedule = "purged"]
                       ELSE erDsr[d]]
       /\ UNCHANGED <<erCalls, erDay>>

\* Requests are answered within the day.
GraceDayPasses ==
    /\ erDay < MaxErasureDay /\ erDay' = erDay + 1
    /\ \A c \in PrivacyCalls : erCalls[c] = NoPrivacyCall
    /\ UNCHANGED <<erUser, erOwns, erDsr, erCalls>>

ErasureNext ==
    \/ \E c \in PrivacyCalls :
          \/ \E p \in Persons, what \in {"delete", "cancel", "export"} : CallPrivacy(c, p, what)
          \/ RequestDeletion(c) \/ CancelDeletion(c) \/ ExportData(c)
    \/ ProcessDueDeletions \/ GraceDayPasses

ErasureSpec == ErasureInit /\ [][ErasureNext]_erVars

----------------------------------------
\* Only an account whose owner did not withdraw the request loses its data, and
\* never before the grace period is over (is_due_for_purge, list_due_schedules).
PurgedWasDue ==
    \A p \in Persons : erUser[p] = "tombstone" =>
       \E d \in DOMAIN erDsr : /\ erDsr[d].user = p /\ erDsr[d].kind = "delete"
                               /\ erDsr[d].status = "completed" /\ erDsr[d].due <= erDay
\* An active account has no deletion scheduled, unless two deletions passed the
\* check together and the newer one was cancelled.
CancelledStays ==
    \A d \in DOMAIN erDsr : erDsr[d].schedule = "scheduled" /\ erUser[erDsr[d].user] = "active" =>
       \E e \in DOMAIN erDsr : e > d /\ erDsr[e].user = erDsr[d].user /\ erDsr[e].status = "cancelled"
\* A purge cannot be undone by a request that was in flight, and nothing of an
\* account goes without it. Of what DEFAULT_RETENTION_EXCEPTIONS lists as kept,
\* only the legal acceptances are: trade records go with their portfolios.
PurgeIsWhole ==
    \A p \in Persons : erOwns[p] = IF erUser[p] = "tombstone" THEN {"legal_acceptances"} ELSE Tables

\* "The user can call cancel_deletion at any time during the grace window": a
\* user with a pending deletion is admitted to the route that cancels it.
DeletionCanBeUndone ==
    \A p \in Persons : (\E d \in ActiveDeletion(p) : erDay < erDsr[d].due) => Admits(p)
=============================================================================
