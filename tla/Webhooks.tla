------------------------------ MODULE Webhooks ------------------------------
(***************************************************************************)
(* WebhookDispatcher (src/engine/events/webhook_dispatcher.py) and the     *)
(* webhook routes (src/engine/api/routes/webhooks.py).  Each task handles  *)
(* one event (_on_event) or tests one webhook: it POSTs to the matching    *)
(* configurations one after the other, with retries, writes delivery rows  *)
(* into its own transaction and commits once, at the end.  Users change    *)
(* and delete configurations meanwhile; a task may die at any point.       *)
(***************************************************************************)
EXTENDS Integers, FiniteSets
LOCAL INSTANCE FiniteSetsExt

CONSTANTS Dispatches,  \* tasks: one _on_event or test_webhook call each
          Hooks,       \* webhook configurations
          Retries,     \* values of max_retries, 0 among them
          MaxEdits     \* bound: calls of the update and delete routes

ASSUME WebhookAssumption ==
    /\ Retries \subseteq Nat /\ Retries # {} /\ MaxEdits \in Nat

VARIABLES whConfig,   \* webhook_configs: the rows, with is_active and max_retries
          whTask,     \* each task: pc, hooks still to serve, max_retries as read, the hook served
          whTx,       \* each task's transaction: hook -> delivery row
          whRows,     \* webhook_deliveries: committed rows by task and hook
          whSent,     \* history: POSTs made per task and hook, and the last answer
          whEdits     \* history: calls of the update and delete routes

whVars == <<whConfig, whTask, whTx, whRows, whSent, whEdits>>

Row(status, attempts, answer) == [status |-> status, attempts |-> attempts, answer |-> answer]
NoRow == Row("none", 0, "none")
NoRows == [c \in Hooks |-> NoRow]
NoHook == [active |-> FALSE, retries |-> 0, exists |-> FALSE]
Fresh == [pc |-> "idle", todo |-> {}, seen |-> [c \in Hooks |-> 0], hook |-> 0]

\* 2xx, a status in _RETRYABLE_STATUS, another status, an httpx.HTTPError.
Answers == {"ok", "retryable", "fatal", "network"}

WebhookInit ==
    /\ whConfig \in [Hooks -> [active : BOOLEAN, retries : Retries, exists : {TRUE}]]
    /\ whTask = [d \in Dispatches |-> Fresh]
    /\ whTx = [d \in Dispatches |-> NoRows]
    /\ whRows = [d \in Dispatches |-> NoRows]
    /\ whSent = [d \in Dispatches |-> [c \in Hooks |-> [posts |-> 0, last |-> "none", ok |-> 0]]]
    /\ whEdits = 0

AtHook(d, pc) == whTask[d].pc = pc

----------------------------------------
(* The dispatcher *)

\* The configurations a task loads; later edits do not reach its copies.
Reads(cs) == [pc |-> "next", todo |-> cs, seen |-> [c \in Hooks |-> whConfig[c].retries],
              hook |-> 0]

\* _matching_configs: the active ones, read once.
OnEvent(d) ==
    /\ AtHook(d, "idle")
    /\ whTask' = [whTask EXCEPT ![d] = Reads({c \in Hooks : whConfig[c].active})]
    /\ UNCHANGED <<whConfig, whTx, whRows, whSent, whEdits>>

\* test_webhook serves one configuration, active or not.
TestWebhook(d, c) ==
    /\ AtHook(d, "idle") /\ whConfig[c].exists
    /\ whTask' = [whTask EXCEPT ![d] = Reads({c})]
    /\ UNCHANGED <<whConfig, whTx, whRows, whSent, whEdits>>

Abort(d) ==
    /\ whTask' = [whTask EXCEPT ![d] = [Fresh EXCEPT !.pc = "over"]]
    /\ whTx' = [whTx EXCEPT ![d] = NoRows]

\* The pending row is flushed; the foreign key fails for a hook deleted meanwhile
\* and the exception takes the rows of the whole event with it.
StartDelivery(d, c) ==
    /\ AtHook(d, "next") /\ c \in whTask[d].todo
    /\ \/ /\ whConfig[c].exists
          /\ whTx' = [whTx EXCEPT ![d][c] = Row("pending", 0, "none")]
          /\ whTask' = [whTask EXCEPT ![d] = [whTask[d] EXCEPT !.pc = "post", !.todo = @ \ {c}, !.hook = c]]
       \/ ~whConfig[c].exists /\ Abort(d)
    /\ UNCHANGED <<whConfig, whRows, whSent, whEdits>>

MutStatusAfter(a, last) ==     \* gives up on nothing but exhaustion
    CASE a = "ok" -> "delivered"
      [] a # "ok" /\ last -> "failed"
      [] OTHER -> "pending"

\* delivery.status after an answer; pending goes on to the next attempt.
StatusAfter(a, last) ==
    CASE a = "ok" -> "delivered"
      [] a = "fatal" \/ (a # "ok" /\ last) -> "failed"
      [] OTHER -> "pending"

MutAttempts(n) == IF n = 0 THEN 1 ELSE n   \* the first retry is not counted

\* delivery.attempts = attempt
Attempts(n) == n + 1

\* One attempt: the POST, and what its answer makes of the row.
Post(d, a) ==
    LET c   == whTask[d].hook
        n   == Attempts(whTx[d][c].attempts)
        st  == StatusAfter(a, n >= Max({1, whTask[d].seen[c]}))
    IN
    /\ AtHook(d, "post")
    /\ whSent' = [whSent EXCEPT ![d][c] = [posts |-> @.posts + 1, last |-> a,
                                           ok |-> @.ok + IF a = "ok" THEN 1 ELSE 0]]
    /\ whTx' = [whTx EXCEPT ![d][c] = Row(st, n, a)]
    /\ whTask' = [whTask EXCEPT ![d].pc = IF st = "pending" THEN "post" ELSE "next"]
    /\ UNCHANGED <<whConfig, whRows, whEdits>>

\* An exception that is no httpx.HTTPError leaves dispatch_one; the session is
\* closed without a commit.  A crash does the same.
DispatchRaises(d) ==
    /\ AtHook(d, "post") \/ AtHook(d, "next")
    /\ Abort(d)
    /\ UNCHANGED <<whConfig, whRows, whSent, whEdits>>

MutCommit(d) ==                \* commits after each hook
    /\ AtHook(d, "next")
    /\ whRows' = [whRows EXCEPT ![d] = whTx[d]]
    /\ whTx' = whTx
    /\ whTask' = [whTask EXCEPT ![d] = IF @.todo = {} THEN [Fresh EXCEPT !.pc = "over"] ELSE @]
    /\ UNCHANGED <<whConfig, whSent, whEdits>>

MutCommitDelivered(d) ==       \* an event with a failed delivery is never committed
    /\ AtHook(d, "next") /\ whTask[d].todo = {}
    /\ \A c \in Hooks : whTx[d][c].status # "failed"
    /\ whRows' = [whRows EXCEPT ![d] = whTx[d]]
    /\ whTx' = [whTx EXCEPT ![d] = NoRows]
    /\ whTask' = [whTask EXCEPT ![d] = [Fresh EXCEPT !.pc = "over"]]
    /\ UNCHANGED <<whConfig, whSent, whEdits>>

Commit(d) ==
    /\ AtHook(d, "next") /\ whTask[d].todo = {}
    /\ whRows' = [whRows EXCEPT ![d] = whTx[d]]
    /\ whTx' = [whTx EXCEPT ![d] = NoRows]
    /\ whTask' = [whTask EXCEPT ![d] = [Fresh EXCEPT !.pc = "over"]]
    /\ UNCHANGED <<whConfig, whSent, whEdits>>

----------------------------------------
(* The routes *)

UpdateWebhook(c, active, r) ==
    /\ whEdits < MaxEdits /\ whConfig[c].exists
    /\ whConfig' = [whConfig EXCEPT ![c].active = active, ![c].retries = r]
    /\ whEdits' = whEdits + 1
    /\ UNCHANGED <<whTask, whTx, whRows, whSent>>

\* The delete waits for transactions that refer to the row, and cascades.
DeleteWebhook(c) ==
    /\ whEdits < MaxEdits /\ whConfig[c].exists
    /\ \A d \in Dispatches : whTx[d][c] = NoRow
    /\ whConfig' = [whConfig EXCEPT ![c] = NoHook]
    /\ whRows' = [d \in Dispatches |-> [whRows[d] EXCEPT ![c] = NoRow]]
    /\ whEdits' = whEdits + 1
    /\ UNCHANGED <<whTask, whTx, whSent>>

DispatchStep(d) ==
    \/ \E c \in Hooks : StartDelivery(d, c)
    \/ \E a \in Answers : Post(d, a)
    \/ Commit(d)

WebhookNext ==
    \/ \E d \in Dispatches : OnEvent(d) \/ DispatchStep(d) \/ DispatchRaises(d)
    \/ \E d \in Dispatches, c \in Hooks : TestWebhook(d, c)
    \/ \E c \in Hooks, active \in BOOLEAN, r \in Retries : UpdateWebhook(c, active, r)
    \/ \E c \in Hooks : DeleteWebhook(c)

----------------------------------------
(* Properties *)

\* A committed row is final and true: as many attempts as POSTs were made, the
\* last answer, delivered exactly when a receiver answered 2xx, whatever failed
\* or was edited on the way (dispatch_one).
RowsTellTheTruth ==
    \A d \in Dispatches, c \in Hooks :
        LET r == whRows[d][c]
            s == whSent[d][c]
        IN  r # NoRow =>
              /\ r.status \in {"delivered", "failed"}
              /\ r.attempts = s.posts /\ r.answer = s.last
              /\ (r.status = "delivered") = (s.ok = 1)

\* An event is sent to a receiver again only after a retryable answer or a
\* network error, and never after it was accepted.
NoPostAfterFinalAnswer ==
    [][\A d \in Dispatches, c \in Hooks :
          whSent'[d][c].posts > whSent[d][c].posts =>
             whSent[d][c].last \in {"none", "retryable", "network"}]_whVars

\* The rows of one event appear together or not at all: the table never holds
\* some of the deliveries of an event that is still being dispatched.
RowsAppearTogether ==
    \A d \in Dispatches : whTask[d].pc # "over" => whRows[d] = NoRows

\* Every event that is being dispatched comes to an end, however receivers
\* answer and users edit: retries are bounded by the limit read at the start.
DispatchesEnd == \A d \in Dispatches : (whTask[d].pc # "idle") ~> (whTask[d].pc = "over")
=============================================================================
