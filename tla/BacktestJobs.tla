---------------------------- MODULE BacktestJobs ----------------------------
(***************************************************************************)
(* The two ways a backtest runs in the background.  The HTTP route         *)
(* (src/engine/api/routes/backtest.py) starts it in the API process and    *)
(* keeps results in a dictionary with a time to live; the task pair        *)
(* (src/engine/tasks/definitions.py) puts it on a list queue that workers  *)
(* pop, with retries inside the worker and the outcome in a result         *)
(* backend.  Either process may die; nothing it held is recovered.         *)
(***************************************************************************)
EXTENDS Integers, Sequences, FiniteSets

CONSTANTS ApiJobs, QueueJobs,
          ResultsTtl,        \* _RESULTS_TTL_SECONDS
          JobRetries,        \* max_retries
          MaxJobTime, MaxCrashes   \* bounds

ASSUME JobsAssumption == ResultsTtl \in Nat /\ JobRetries \in Nat /\ MaxJobTime \in Nat /\ MaxCrashes \in Nat

VARIABLES bjApi,      \* API jobs: "new" | "accepted" | "running" | "ended"
          bjResults,  \* _backtest_results: NoResult or [status, at]
          bjTold,     \* history: last status a poll of the API told
          bjEndedAt,  \* history: when the run ended in this process, or -1
          bjQueue,    \* the broker's list
          bjWorker,   \* the worker: job in hand and attempts begun
          bjStored,   \* result backend: "none" | "completed" | "failed" payload
          bjCollected,\* history: what collect said last
          bjTime, bjCrashes

bjVars == <<bjApi, bjResults, bjTold, bjEndedAt, bjQueue, bjWorker, bjStored, bjCollected, bjTime, bjCrashes>>
apiVars == <<bjApi, bjResults, bjTold, bjEndedAt>>
queueVars == <<bjQueue, bjWorker, bjStored, bjCollected>>

NoResult == [status |-> "not_found", at |-> 0]
IdleWorker == [job |-> "none", attempt |-> 0]

JobsInit ==
    /\ bjApi = [j \in ApiJobs |-> "new"]
    /\ bjResults = [j \in ApiJobs |-> NoResult]
    /\ bjTold = [j \in ApiJobs |-> "nothing"] /\ bjEndedAt = [j \in ApiJobs |-> -1]
    /\ bjQueue = <<>> /\ bjWorker = IdleWorker
    /\ bjStored = [j \in QueueJobs |-> "none"]
    /\ bjCollected = [j \in QueueJobs |-> "nothing"]
    /\ bjTime = 0 /\ bjCrashes = 0

----------------------------------------
(* The HTTP route *)

\* run_backtest and submit_backtest answer 202 and leave a background task.
AcceptBacktest(j) ==
    /\ bjApi[j] = "new"
    /\ bjApi' = [bjApi EXCEPT ![j] = "accepted"]
    /\ UNCHANGED <<bjResults, bjTold, bjEndedAt, queueVars, bjTime, bjCrashes>>

\* _run_backtest_background up to its first await.
BackgroundStarts(j) ==
    /\ bjApi[j] = "accepted"
    /\ bjApi' = [bjApi EXCEPT ![j] = "running"]
    /\ bjResults' = [bjResults EXCEPT ![j] = [status |-> "running", at |-> bjTime]]
    /\ UNCHANGED <<bjTold, bjEndedAt, queueVars, bjTime, bjCrashes>>

\* _evict_expired_results: running entries age like finished ones.
EvictExpired(res) == [j \in ApiJobs |-> IF bjTime - res[j].at > ResultsTtl THEN NoResult ELSE res[j]]

MutFinished(j, status) == [status |-> status, at |-> bjResults[j].at]   \* keeps the start's time

\* The entry a finished run writes, with a time stamp of its own.
Finished(j, status) == [status |-> status, at |-> bjTime]

MutBackgroundEnds(j) ==        \* does not leave the running state
    /\ bjApi[j] = "running"
    /\ \E status \in {"completed", "failed"} :
          bjResults' = [bjResults EXCEPT ![j] = Finished(j, status)]
    /\ UNCHANGED <<bjApi, bjTold, bjEndedAt, queueVars, bjTime, bjCrashes>>

\* The run is over: the outcome replaces the entry; after a completion the
\* expired entries are evicted.
BackgroundEnds(j) ==
    /\ bjApi[j] = "running"
    /\ bjApi' = [bjApi EXCEPT ![j] = "ended"]
    /\ \/ bjResults' = EvictExpired([bjResults EXCEPT ![j] = Finished(j, "completed")])
       \/ bjResults' = [bjResults EXCEPT ![j] = Finished(j, "failed")]
    /\ bjEndedAt' = [bjEndedAt EXCEPT ![j] = bjTime]
    /\ UNCHANGED <<bjTold, queueVars, bjTime, bjCrashes>>

\* get_backtest_result for the owner; anyone else is refused.
PollResult(j) ==
    /\ bjApi[j] # "new"
    /\ bjResults' = EvictExpired(bjResults)
    /\ bjTold' = [bjTold EXCEPT ![j] = bjResults'[j].status]
    /\ UNCHANGED <<bjApi, bjEndedAt, queueVars, bjTime, bjCrashes>>

\* The API process restarts: its dictionary and its background tasks are gone.
ApiRestarts ==
    /\ bjCrashes < MaxCrashes /\ bjCrashes' = bjCrashes + 1
    /\ bjApi' = [j \in ApiJobs |-> IF bjApi[j] = "new" THEN "new" ELSE "ended"]
    /\ bjResults' = [j \in ApiJobs |-> NoResult]
    /\ bjTold' = [j \in ApiJobs |-> "nothing"] /\ bjEndedAt' = [j \in ApiJobs |-> -1]
    /\ UNCHANGED <<queueVars, bjTime>>

----------------------------------------
(* The task pair *)

InQueue(j) == \E i \in DOMAIN bjQueue : bjQueue[i] = j

\* submit_backtest_job: the inputs are valid and the broker takes the task.
SubmitJob(j) ==
    /\ bjCollected[j] = "nothing"
    /\ bjQueue' = Append(bjQueue, j)
    /\ bjCollected' = [bjCollected EXCEPT ![j] = "submitted"]
    /\ UNCHANGED <<bjWorker, bjStored, apiVars, bjTime, bjCrashes>>

\* Invalid inputs, a broker that is down, or one that returns no id: "failed"
\* and nothing queued.
SubmitFails(j) ==
    /\ bjCollected[j] = "nothing"
    /\ bjCollected' = [bjCollected EXCEPT ![j] = "refused"]
    /\ UNCHANGED <<bjQueue, bjWorker, bjStored, apiVars, bjTime, bjCrashes>>

\* The worker pops a task; the list keeps no copy.
WorkerTakes ==
    /\ bjQueue # <<>> /\ bjWorker = IdleWorker
    /\ bjWorker' = [job |-> Head(bjQueue), attempt |-> 1]
    /\ bjQueue' = Tail(bjQueue)
    /\ UNCHANGED <<bjStored, bjCollected, apiVars, bjTime, bjCrashes>>

\* run_backtest returns a payload in any case: an exception becomes "failed".
WorkerStores(payload) ==
    /\ bjStored' = [bjStored EXCEPT ![bjWorker.job] = payload]
    /\ bjWorker' = IdleWorker

MutAfterTransient ==           \* counts the attempts from the start again
    /\ bjWorker' = [bjWorker EXCEPT !.attempt = IF @ = JobRetries + 1 THEN 1 ELSE @ + 1]
    /\ UNCHANGED bjStored

\* with_retry: a connection error or a timeout is tried again, JobRetries times.
AfterTransient ==
    IF bjWorker.attempt <= JobRetries
    THEN bjWorker' = [bjWorker EXCEPT !.attempt = @ + 1] /\ UNCHANGED bjStored
    ELSE WorkerStores("failed")

\* One attempt of _execute_backtest under wait_for.
WorkerAttempt ==
    /\ bjWorker # IdleWorker
    /\ \/ WorkerStores("completed")
       \/ WorkerStores("failed")          \* any other exception: at once
       \/ AfterTransient
    /\ UNCHANGED <<bjQueue, bjCollected, apiVars, bjTime, bjCrashes>>

WorkerCrashes ==
    /\ bjCrashes < MaxCrashes /\ bjCrashes' = bjCrashes + 1
    /\ bjWorker # IdleWorker /\ bjWorker' = IdleWorker
    /\ UNCHANGED <<bjQueue, bjStored, bjCollected, apiVars, bjTime>>

\* collect_backtest_result: a stored payload, whatever it says, is "completed".
\* No result yet ("pending") and a backend out of reach ("failed") change nothing.
Collect(j) ==
    /\ bjCollected[j] = "submitted" /\ bjStored[j] # "none"
    /\ bjCollected' = [bjCollected EXCEPT ![j] = "completed"]
    /\ UNCHANGED <<bjQueue, bjWorker, bjStored, apiVars, bjTime, bjCrashes>>

JobClock ==
    /\ bjTime < MaxJobTime
    /\ bjTime' = bjTime + 1
    /\ UNCHANGED <<apiVars, queueVars, bjCrashes>>

WorkerStep == WorkerTakes \/ WorkerAttempt

JobsNext ==
    \/ \E j \in ApiJobs : AcceptBacktest(j) \/ BackgroundStarts(j) \/ BackgroundEnds(j) \/ PollResult(j)
    \/ ApiRestarts
    \/ \E j \in QueueJobs : SubmitJob(j) \/ SubmitFails(j) \/ Collect(j)
    \/ WorkerStep \/ WorkerCrashes \/ JobClock

----------------------------------------
(* Properties *)

\* Once a poll has told how a backtest ended, no later poll tells anything else
\* than that, or that the entry has expired.
OutcomeIsFinal ==
    [][\A j \in ApiJobs : bjTold[j] \in {"completed", "failed"} =>
          bjTold'[j] \in {bjTold[j], "not_found", "nothing"}]_bjVars

\* A backtest that took longer than the time to live is still available for that
\* long after it ended, unless the process restarted.
ResultStaysForTtl ==
    \A j \in ApiJobs : bjEndedAt[j] # -1 /\ bjTime - bjEndedAt[j] <= ResultsTtl
                           => bjResults[j].status \in {"completed", "failed"}

\* Every submitted job is taken from the queue, however often the job before it
\* is retried.
QueuedJobsRun == \A j \in QueueJobs : InQueue(j) ~> ~InQueue(j)
=============================================================================
