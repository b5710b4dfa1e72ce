------------------------------ MODULE JobQueue ------------------------------
(***************************************************************************)
(* The background job queue (lib/jobQueue.ts): BackgroundJob rows in       *)
(* Postgres, drained by processPendingJobs, which runs both in the daily   *)
(* cron request and, not awaited, after a registration.  So several        *)
(* batches run at once, each on its own serverless instance, and an        *)
(* instance may be stopped at any await: the cron route has 60 seconds,    *)
(* the un-awaited batch has until its response is sent.                    *)
(*                                                                         *)
(* What a job does (lib/jobHandlers.ts: a notification, an e-mail, a call  *)
(* of a CRM webhook) is abstracted to whether executeJob returns or        *)
(* throws; runs[j] counts how often it was called for j.  Payloads are     *)
(* written by JSON.stringify, so the branch for an unparsable one is left  *)
(* out, and no caller passes runAfter or maxAttempts.                      *)
(***************************************************************************)
EXTENDS Naturals, FiniteSets

CONSTANTS
    NJobs,        \* how many jobs are published in a behaviour
    Workers,      \* batches running at the same time
    MaxAttempts,  \* BackgroundJob.maxAttempts
    BatchPerRun,  \* BATCH_PER_RUN
    MaxCrashes    \* bound: batches stopped half way

ASSUME JobQueueAssumption ==
    /\ NJobs \in Nat
    /\ MaxAttempts \in Nat \ {0}
    /\ BatchPerRun \in Nat \ {0}
    /\ MaxCrashes \in Nat

\* Job ids are given out in the order of createdAt, which claimNextJob sorts by.
Jobs == 1..NJobs

VARIABLES
    published,  \* jobs 1..published have been enqueued
    status,     \* BackgroundJob.status
    attempts,   \* BackgroundJob.attempts
    worker,     \* the batches: next step, the job in hand, iterations left
    runs,       \* how often executeJob was called for a job
    crashes     \* batches stopped so far

vars == <<published, status, attempts, worker, runs, crashes>>

Pending == {j \in 1..published : status[j] = "PENDING"}

Idle == [pc |-> "idle", job |-> 0, left |-> 0]

Goto(w, pc) == worker' = [worker EXCEPT ![w].pc = pc]

\* The loop of processPendingJobs: the next iteration, or the end of the batch.
NextIteration(w) ==
    worker' = [worker EXCEPT ![w] = IF @.left > 1
                                    THEN [pc |-> "find", job |-> 0, left |-> @.left - 1]
                                    ELSE Idle]

Init ==
    /\ published = 0
    /\ status = [j \in Jobs |-> "PENDING"]
    /\ attempts = [j \in Jobs |-> 0]
    /\ worker = [w \in Workers |-> Idle]
    /\ runs = [j \in Jobs |-> 0]
    /\ crashes = 0

-----------------------------------------------------------------------------
\* enqueueJob: one more row, PENDING with no attempts.
Enqueue ==
    /\ published < NJobs
    /\ published' = published + 1
    /\ UNCHANGED <<status, attempts, worker, runs, crashes>>

\* A cron request, or the kick after a registration, starts a batch.
StartBatch(w) ==
    /\ worker[w].pc = "idle"
    /\ worker' = [worker EXCEPT ![w] = [pc |-> "find", job |-> 0, left |-> BatchPerRun]]
    /\ UNCHANGED <<published, status, attempts, runs, crashes>>

Found(w, j) ==
    worker' = [worker EXCEPT ![w] = [pc |-> "claim", job |-> j, left |-> @.left]]

Find_AnyJob(w) ==
    /\ worker[w].pc = "find"
    /\ \E j \in Pending : Found(w, j)
    /\ UNCHANGED <<published, status, attempts, runs, crashes>>

\* claimNextJob looks for a due job, findFirst ordered by createdAt; the batch ends
\* when there is none.
Find(w) ==
    /\ worker[w].pc = "find"
    /\ \/ /\ Pending = {}
          /\ worker' = [worker EXCEPT ![w] = Idle]
       \/ \E j \in Pending :
              /\ \A k \in Pending : j <= k
              /\ Found(w, j)
    /\ UNCHANGED <<published, status, attempts, runs, crashes>>

Claim_Unconditional(w) ==
    LET j == worker[w].job IN
    /\ worker[w].pc = "claim"
    /\ status' = [status EXCEPT ![j] = "PROCESSING"]
    /\ attempts' = [attempts EXCEPT ![j] = @ + 1]
    /\ Goto(w, "execute")
    /\ UNCHANGED <<published, runs, crashes>>

\* ... and takes it, unless another batch was faster: the updateMany matches only
\* a row that is still PENDING.  Losing the race ends the batch.
Claim(w) ==
    LET j == worker[w].job IN
    /\ worker[w].pc = "claim"
    /\ \/ /\ status[j] = "PENDING"
          /\ status' = [status EXCEPT ![j] = "PROCESSING"]
          /\ attempts' = [attempts EXCEPT ![j] = @ + 1]
          /\ Goto(w, "execute")
       \/ /\ status[j] # "PENDING"
          /\ worker' = [worker EXCEPT ![w] = Idle]
          /\ UNCHANGED <<status, attempts>>
    /\ UNCHANGED <<published, runs, crashes>>

\* executeJob returns or throws.
Execute(w) ==
    LET j == worker[w].job IN
    /\ worker[w].pc = "execute"
    /\ runs' = [runs EXCEPT ![j] = @ + 1]
    /\ \/ Goto(w, "done")
       \/ Goto(w, "failed")
    /\ UNCHANGED <<published, status, attempts, crashes>>

\* The row is marked DONE.  That update is inside the try block: when it throws,
\* the job is treated as one that failed.
Finish(w) ==
    LET j == worker[w].job IN
    /\ worker[w].pc = "done"
    /\ \/ /\ status' = [status EXCEPT ![j] = "DONE"]
          /\ NextIteration(w)
       \/ /\ Goto(w, "failed")
          /\ UNCHANGED status
    /\ UNCHANGED <<published, attempts, runs, crashes>>

Fail_OneMore(w) ==
    LET j == worker[w].job IN
    /\ worker[w].pc = "failed"
    /\ status' = [status EXCEPT ![j] =
                     IF attempts[j] > MaxAttempts THEN "FAILED" ELSE "PENDING"]
    /\ NextIteration(w)
    /\ UNCHANGED <<published, attempts, runs, crashes>>

Fail_OneLess(w) ==
    LET j == worker[w].job IN
    /\ worker[w].pc = "failed"
    /\ status' = [status EXCEPT ![j] =
                     IF attempts[j] + 1 >= MaxAttempts THEN "FAILED" ELSE "PENDING"]
    /\ NextIteration(w)
    /\ UNCHANGED <<published, attempts, runs, crashes>>

Fail_Dropped(w) ==
    /\ worker[w].pc = "failed"
    /\ NextIteration(w)
    /\ UNCHANGED <<published, status, attempts, runs, crashes>>

\* The catch block: the job goes back to the queue until its attempts are used up.
\* job.attempts was read by the transaction that claimed the job; nobody else
\* writes it while the job is PROCESSING, so the row's value stands for it.
Fail(w) ==
    LET j == worker[w].job IN
    /\ worker[w].pc = "failed"
    /\ status' = [status EXCEPT ![j] =
                     IF attempts[j] >= MaxAttempts THEN "FAILED" ELSE "PENDING"]
    /\ NextIteration(w)
    /\ UNCHANGED <<published, attempts, runs, crashes>>

\* The instance is stopped, or a query outside the try block throws.
Crash(w) ==
    /\ worker[w].pc # "idle"
    /\ crashes < MaxCrashes
    /\ crashes' = crashes + 1
    /\ worker' = [worker EXCEPT ![w] = Idle]
    /\ UNCHANGED <<published, status, attempts, runs>>

Work(w) == Find(w) \/ Claim(w) \/ Execute(w) \/ Finish(w) \/ Fail(w)

Next ==
    \/ Enqueue
    \/ \E w \in Workers : StartBatch(w) \/ Work(w) \/ Crash(w)

Spec == Init /\ [][Next]_vars

\* A batch that is not stopped goes on, and Vercel starts a new one every day.
FairSpec ==
    /\ Spec
    /\ WF_vars(\E w \in Workers : StartBatch(w))
    /\ \A w \in Workers : WF_vars(Work(w))

-----------------------------------------------------------------------------
Statuses == {"PENDING", "PROCESSING", "DONE", "FAILED"}

\* The rows and the batches hold values of the types the code gives them; a job
\* is never attempted more often than maxAttempts.
TypeOK ==
    /\ published \in 0..NJobs
    /\ status \in [Jobs -> Statuses]
    /\ attempts \in [Jobs -> 0..MaxAttempts]
    /\ worker \in [Workers -> [pc : {"idle", "find", "claim", "execute", "done", "failed"},
                               job : 0..NJobs, left : 0..BatchPerRun]]
    /\ runs \in [Jobs -> 0..MaxAttempts]
    /\ crashes \in 0..MaxCrashes

\* The job a batch has claimed and not yet given back.
Holds(w, j) == worker[w].job = j /\ worker[w].pc \in {"execute", "done", "failed"}

\* No job is in the hands of two batches: claimNextJob hands a row to one of the
\* batches that found it, however the cron run and the kicks interleave.
OneBatchPerJob ==
    \A j \in Jobs : \A v, w \in Workers : Holds(v, j) /\ Holds(w, j) => v = w

\* A job is given up (FAILED) only after all its attempts were really made, and a
\* job that counts as DONE was executed at least once.
OutcomeWasEarned ==
    \A j \in Jobs :
        /\ status[j] = "FAILED" => runs[j] = MaxAttempts
        /\ status[j] = "DONE" => runs[j] > 0

\* lib/messagingQueue.ts:15, "FIFO by createdAt": whatever the batches do, a job is
\* attempted for the first time only after every older job has been.
FirstAttemptsInOrder ==
    \A j, k \in Jobs : j < k /\ attempts[k] > 0 => attempts[j] > 0

\* DONE and FAILED are final: no batch takes the job up again.
OutcomeIsFinal ==
    [][\A j \in Jobs : status[j] \in {"DONE", "FAILED"} => status'[j] = status[j]]_vars

\* A batch that is stopped loses at most the job in its hands: every other job is
\* eventually DONE or FAILED.
OnlyHeldJobsAreLost ==
    \A j \in Jobs : j <= published ~>
        \/ status[j] \in {"DONE", "FAILED"}
        \/ status[j] = "PROCESSING" /\ crashes > 0 /\ \A w \in Workers : ~Holds(w, j)

-----------------------------------------------------------------------------
(* The queue implements JobPromise: a claimed job is being attempted while a *)
(* batch holds it, and lost when none does.                                *)

Lost == {j \in Jobs : status[j] = "PROCESSING" /\ \A w \in Workers : ~Holds(w, j)}

StageOf(j) == IF j > published THEN "unpublished"
              ELSE IF j \in Lost THEN "lost"
              ELSE [PENDING |-> "waiting", PROCESSING |-> "attempted",
                    DONE    |-> "done",    FAILED     |-> "failed"][status[j]]

Promise == INSTANCE JobPromise WITH
    stage <- [j \in Jobs |-> StageOf(j)],
    tries <- attempts,
    ran   <- runs,
    stops <- crashes

\* Every step of the batches, and every stop of one, keeps the promise: attempts
\* begin in order and execute the job once, outcomes are earned and final, and a
\* batch that is stopped loses no job but the one in its hands.
QueuePromise == Promise!PromiseSpec

\* No more jobs are lost than batches were stopped.
FewAreLost == Cardinality(Lost) <= crashes

-----------------------------------------------------------------------------
(* The inductive invariant behind these properties.                        *)

\* What the row of a job says about the attempts made, while no batch holds it.
RowTellsRuns ==
    \A j \in Jobs :
        /\ j > published => attempts[j] = 0 /\ status[j] = "PENDING"
        /\ status[j] = "PENDING" => runs[j] = attempts[j] /\ attempts[j] < MaxAttempts
        /\ status[j] = "PROCESSING" => attempts[j] > 0
        /\ status[j] = "DONE" => runs[j] > 0 /\ attempts[j] > 0
        /\ status[j] = "FAILED" => runs[j] = MaxAttempts /\ attempts[j] > 0

\* A held job is PROCESSING, and its attempt is counted before it is executed.
HeldIsProcessing ==
    \A w \in Workers :
        /\ worker[w].pc \in {"execute", "done", "failed"} =>
               /\ worker[w].job \in Jobs
               /\ status[worker[w].job] = "PROCESSING"
        /\ worker[w].pc = "execute" => runs[worker[w].job] = attempts[worker[w].job] - 1
        /\ worker[w].pc \in {"done", "failed"} => runs[worker[w].job] = attempts[worker[w].job]

\* The job a batch found stays one whose elders have all been attempted.
FoundIsOldest ==
    \A w \in Workers :
        worker[w].pc = "claim" =>
            /\ worker[w].job \in 1..published
            /\ \A k \in Jobs : k < worker[w].job => attempts[k] > 0

IInv ==
    /\ TypeOK
    /\ OneBatchPerJob
    /\ RowTellsRuns
    /\ HeldIsProcessing
    /\ FoundIsOldest
    /\ FirstAttemptsInOrder
=============================================================================
