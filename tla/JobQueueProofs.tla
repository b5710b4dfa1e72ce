--------------------------- MODULE JobQueueProofs ---------------------------
(* Proofs about the background job queue, for any number of jobs, batches, *)
(* attempts and crashes.                                                   *)
EXTENDS JobQueue, FiniteSetTheorems, TLAPS

\* What a step does to one worker, whichever fields it sets.
LEMMA NextIterationTyped ==
    ASSUME TypeOK, NEW w \in Workers, NextIteration(w)
    PROVE  /\ worker' \in [Workers -> [pc : {"idle", "find", "claim", "execute", "done", "failed"},
                                       job : 0..NJobs, left : 0..BatchPerRun]]
           /\ worker'[w].pc \in {"idle", "find"}
           /\ \A v \in Workers \ {w} : worker'[v] = worker[v]
BY JobQueueAssumption DEF TypeOK, NextIteration, Idle

LEMMA GotoTyped ==
    ASSUME TypeOK, NEW w \in Workers, NEW pc \in {"execute", "done", "failed"}, Goto(w, pc)
    PROVE  /\ worker' \in [Workers -> [pc : {"idle", "find", "claim", "execute", "done", "failed"},
                                       job : 0..NJobs, left : 0..BatchPerRun]]
           /\ worker'[w].pc = pc
           /\ worker'[w].job = worker[w].job
           /\ \A v \in Workers \ {w} : worker'[v] = worker[v]
BY DEF TypeOK, Goto

LEMMA InitInv == Init => IInv
BY JobQueueAssumption DEF Init, IInv, TypeOK, Statuses, Jobs, Idle, OneBatchPerJob, Holds,
   RowTellsRuns, HeldIsProcessing, FoundIsOldest, FirstAttemptsInOrder

LEMMA EnqueueInv == IInv /\ Enqueue => IInv'
<1> SUFFICES ASSUME IInv, Enqueue PROVE IInv'
    OBVIOUS
<1>1. TypeOK'
    BY JobQueueAssumption DEF IInv, Enqueue, TypeOK, Jobs
<1>2. (OneBatchPerJob /\ HeldIsProcessing /\ FirstAttemptsInOrder)'
    BY DEF IInv, Enqueue, OneBatchPerJob, Holds, HeldIsProcessing, FirstAttemptsInOrder
<1>3. (RowTellsRuns /\ FoundIsOldest)'
    BY JobQueueAssumption DEF IInv, Enqueue, RowTellsRuns, FoundIsOldest, TypeOK, Jobs
<1> QED BY <1>1, <1>2, <1>3 DEF IInv

LEMMA StartBatchInv == ASSUME NEW w \in Workers PROVE IInv /\ StartBatch(w) => IInv'
<1> SUFFICES ASSUME IInv, StartBatch(w) PROVE IInv'
    OBVIOUS
<1>1. TypeOK'
    BY JobQueueAssumption DEF IInv, StartBatch, TypeOK
<1>2. worker'[w].pc = "find" /\ \A v \in Workers \ {w} : worker'[v] = worker[v]
    BY DEF IInv, TypeOK, StartBatch
<1>3. (OneBatchPerJob /\ HeldIsProcessing /\ FoundIsOldest)'
    BY <1>2 DEF IInv, StartBatch, OneBatchPerJob, Holds, HeldIsProcessing, FoundIsOldest
<1>4. (RowTellsRuns /\ FirstAttemptsInOrder)'
    BY DEF IInv, StartBatch, RowTellsRuns, FirstAttemptsInOrder
<1> QED BY <1>1, <1>3, <1>4 DEF IInv

LEMMA FindInv == ASSUME NEW w \in Workers PROVE IInv /\ Find(w) => IInv'
<1> SUFFICES ASSUME IInv, Find(w) PROVE IInv'
    OBVIOUS
<1> USE DEF IInv
<1>1. CASE worker' = [worker EXCEPT ![w] = Idle]
    <2>1. TypeOK'
        BY <1>1, JobQueueAssumption DEF Find, TypeOK, Idle
    <2>2. worker'[w].pc = "idle" /\ \A v \in Workers \ {w} : worker'[v] = worker[v]
        BY <1>1 DEF TypeOK, Idle
    <2> QED BY <2>1, <2>2 DEF Find, OneBatchPerJob, Holds, HeldIsProcessing, FoundIsOldest,
               RowTellsRuns, FirstAttemptsInOrder
<1>2. ASSUME NEW j \in Pending, \A k \in Pending : j <= k, Found(w, j) PROVE IInv'
    <2>1. TypeOK'
        <3>1. j \in 0..NJobs
            BY JobQueueAssumption DEF Pending, TypeOK
        <3> QED BY <1>2, <3>1 DEF Find, Found, TypeOK
    <2>2. /\ worker'[w].pc = "claim" /\ worker'[w].job = j
          /\ \A v \in Workers \ {w} : worker'[v] = worker[v]
        BY <1>2 DEF TypeOK, Found
    <2>3. \A k \in Jobs : k < j => attempts[k] > 0
        <3> SUFFICES ASSUME NEW k \in Jobs, k < j PROVE attempts[k] > 0
            OBVIOUS
        <3>1. k \in 1..published /\ status[k] # "PENDING"
            BY <1>2, JobQueueAssumption DEF Pending, Jobs, TypeOK
        <3>2. status[k] \in {"PROCESSING", "DONE", "FAILED"}
            BY <3>1 DEF TypeOK, Statuses
        <3> QED BY <3>2 DEF RowTellsRuns
    <2>4. FoundIsOldest'
        BY <1>2, <2>2, <2>3 DEF Find, FoundIsOldest, Pending
    <2> QED BY <2>1, <2>2, <2>4 DEF Find, OneBatchPerJob, Holds, HeldIsProcessing,
               RowTellsRuns, FirstAttemptsInOrder
<1> QED BY <1>1, <1>2 DEF Find

LEMMA ClaimInv == ASSUME NEW w \in Workers PROVE IInv /\ Claim(w) => IInv'
<1> SUFFICES ASSUME IInv, Claim(w) PROVE IInv'
    OBVIOUS
<1> USE DEF IInv
<1> DEFINE j == worker[w].job
<1>j. j \in 1..published /\ j \in Jobs /\ \A k \in Jobs : k < j => attempts[k] > 0
    BY JobQueueAssumption DEF Claim, FoundIsOldest, TypeOK, Jobs
<1>1. CASE /\ status[j] = "PENDING"
           /\ status' = [status EXCEPT ![j] = "PROCESSING"]
           /\ attempts' = [attempts EXCEPT ![j] = @ + 1]
           /\ Goto(w, "execute")
    <2>1. attempts[j] \in Nat /\ attempts[j] < MaxAttempts /\ runs[j] = attempts[j]
        BY <1>j, <1>1, JobQueueAssumption DEF RowTellsRuns, TypeOK
    <2>2. /\ worker'[w].pc = "execute" /\ worker'[w].job = j
          /\ \A v \in Workers \ {w} : worker'[v] = worker[v]
        BY <1>1, GotoTyped
    <2>3. TypeOK'
        BY <1>1, <1>j, <2>1, GotoTyped, JobQueueAssumption DEF Claim, TypeOK, Statuses
    <2>4. \A v \in Workers : ~Holds(v, j)
        BY <1>1 DEF HeldIsProcessing, Holds
    <2>5. OneBatchPerJob'
        BY <2>2, <2>4 DEF OneBatchPerJob, Holds
    <2>6. RowTellsRuns'
        BY <1>1, <1>j, <2>1, JobQueueAssumption DEF Claim, RowTellsRuns, TypeOK, Jobs
    <2>7. HeldIsProcessing'
        BY <1>1, <1>j, <2>1, <2>2, <2>4 DEF Claim, HeldIsProcessing, Holds, TypeOK
    <2>8. \A k \in Jobs : attempts'[k] \in Nat /\ attempts'[k] >= attempts[k] /\ (k # j => attempts'[k] = attempts[k])
        BY <1>1, <1>j, JobQueueAssumption DEF TypeOK
    <2>9. FoundIsOldest'
        BY <2>2, <2>8, JobQueueAssumption DEF Claim, FoundIsOldest, TypeOK
    <2>10. FirstAttemptsInOrder'
        BY <1>j, <2>8, JobQueueAssumption DEF FirstAttemptsInOrder, TypeOK
    <2> QED BY <2>3, <2>5, <2>6, <2>7, <2>9, <2>10
<1>2. CASE worker' = [worker EXCEPT ![w] = Idle] /\ UNCHANGED <<status, attempts>>
    <2>1. TypeOK'
        BY <1>2, JobQueueAssumption DEF Claim, TypeOK, Idle
    <2>2. worker'[w].pc = "idle" /\ \A v \in Workers \ {w} : worker'[v] = worker[v]
        BY <1>2 DEF TypeOK, Idle
    <2> QED BY <1>2, <2>1, <2>2 DEF Claim, OneBatchPerJob, Holds, HeldIsProcessing,
               FoundIsOldest, RowTellsRuns, FirstAttemptsInOrder
<1> QED BY <1>1, <1>2 DEF Claim

LEMMA ExecuteInv == ASSUME NEW w \in Workers PROVE IInv /\ Execute(w) => IInv'
<1> SUFFICES ASSUME IInv, Execute(w) PROVE IInv'
    OBVIOUS
<1> USE DEF IInv
<1> DEFINE j == worker[w].job
<1>j. /\ j \in Jobs /\ Holds(w, j) /\ status[j] = "PROCESSING"
      /\ runs[j] = attempts[j] - 1 /\ attempts[j] \in 0..MaxAttempts /\ runs[j] \in 0..MaxAttempts
    BY DEF Execute, HeldIsProcessing, Holds, TypeOK
<1>1. PICK pc \in {"done", "failed"} : Goto(w, pc)
    BY DEF Execute
<1>2. /\ worker'[w].pc \in {"done", "failed"} /\ worker'[w].job = j
      /\ \A v \in Workers \ {w} : worker'[v] = worker[v]
    BY <1>1, GotoTyped
<1>3. TypeOK'
    BY <1>1, <1>j, GotoTyped, JobQueueAssumption DEF Execute, TypeOK
<1>4. OneBatchPerJob'
    BY <1>2, <1>j DEF OneBatchPerJob, Holds
<1>5. RowTellsRuns'
    BY <1>j DEF Execute, RowTellsRuns, TypeOK
<1>6. \A v \in Workers \ {w} : ~Holds(v, j)
    BY <1>j DEF OneBatchPerJob
<1>7. HeldIsProcessing'
    BY <1>j, <1>2, <1>6, JobQueueAssumption DEF Execute, HeldIsProcessing, Holds, TypeOK
<1>8. (FoundIsOldest /\ FirstAttemptsInOrder)'
    BY <1>2 DEF Execute, FoundIsOldest, FirstAttemptsInOrder
<1> QED BY <1>3, <1>4, <1>5, <1>7, <1>8

\* Giving the job in hand back, with the status s the code writes.
LEMMA GiveBackInv ==
    ASSUME NEW w \in Workers, NEW s \in {"PENDING", "DONE", "FAILED"}, IInv,
           worker[w].pc \in {"done", "failed"},
           status' = [status EXCEPT ![worker[w].job] = s],
           s = "PENDING" => attempts[worker[w].job] < MaxAttempts,
           s = "FAILED" => attempts[worker[w].job] >= MaxAttempts,
           NextIteration(w), UNCHANGED <<published, attempts, runs, crashes>>
    PROVE  IInv'
<1> USE DEF IInv
<1> DEFINE j == worker[w].job
<1>j. /\ j \in Jobs /\ Holds(w, j) /\ status[j] = "PROCESSING"
      /\ runs[j] = attempts[j] /\ attempts[j] \in 0..MaxAttempts /\ attempts[j] > 0
    BY DEF HeldIsProcessing, Holds, TypeOK, RowTellsRuns
<1>1. TypeOK'
    BY <1>j, NextIterationTyped DEF TypeOK, Statuses
<1>2. worker'[w].pc \in {"idle", "find"} /\ \A v \in Workers \ {w} : worker'[v] = worker[v]
    BY NextIterationTyped
<1>3. (OneBatchPerJob /\ FoundIsOldest /\ FirstAttemptsInOrder)'
    BY <1>2 DEF OneBatchPerJob, Holds, FoundIsOldest, FirstAttemptsInOrder
<1>4. RowTellsRuns'
    BY <1>j, JobQueueAssumption DEF RowTellsRuns, TypeOK
<1>5. \A v \in Workers \ {w} : ~Holds(v, j)
    BY <1>j DEF OneBatchPerJob
<1>6. HeldIsProcessing'
    BY <1>j, <1>2, <1>5 DEF HeldIsProcessing, Holds, TypeOK
<1> QED BY <1>1, <1>3, <1>4, <1>6

LEMMA FinishInv == ASSUME NEW w \in Workers PROVE IInv /\ Finish(w) => IInv'
<1> SUFFICES ASSUME IInv, Finish(w) PROVE IInv'
    OBVIOUS
<1>1. CASE status' = [status EXCEPT ![worker[w].job] = "DONE"] /\ NextIteration(w)
    BY <1>1, GiveBackInv DEF Finish
<1>2. CASE Goto(w, "failed") /\ UNCHANGED status
    <2> USE DEF IInv
    <2>1. /\ worker'[w].pc = "failed" /\ worker'[w].job = worker[w].job
          /\ \A v \in Workers \ {w} : worker'[v] = worker[v]
        BY <1>2, GotoTyped
    <2>2. TypeOK'
        BY <1>2, GotoTyped DEF Finish, TypeOK
    <2> QED BY <1>2, <2>1, <2>2 DEF Finish, OneBatchPerJob, Holds, HeldIsProcessing,
               FoundIsOldest, RowTellsRuns, FirstAttemptsInOrder
<1> QED BY <1>1, <1>2 DEF Finish

LEMMA FailInv == ASSUME NEW w \in Workers PROVE IInv /\ Fail(w) => IInv'
<1> SUFFICES ASSUME IInv, Fail(w) PROVE IInv'
    OBVIOUS
<1>1. attempts[worker[w].job] \in Nat
    BY JobQueueAssumption DEF IInv, Fail, HeldIsProcessing, TypeOK
<1>2. CASE attempts[worker[w].job] >= MaxAttempts
    BY <1>2, GiveBackInv DEF Fail
<1>3. CASE ~(attempts[worker[w].job] >= MaxAttempts)
    <2>1. attempts[worker[w].job] < MaxAttempts
        BY <1>1, <1>3, JobQueueAssumption
    <2>2. status' = [status EXCEPT ![worker[w].job] = "PENDING"]
        BY <1>3 DEF Fail
    <2> QED BY <2>1, <2>2, GiveBackInv DEF Fail
<1> QED BY <1>2, <1>3

LEMMA CrashInv == ASSUME NEW w \in Workers PROVE IInv /\ Crash(w) => IInv'
<1> SUFFICES ASSUME IInv, Crash(w) PROVE IInv'
    OBVIOUS
<1> USE DEF IInv
<1>1. TypeOK'
    BY JobQueueAssumption DEF Crash, TypeOK, Idle
<1>2. worker'[w].pc = "idle" /\ \A v \in Workers \ {w} : worker'[v] = worker[v]
    BY DEF Crash, TypeOK, Idle
<1> QED BY <1>1, <1>2 DEF Crash, OneBatchPerJob, Holds, HeldIsProcessing, FoundIsOldest,
           RowTellsRuns, FirstAttemptsInOrder

\* The inductive invariant of the queue: which attempts each row stands for, and
\* that a claimed row belongs to one batch.
THEOREM QueueInvariant == Spec => []IInv
<1>1. IInv /\ [Next]_vars => IInv'
    <2> SUFFICES ASSUME IInv, [Next]_vars PROVE IInv'
        OBVIOUS
    <2>1. CASE UNCHANGED vars
        BY <2>1 DEF vars, IInv, TypeOK, OneBatchPerJob, Holds, RowTellsRuns, HeldIsProcessing,
           FoundIsOldest, FirstAttemptsInOrder
    <2>2. CASE Enqueue
        BY <2>2, EnqueueInv
    <2>3. ASSUME NEW w \in Workers, StartBatch(w) \/ Work(w) \/ Crash(w) PROVE IInv'
        BY <2>3, StartBatchInv, FindInv, ClaimInv, ExecuteInv, FinishInv, FailInv, CrashInv DEF Work
    <2> QED BY <2>1, <2>2, <2>3 DEF Next
<1> QED BY <1>1, InitInv, PTL DEF Spec

\* Attempts never exceed maxAttempts, and every row keeps a status of the code.
THEOREM QueueTypeCorrect == Spec => []TypeOK
<1>1. IInv => TypeOK
    BY DEF IInv
<1> QED BY <1>1, QueueInvariant, PTL

\* However many cron runs and kicks overlap, no job is executed by two batches.
THEOREM NoJobIsShared == Spec => []OneBatchPerJob
<1>1. IInv => OneBatchPerJob
    BY DEF IInv
<1> QED BY <1>1, QueueInvariant, PTL

\* FAILED only after maxAttempts executions, DONE only after one.
THEOREM OutcomesAreEarned == Spec => []OutcomeWasEarned
<1>1. IInv => OutcomeWasEarned
    BY DEF IInv, RowTellsRuns, OutcomeWasEarned
<1> QED BY <1>1, QueueInvariant, PTL

\* First attempts are made in the order in which the jobs were published.
THEOREM QueueIsFifo == Spec => []FirstAttemptsInOrder
<1>1. IInv => FirstAttemptsInOrder
    BY DEF IInv
<1> QED BY <1>1, QueueInvariant, PTL

\* A job that is DONE or FAILED stays so.
THEOREM OutcomesAreFinal == Spec => OutcomeIsFinal
<1> DEFINE Kept == \A j \in Jobs : status[j] \in {"DONE", "FAILED"} => status'[j] = status[j]
<1>1. IInv /\ [Next]_vars => [Kept]_vars
    <2> SUFFICES ASSUME IInv, Next PROVE Kept
        BY DEF vars
    <2>1. CASE Enqueue
        BY <2>1 DEF Enqueue
    <2>2. ASSUME NEW w \in Workers, StartBatch(w) \/ Find(w) \/ Execute(w) \/ Crash(w) PROVE Kept
        BY <2>2 DEF StartBatch, Find, Execute, Crash
    <2>3. ASSUME NEW w \in Workers, Claim(w) PROVE Kept
        BY <2>3 DEF Claim, IInv, TypeOK
    <2>4. ASSUME NEW w \in Workers, Finish(w) \/ Fail(w) PROVE Kept
        BY <2>4 DEF Finish, Fail, IInv, HeldIsProcessing, TypeOK
    <2> QED BY <2>1, <2>2, <2>3, <2>4 DEF Next, Work
<1> QED BY <1>1, QueueInvariant, PTL DEF Spec, OutcomeIsFinal

-----------------------------------------------------------------------------
(* The refinement of JobPromise.  A step moves one job from a stage to another, or none. *)

stageBar == [j \in Jobs |-> StageOf(j)]

LEMMA NothingMoves ==
    ASSUME UNCHANGED <<published, status>>,
           \A w \in Workers, j \in Jobs : Holds(w, j)' = Holds(w, j)
    PROVE  UNCHANGED stageBar
<1>1. \A j \in Jobs : StageOf(j)' = StageOf(j)
    BY DEF StageOf, Lost
<1> QED BY <1>1 DEF stageBar

LEMMA OneMoves ==
    ASSUME NEW j \in Jobs, NEW from, NEW to,
           StageOf(j) = from, StageOf(j)' = to,
           \A k \in Jobs \ {j} : StageOf(k)' = StageOf(k)
    PROVE  Promise!Move(j, from, to)
<1>1. stageBar[j] = from /\ stageBar' = [stageBar EXCEPT ![j] = to]
    BY DEF stageBar
<1> QED BY <1>1 DEF stageBar, Promise!Move, Promise!Jobs, Jobs

\* A batch that takes or gives up the job j leaves the others where they are.
LEMMA OthersKeepStage ==
    ASSUME NEW w \in Workers, NEW j \in Jobs,
           UNCHANGED published,
           \A k \in Jobs \ {j} : status'[k] = status[k],
           \A v \in Workers \ {w} : worker'[v] = worker[v],
           \A k \in Jobs \ {j} : ~Holds(w, k) /\ ~Holds(w, k)'
    PROVE  \A k \in Jobs \ {j} : StageOf(k)' = StageOf(k)
<1> SUFFICES ASSUME NEW k \in Jobs, k # j PROVE StageOf(k)' = StageOf(k)
    OBVIOUS
<1>1. \A v \in Workers : Holds(v, k)' = Holds(v, k)
    BY DEF Holds
<1> QED BY <1>1 DEF StageOf, Lost

\* The job in the hands of a batch is being attempted.
LEMMA HeldIsAttempted ==
    ASSUME IInv, NEW w \in Workers, worker[w].pc \in {"execute", "done", "failed"}
    PROVE  /\ worker[w].job \in Jobs /\ worker[w].job \in 1..published
           /\ Holds(w, worker[w].job)
           /\ StageOf(worker[w].job) = "attempted"
           /\ \A v \in Workers \ {w} : ~Holds(v, worker[w].job)
<1> DEFINE j == worker[w].job
<1>1. j \in Jobs /\ Holds(w, j) /\ status[j] = "PROCESSING"
    BY DEF IInv, HeldIsProcessing, Holds
<1>2. j \in 1..published
    BY <1>1, JobQueueAssumption DEF IInv, RowTellsRuns, TypeOK, Jobs
<1>3. StageOf(j) = "attempted"
    <2>1. ~(j > published) /\ j \notin Lost
        BY <1>1, <1>2, JobQueueAssumption DEF Lost, IInv, TypeOK
    <2> QED BY <1>1, <2>1 DEF StageOf
<1> QED BY <1>1, <1>2, <1>3 DEF IInv, OneBatchPerJob

LEMMA EnqueueIsPublish ==
    ASSUME IInv, Enqueue
    PROVE  Promise!PromiseNext
<1>1. PICK j \in Jobs : published \in 0..NJobs /\ j = published + 1 /\ status[j] = "PENDING"
    BY JobQueueAssumption DEF IInv, TypeOK, Enqueue, RowTellsRuns, Jobs
<1>2. StageOf(j) = "unpublished" /\ StageOf(j)' = "waiting"
    BY <1>1 DEF StageOf, Lost, Enqueue
<1>3. \A w \in Workers, k \in Jobs : Holds(w, k)' = Holds(w, k)
    BY DEF Holds, Enqueue
<1>4. \A k \in Jobs \ {j} : StageOf(k)' = StageOf(k)
    BY <1>1, <1>3 DEF StageOf, Lost, Enqueue, Jobs
<1>5. \A k \in Jobs : k < j => StageOf(k) # "unpublished"
    BY <1>1 DEF StageOf, Lost, Jobs, IInv, TypeOK, Statuses
<1>6. Promise!Move(j, "unpublished", "waiting")
    BY <1>1, <1>2, <1>4, OneMoves
<1>7. Promise!Publish(j)
    BY <1>1, <1>5, <1>6 DEF Promise!Publish, Promise!Jobs, Jobs, Enqueue
<1> QED BY <1>1, <1>7 DEF Promise!PromiseNext, Promise!Jobs, Jobs

\* Looking for a job, and ending without one, is no step of the promise.
LEMMA LookingIsQuiet ==
    ASSUME IInv, NEW w \in Workers,
           \/ StartBatch(w) \/ Find(w)
           \/ Claim(w) /\ status[worker[w].job] # "PENDING"
    PROVE  UNCHANGED <<stageBar, attempts, runs, crashes>>
<1>1. UNCHANGED <<published, status, attempts, runs, crashes>>
    BY DEF StartBatch, Find, Claim
<1>2. /\ worker[w].pc \in {"idle", "find", "claim"}
      /\ worker'[w].pc \in {"idle", "find", "claim"}
      /\ \A v \in Workers \ {w} : worker'[v] = worker[v]
    BY DEF StartBatch, Find, Claim, Found, Idle, IInv, TypeOK
<1>3. \A v \in Workers, j \in Jobs : Holds(v, j)' = Holds(v, j)
    BY <1>2 DEF Holds
<1> QED BY <1>1, <1>3, NothingMoves

LEMMA ClaimIsAttempt ==
    ASSUME IInv, NEW w \in Workers, Claim(w), status[worker[w].job] = "PENDING"
    PROVE  Promise!PromiseNext
<1>1. PICK j \in Jobs :
          /\ j = worker[w].job /\ j \in 1..published /\ status[j] = "PENDING"
          /\ \A k \in Jobs : k < j => attempts[k] > 0
    BY JobQueueAssumption DEF Claim, IInv, FoundIsOldest, TypeOK, Jobs
<1>2. /\ status' = [status EXCEPT ![j] = "PROCESSING"]
      /\ attempts' = [attempts EXCEPT ![j] = @ + 1]
      /\ Goto(w, "execute") /\ UNCHANGED <<published, runs, crashes>>
    BY <1>1 DEF Claim
<1>3. /\ worker'[w].pc = "execute" /\ worker'[w].job = j
      /\ \A v \in Workers \ {w} : worker'[v] = worker[v]
    BY <1>1, <1>2, GotoTyped DEF IInv
<1>4. StageOf(j) = "waiting" /\ StageOf(j)' = "attempted"
    <2>1. StageOf(j) = "waiting"
        BY <1>1, JobQueueAssumption DEF StageOf, Lost, IInv, TypeOK
    <2>2. status'[j] = "PROCESSING" /\ Holds(w, j)' /\ ~(j > published')
        BY <1>1, <1>2, <1>3, JobQueueAssumption DEF Holds, IInv, TypeOK
    <2>3. StageOf(j)' = "attempted"
        BY <2>2 DEF StageOf, Lost
    <2> QED BY <2>1, <2>3
<1>5. \A k \in Jobs \ {j} : StageOf(k)' = StageOf(k)
    <2>1. \A k \in Jobs \ {j} : status'[k] = status[k] /\ ~Holds(w, k) /\ ~Holds(w, k)'
        BY <1>1, <1>2, <1>3 DEF Holds, Claim, IInv, TypeOK
    <2> QED BY <1>1, <1>2, <1>3, <2>1, OthersKeepStage
<1>6. attempts[j] < MaxAttempts
    BY <1>1 DEF IInv, RowTellsRuns
<1>7. Promise!Move(j, "waiting", "attempted")
    BY <1>1, <1>4, <1>5, OneMoves
<1>8. Promise!Attempt(j)
    BY <1>1, <1>2, <1>6, <1>7 DEF Promise!Attempt, Promise!Jobs, Jobs
<1> QED BY <1>1, <1>8 DEF Promise!PromiseNext, Promise!Jobs, Jobs

LEMMA ExecuteIsRun ==
    ASSUME IInv, NEW w \in Workers, Execute(w)
    PROVE  Promise!PromiseNext
<1>1. PICK j \in Jobs :
          /\ j = worker[w].job /\ Holds(w, j) /\ StageOf(j) = "attempted"
          /\ \A k \in Jobs \ {j} : ~Holds(w, k)
    BY HeldIsAttempted DEF Execute, Holds
<1>2. /\ worker'[w].pc \in {"done", "failed"} /\ worker'[w].job = j
      /\ \A v \in Workers \ {w} : worker'[v] = worker[v]
    BY <1>1, GotoTyped DEF Execute, IInv
<1>3. \A v \in Workers, k \in Jobs : Holds(v, k)' = Holds(v, k)
    BY <1>1, <1>2 DEF Holds
<1>4. UNCHANGED <<stageBar, attempts, crashes>>
    BY <1>3, NothingMoves DEF Execute
<1>5. runs[j] < attempts[j]
    BY <1>1, JobQueueAssumption DEF Execute, IInv, HeldIsProcessing, TypeOK
<1>6. runs' = [runs EXCEPT ![j] = @ + 1]
    BY <1>1 DEF Execute
<1>7. stageBar[j] = "attempted"
    BY <1>1 DEF stageBar
<1>8. Promise!Run(j)
    BY <1>4, <1>5, <1>6, <1>7 DEF Promise!Run, stageBar, Promise!Jobs, Jobs
<1> QED BY <1>1, <1>8 DEF Promise!PromiseNext, Promise!Jobs, Jobs

\* A batch gives its job up: to the status written, or, stopped, to nobody.
LEMMA GivenUp ==
    ASSUME IInv, NEW w \in Workers, worker[w].pc \in {"execute", "done", "failed"},
           NEW j \in Jobs, worker[w].job = j,
           NEW s \in {"PENDING", "PROCESSING", "DONE", "FAILED"},
           status' = [status EXCEPT ![j] = s], UNCHANGED published,
           worker'[w].pc \in {"idle", "find"}, \A v \in Workers \ {w} : worker'[v] = worker[v]
    PROVE  /\ s = "PENDING" => Promise!Move(j, "attempted", "waiting")
           /\ s = "PROCESSING" => Promise!Move(j, "attempted", "lost")
           /\ s = "DONE" => Promise!Move(j, "attempted", "done")
           /\ s = "FAILED" => Promise!Move(j, "attempted", "failed")
<1>1. /\ j \in 1..published /\ StageOf(j) = "attempted"
      /\ \A v \in Workers \ {w} : ~Holds(v, j)
    BY HeldIsAttempted
<1>2. status'[j] = s /\ \A k \in Jobs \ {j} : status'[k] = status[k]
    BY DEF IInv, TypeOK
<1>3. \A v \in Workers : ~Holds(v, j)'
    BY <1>1 DEF Holds
<1>4. ~(j > published')
    BY <1>1, JobQueueAssumption DEF IInv, TypeOK
<1>5. /\ s = "PENDING" => StageOf(j)' = "waiting"
      /\ s = "PROCESSING" => StageOf(j)' = "lost"
      /\ s = "DONE" => StageOf(j)' = "done"
      /\ s = "FAILED" => StageOf(j)' = "failed"
    BY <1>2, <1>3, <1>4 DEF StageOf, Lost
<1>6. \A k \in Jobs \ {j} : ~Holds(w, k) /\ ~Holds(w, k)'
    BY DEF Holds
<1>7. \A k \in Jobs \ {j} : StageOf(k)' = StageOf(k)
    BY <1>2, <1>6, OthersKeepStage
<1> QED BY <1>1, <1>5, <1>7, OneMoves

LEMMA GivingBackIsPromised ==
    ASSUME IInv, NEW w \in Workers, Finish(w) \/ Fail(w)
    PROVE  Promise!PromiseNext \/ UNCHANGED <<stageBar, attempts, runs, crashes>>
<1>1. PICK j \in Jobs :
      /\ worker[w].pc \in {"done", "failed"} /\ worker[w].job = j
      /\ runs[j] = attempts[j] /\ attempts[j] \in 0..MaxAttempts
      /\ UNCHANGED <<published, attempts, runs, crashes>>
    BY HeldIsAttempted DEF Finish, Fail, IInv, HeldIsProcessing, TypeOK
<1>2. CASE Goto(w, "failed") /\ UNCHANGED status
    <2>1. /\ worker'[w].pc = "failed" /\ worker'[w].job = j
          /\ \A v \in Workers \ {w} : worker'[v] = worker[v]
        BY <1>1, <1>2, GotoTyped DEF IInv
    <2>2. \A v \in Workers, k \in Jobs : Holds(v, k)' = Holds(v, k)
        BY <1>1, <2>1 DEF Holds
    <2> QED BY <1>1, <1>2, <2>2, NothingMoves
<1>3. ASSUME NEW s \in {"PENDING", "DONE", "FAILED"},
             status' = [status EXCEPT ![j] = s], NextIteration(w),
             s = "PENDING" => attempts[j] < MaxAttempts,
             s = "FAILED" => attempts[j] = MaxAttempts
      PROVE  Promise!PromiseNext
    <2>1. worker'[w].pc \in {"idle", "find"} /\ \A v \in Workers \ {w} : worker'[v] = worker[v]
        BY <1>3, NextIterationTyped DEF IInv
    <2>2. Promise!Ran(j)
        BY <1>1 DEF Promise!Ran
    <2>3. /\ s = "PENDING" => Promise!Move(j, "attempted", "waiting")
          /\ s = "DONE" => Promise!Move(j, "attempted", "done")
          /\ s = "FAILED" => Promise!Move(j, "attempted", "failed")
        BY <1>1, <1>3, <2>1, GivenUp
    <2>4. Promise!Succeed(j) \/ Promise!Retry(j) \/ Promise!GiveUp(j)
        BY <1>3, <2>2, <2>3 DEF Promise!Succeed, Promise!Retry, Promise!GiveUp
    <2> QED BY <1>1, <2>4 DEF Promise!PromiseNext, Promise!Jobs, Jobs
<1>4. CASE status' = [status EXCEPT ![j] = "DONE"] /\ NextIteration(w)
    BY <1>3, <1>4
<1>5. CASE Fail(w)
    <2>1. CASE attempts[j] >= MaxAttempts
        <3>1. status' = [status EXCEPT ![j] = "FAILED"] /\ NextIteration(w)
            BY <1>1, <1>5, <2>1 DEF Fail
        <3>2. attempts[j] = MaxAttempts
            BY <1>1, <2>1, JobQueueAssumption
        <3> QED BY <1>3, <3>1, <3>2
    <2>2. CASE ~(attempts[j] >= MaxAttempts)
        <3>1. status' = [status EXCEPT ![j] = "PENDING"] /\ NextIteration(w)
            BY <1>1, <1>5, <2>2 DEF Fail
        <3>2. attempts[j] < MaxAttempts
            BY <1>1, <2>2, JobQueueAssumption
        <3> QED BY <1>3, <3>1, <3>2
    <2> QED BY <2>1, <2>2
<1> QED BY <1>1, <1>2, <1>4, <1>5 DEF Finish

LEMMA CrashIsStop ==
    ASSUME IInv, NEW w \in Workers, Crash(w)
    PROVE  Promise!PromiseNext
<1>1. worker'[w].pc = "idle" /\ \A v \in Workers \ {w} : worker'[v] = worker[v]
    BY DEF Crash, Idle, IInv, TypeOK
<1>2. crashes' = crashes + 1 /\ UNCHANGED <<published, status, attempts, runs>>
    BY DEF Crash
<1>3. CASE worker[w].pc \in {"execute", "done", "failed"}
    <2>1. PICK j \in Jobs : worker[w].job = j /\ status[j] = "PROCESSING"
        BY <1>3 DEF IInv, HeldIsProcessing
    <2>2. status' = [status EXCEPT ![j] = "PROCESSING"]
        BY <1>2, <2>1 DEF IInv, TypeOK
    <2>3. Promise!Move(j, "attempted", "lost")
        BY <1>1, <1>2, <1>3, <2>1, <2>2, GivenUp
    <2>4. Promise!Stop
        BY <1>2, <2>1, <2>3 DEF Promise!Stop, Promise!Jobs, Jobs
    <2> QED BY <2>4 DEF Promise!PromiseNext
<1>4. CASE worker[w].pc \notin {"execute", "done", "failed"}
    <2>1. \A v \in Workers, k \in Jobs : Holds(v, k)' = Holds(v, k)
        BY <1>1, <1>4 DEF Holds
    <2>2. UNCHANGED stageBar
        BY <1>2, <2>1, NothingMoves
    <2>3. Promise!Stop
        BY <1>2, <2>2 DEF Promise!Stop, stageBar
    <2> QED BY <2>3 DEF Promise!PromiseNext
<1> QED BY <1>3, <1>4

\* The queue, with any number of batches overlapping and stopping anywhere,
\* keeps the promise of JobPromise: attempts begin in order and execute the job
\* at most once, outcomes are earned and final, and a stopped batch loses at most
\* the job in its hands.
THEOREM QueueKeepsPromise == Spec => QueuePromise
<1>1. Init => Promise!PromiseInit
    <2> SUFFICES ASSUME Init PROVE Promise!PromiseInit
        OBVIOUS
    <2>1. \A j \in Jobs : StageOf(j) = "unpublished"
        <3> SUFFICES ASSUME NEW j \in Jobs PROVE StageOf(j) = "unpublished"
            OBVIOUS
        <3>1. j > published
            BY JobQueueAssumption DEF Init, Jobs
        <3> QED BY <3>1 DEF StageOf
    <2> QED BY <2>1 DEF Init, Promise!PromiseInit, Promise!Jobs, Jobs
<1>2. IInv /\ [Next]_vars => [Promise!PromiseNext]_Promise!promiseVars
    <2> SUFFICES ASSUME IInv, [Next]_vars
                 PROVE  Promise!PromiseNext \/ UNCHANGED <<stageBar, attempts, runs, crashes>>
        BY DEF stageBar, Promise!promiseVars
    <2>1. CASE UNCHANGED vars
        <3>1. \A v \in Workers, k \in Jobs : Holds(v, k)' = Holds(v, k)
            BY <2>1 DEF vars, Holds
        <3> QED BY <2>1, <3>1, NothingMoves DEF vars
    <2>2. CASE Enqueue
        BY <2>2, EnqueueIsPublish
    <2>3. ASSUME NEW w \in Workers, StartBatch(w) \/ Work(w) \/ Crash(w)
          PROVE  Promise!PromiseNext \/ UNCHANGED <<stageBar, attempts, runs, crashes>>
        BY <2>3, LookingIsQuiet, ClaimIsAttempt, ExecuteIsRun, GivingBackIsPromised, CrashIsStop DEF Work
    <2> QED BY <2>1, <2>2, <2>3 DEF Next
<1> QED BY <1>1, <1>2, QueueInvariant, PTL DEF Spec, QueuePromise, Promise!PromiseSpec

-----------------------------------------------------------------------------
(* How many jobs are lost: only a stop makes one more.                     *)

LEMMA WorkLosesNothing ==
    ASSUME IInv, NEW w \in Workers, StartBatch(w) \/ Work(w)
    PROVE  Lost' \subseteq Lost
<1> SUFFICES ASSUME NEW k \in Jobs, status'[k] = "PROCESSING", \A v \in Workers : ~Holds(v, k)'
             PROVE  status[k] = "PROCESSING" /\ \A v \in Workers : ~Holds(v, k)
    BY DEF Lost
<1> USE DEF IInv
<1>1. CASE StartBatch(w) \/ Find(w)
    <2>1. worker[w].pc \in {"idle", "find"} /\ \A v \in Workers \ {w} : worker'[v] = worker[v]
        BY <1>1 DEF StartBatch, Find, Found, TypeOK
    <2> QED BY <1>1, <2>1 DEF StartBatch, Find, Holds
<1>2. CASE Claim(w)
    <2>1. worker[w].pc = "claim" /\ \A v \in Workers \ {w} : worker'[v] = worker[v]
        BY <1>2 DEF Claim, Goto, TypeOK
    <2>2. status[k] # "PROCESSING" => Holds(w, k)'
        BY <1>2 DEF Claim, Goto, Holds, TypeOK
    <2> QED BY <2>1, <2>2 DEF Holds
<1>3. CASE Execute(w) \/ Finish(w) \/ Fail(w)
    <2>1. /\ worker[w].pc \in {"execute", "done", "failed"} /\ worker[w].job \in Jobs
          /\ status[k] = "PROCESSING"
          /\ \A v \in Workers \ {w} : worker'[v] = worker[v]
        BY <1>3 DEF Execute, Finish, Fail, Goto, NextIteration, HeldIsProcessing, TypeOK
    <2>2. ~Holds(w, k)
        <3> SUFFICES ASSUME worker[w].job = k PROVE FALSE
            BY DEF Holds
        <3>1. ~(worker'[w].pc \in {"execute", "done", "failed"} /\ worker'[w].job = k)
            BY DEF Holds
        <3>2. status'[k] # "PROCESSING"
            BY <1>3, <3>1 DEF Execute, Finish, Fail, Goto, TypeOK
        <3> QED BY <3>2
    <2> QED BY <2>1, <2>2 DEF Holds
<1> QED BY <1>1, <1>2, <1>3 DEF Work

LEMMA StopLosesOne ==
    ASSUME IInv, NEW w \in Workers, Crash(w)
    PROVE  Lost' \subseteq Lost \cup {worker[w].job}
<1>1. \A v \in Workers, k \in Jobs : Holds(v, k) /\ ~Holds(v, k)' => k = worker[w].job
    BY DEF Crash, Holds, IInv, TypeOK
<1> QED BY <1>1 DEF Crash, Lost

\* Every lost job cost a batch: as many batches were stopped as jobs are lost, or
\* more.  No overlap of batches, no failed update and no retry loses a job.
THEOREM FewJobsAreLost == Spec => []FewAreLost
<1>1. IsFiniteSet(Lost) /\ IsFiniteSet(Lost)'
    <2>1. IsFiniteSet(Jobs)
        BY FS_Interval, JobQueueAssumption DEF Jobs
    <2> QED BY <2>1, FS_Subset DEF Lost
<1>2. Init => FewAreLost
    <2> SUFFICES ASSUME Init PROVE FewAreLost
        OBVIOUS
    <2>1. Lost = {}
        BY DEF Init, Lost
    <2> QED BY <2>1, FS_EmptySet DEF Init, FewAreLost
<1>3. IInv /\ FewAreLost /\ [Next]_vars => FewAreLost'
    <2> SUFFICES ASSUME IInv, FewAreLost, [Next]_vars PROVE FewAreLost'
        OBVIOUS
    <2>1. Cardinality(Lost) \in Nat /\ Cardinality(Lost') \in Nat /\ crashes \in Nat
        BY <1>1, FS_CardinalityType, JobQueueAssumption DEF IInv, TypeOK
    <2>2. CASE Lost' \subseteq Lost /\ crashes' = crashes
        BY <1>1, <2>1, <2>2, FS_Subset DEF FewAreLost
    <2>3. ASSUME NEW w \in Workers, Crash(w)
          PROVE  FewAreLost'
        <3>1. PICK j : j = worker[w].job
            OBVIOUS
        <3>2. /\ IsFiniteSet(Lost \cup {j})
              /\ Cardinality(Lost \cup {j}) \in Nat
              /\ Cardinality(Lost \cup {j}) <= Cardinality(Lost) + 1
            <4>1. /\ IsFiniteSet(Lost \cup {j})
                  /\ Cardinality(Lost \cup {j})
                        = IF j \in Lost THEN Cardinality(Lost) ELSE Cardinality(Lost) + 1
                BY <1>1, FS_AddElement, Zenon
            <4> QED BY <2>1, <4>1
        <3>3. Lost' \in SUBSET (Lost \cup {j})
            BY <2>3, <3>1, StopLosesOne
        <3>4. Cardinality(Lost') <= Cardinality(Lost \cup {j})
            BY <3>2, <3>3, FS_Subset
        <3> QED BY <2>1, <2>3, <3>2, <3>4 DEF Crash, FewAreLost
    <2>4. CASE UNCHANGED vars
        BY <2>2, <2>4 DEF vars, Lost, Holds
    <2>5. CASE Enqueue
        BY <2>2, <2>5 DEF Enqueue, Lost, Holds
    <2>6. ASSUME NEW w \in Workers, StartBatch(w) \/ Work(w)
          PROVE  FewAreLost'
        BY <2>2, <2>6, WorkLosesNothing DEF StartBatch, Work, Find, Claim, Execute, Finish, Fail
    <2> QED BY <2>3, <2>4, <2>5, <2>6 DEF Next
<1> QED BY <1>2, <1>3, QueueInvariant, PTL DEF Spec
=============================================================================
