----------------------------- MODULE JobPromise -----------------------------
(***************************************************************************)
(* What the background queue promises whoever publishes a job, with no     *)
(* rows, no batches and no races between them:                             *)
(*   - first attempts are made in the order of publication,                *)
(*   - an attempt executes the job at most once,                           *)
(*   - after an attempt that did execute it the job is done, or waits for  *)
(*     another one, or is given up, which takes MaxAttempts of them,       *)
(*   - what is done or given up is settled,                                *)
(*   - a stop of the machinery loses at most one job, one being attempted. *)
(* There is no promise that a job is executed once: an attempt may execute *)
(* it and still be counted as failed.                                      *)
(***************************************************************************)
EXTENDS Naturals

CONSTANTS NJobs, MaxAttempts

Jobs == 1..NJobs

VARIABLES
    stage,  \* where a job is on its way
    tries,  \* attempts begun
    ran,    \* attempts that executed the job
    stops   \* stops of the machinery

promiseVars == <<stage, tries, ran, stops>>

PromiseInit ==
    /\ stage = [j \in Jobs |-> "unpublished"]
    /\ tries = [j \in Jobs |-> 0]
    /\ ran = [j \in Jobs |-> 0]
    /\ stops = 0

Move(j, from, to) == stage[j] = from /\ stage' = [stage EXCEPT ![j] = to]

Publish(j) ==
    /\ Move(j, "unpublished", "waiting")
    /\ \A k \in Jobs : k < j => stage[k] # "unpublished"
    /\ UNCHANGED <<tries, ran, stops>>

Attempt(j) ==
    /\ Move(j, "waiting", "attempted")
    /\ tries[j] < MaxAttempts
    /\ \A k \in Jobs : k < j => tries[k] > 0
    /\ tries' = [tries EXCEPT ![j] = @ + 1]
    /\ UNCHANGED <<ran, stops>>

Run(j) ==
    /\ stage[j] = "attempted" /\ ran[j] < tries[j]
    /\ ran' = [ran EXCEPT ![j] = @ + 1]
    /\ UNCHANGED <<stage, tries, stops>>

Ran(j) == ran[j] = tries[j] /\ UNCHANGED <<tries, ran, stops>>

Succeed(j) == Move(j, "attempted", "done") /\ Ran(j)
Retry(j)   == Move(j, "attempted", "waiting") /\ Ran(j) /\ tries[j] < MaxAttempts
GiveUp(j)  == Move(j, "attempted", "failed") /\ Ran(j) /\ tries[j] = MaxAttempts

Stop ==
    /\ stops' = stops + 1
    /\ \/ UNCHANGED stage
       \/ \E j \in Jobs : Move(j, "attempted", "lost")
    /\ UNCHANGED <<tries, ran>>

PromiseNext ==
    \/ \E j \in Jobs : Publish(j) \/ Attempt(j) \/ Run(j) \/ Succeed(j) \/ Retry(j) \/ GiveUp(j)
    \/ Stop

PromiseSpec == PromiseInit /\ [][PromiseNext]_promiseVars
=============================================================================
