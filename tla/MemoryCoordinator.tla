--------------------------- MODULE MemoryCoordinator ---------------------------
(***************************************************************************)
(* The extraction of memories: the loop that claims jobs as long as its    *)
(* capacity allows, the task of each job from the provider's answer to the *)
(* reconciliation, and the ways a task ends                                *)
(* (server/src/memory_extraction_coordinator.rs, with the classification   *)
(* of provider errors in memory-engine/src/provider.rs).  The calls'       *)
(* effects on the tables are JobQueue's subject, those on the memories     *)
(* MemoryGraph's; here a call succeeds, finds its revision replaced, or    *)
(* fails.                                                                  *)
(*                                                                         *)
(* As in IndexingCoordinator, a write that was sent when its task is       *)
(* dropped counts as done before.                                          *)
(***************************************************************************)
EXTENDS Naturals, FiniteSets

CONSTANTS
    Jobs,           \* memory jobs, one per document revision
    Maximum,        \* maximum_concurrency
    MaxAttempts,    \* retry_memory_job: MAX_ATTEMPTS
    MaxRestarts     \* bound of a run

ASSUME CapacityAssumption ==
    /\ IsFiniteSet(Jobs)
    /\ Maximum \in Nat \ {0}
    /\ MaxAttempts \in Nat \ {0}
    /\ MaxRestarts \in Nat

VARIABLES
    jobs,        \* status of the job; "delayed" is queued with available_at ahead
    attempts,    \* the column of that name
    cached,      \* is there an extraction_result?
    permit,      \* the permit memory_available stores
    loop,        \* where run is
    capacity,    \* concurrency
    steps,       \* what a task in the JoinSet is doing
    results,     \* how many tasks ended which way and were not joined yet
    lost,        \* history: jobs whose task ended without telling the storage
    degraded,    \* the service's health
    restarts

vars == <<jobs, attempts, cached, permit, loop, capacity, steps, results, lost,
          degraded, restarts>>

queue == <<jobs, attempts, cached>>
service == <<degraded, restarts>>

-----------------------------------------------------------------------------
Outcomes == {"ok", "error", "rate_limited", "fatal"}

TypeOK ==
    /\ jobs \in [Jobs -> {"absent", "queued", "delayed", "extracting", "done", "failed"}]
    /\ attempts \in [Jobs -> Nat]
    /\ cached \in [Jobs -> BOOLEAN]
    /\ permit \in BOOLEAN
    /\ loop \in {"starting", "claiming", "selecting", "stopped"}
    /\ capacity \in Nat
    /\ steps \in [Jobs -> {"none", "extract", "embed", "reconcile"}]
    /\ results \in [Outcomes -> Nat]
    /\ lost \in SUBSET Jobs
    /\ degraded \in BOOLEAN
    /\ restarts \in 0 .. MaxRestarts

NoTasks == [j \in Jobs |-> "none"]
NoResults == [o \in Outcomes |-> 0]

Init ==
    /\ jobs = [j \in Jobs |-> "absent"]
    /\ attempts = [j \in Jobs |-> 0]
    /\ cached = [j \in Jobs |-> FALSE]
    /\ permit = FALSE
    /\ loop = "starting"
    /\ capacity = Maximum
    /\ steps = NoTasks
    /\ results = NoResults
    /\ lost = {}
    /\ degraded = FALSE
    /\ restarts = 0

Running == {j \in Jobs : steps[j] # "none"}

\* jobs.len(): tasks that have ended stay in the set until they are joined.
InFlight == Cardinality(Running) + results["ok"] + results["error"]
            + results["rate_limited"] + results["fatal"]

-----------------------------------------------------------------------------
(* What makes jobs available.                                              *)

\* publish_job enqueues it; the indexing task then notifies, unless it is
\* dropped in between.
Publish(j) ==
    /\ jobs[j] = "absent"
    /\ jobs' = [jobs EXCEPT ![j] = "queued"]
    /\ \E notified \in BOOLEAN : permit' = (permit \/ notified)
    /\ UNCHANGED <<attempts, cached, loop, capacity, steps, results, lost, service>>

\* available_at passes; nobody is notified.
Due(j) ==
    /\ jobs[j] = "delayed"
    /\ jobs' = [jobs EXCEPT ![j] = "queued"]
    /\ UNCHANGED <<attempts, cached, permit, loop, capacity, steps, results, lost, service>>

-----------------------------------------------------------------------------
(* The loop: run.                                                          *)

\* The loop ends and the JoinSet is dropped with the tasks in it.
Stop(fatal) ==
    /\ loop' = "stopped"
    /\ degraded' = (degraded \/ fatal)
    /\ steps' = NoTasks
    /\ results' = NoResults
    /\ lost' = lost \cup Running
    /\ UNCHANGED <<queue, permit, capacity, restarts>>

Start ==
    /\ loop = "starting"
    /\ ~degraded
    /\ loop' = "claiming"
    /\ UNCHANGED <<queue, permit, capacity, steps, results, lost, service>>

StopDegraded ==
    /\ loop = "starting"
    /\ degraded
    /\ Stop(FALSE)

\* Mutation of HasCapacity: ended tasks do not count.
HasCapacityForRunning == Cardinality(Running) < capacity

HasCapacity == InFlight < capacity

Claim(j) ==
    /\ loop = "claiming"
    /\ HasCapacity
    /\ jobs[j] = "queued"
    /\ jobs' = [jobs EXCEPT ![j] = "extracting"]
    /\ attempts' = [attempts EXCEPT ![j] = @ + 1]
    /\ steps' = [steps EXCEPT ![j] = "extract"]
    /\ UNCHANGED <<cached, permit, loop, capacity, results, lost, service>>

FoundNothing ==
    /\ loop = "claiming"
    /\ ~HasCapacity \/ \A j \in Jobs : jobs[j] # "queued"
    /\ loop' = "selecting"
    /\ UNCHANGED <<queue, permit, capacity, steps, results, lost, service>>

ClaimFails ==
    /\ loop = "claiming"
    /\ HasCapacity
    /\ \/ /\ loop' = "selecting"
          /\ UNCHANGED <<queue, permit, capacity, steps, results, lost, service>>
       \/ Stop(TRUE)

\* Mutation of Halved: no lower limit.
HalvedToNothing == capacity \div 2

Halved == IF capacity \div 2 < 1 THEN 1 ELSE capacity \div 2

Join(outcome) ==
    /\ loop = "selecting"
    /\ results[outcome] > 0
    /\ IF outcome = "fatal"
       THEN Stop(TRUE)
       ELSE /\ results' = [results EXCEPT ![outcome] = @ - 1]
            /\ capacity' = IF outcome = "rate_limited" THEN Halved ELSE capacity
            /\ loop' = "starting"
            /\ UNCHANGED <<queue, permit, steps, lost, service>>

WakeByPermit ==
    /\ loop = "selecting"
    /\ permit
    /\ permit' = FALSE
    /\ loop' = "starting"
    /\ UNCHANGED <<queue, capacity, steps, results, lost, service>>

\* Mutation of Restored: a tick only wakes the loop.
RestoredNever == capacity

Restored == IF capacity + 1 > Maximum THEN Maximum ELSE capacity + 1

\* Mutation of RescanDue: the interval is polled with nothing in flight only
\* when the permit is there.
RescanDueWithPermit == permit

RescanDue == TRUE

WakeByRescan ==
    /\ loop = "selecting"
    /\ RescanDue
    /\ capacity' = Restored
    /\ loop' = "starting"
    /\ UNCHANGED <<queue, permit, steps, results, lost, service>>

-----------------------------------------------------------------------------
(* A task: process, extract, reconcile.                                    *)

Continue(j, step) ==
    /\ steps' = [steps EXCEPT ![j] = step]
    /\ UNCHANGED <<permit, loop, capacity, results, lost, service>>

End(j, outcome) ==
    /\ steps' = [steps EXCEPT ![j] = "none"]
    /\ results' = [results EXCEPT ![outcome] = @ + 1]
    /\ UNCHANGED <<permit, loop, capacity, service>>

\* An error is passed on with the job as it is: the context cannot be read, the
\* cached answer does not parse, a storage call fails, or the task panics.
LoseJob(j) ==
    /\ steps[j] # "none"
    /\ \E outcome \in {"error", "fatal"} : End(j, outcome)
    /\ lost' = lost \cup {j}
    /\ UNCHANGED queue

\* retry_memory_job: queued for later, failed for good, or stale.
Retry(j, delayed, outcome) ==
    /\ \/ jobs' = [jobs EXCEPT ![j] =
              IF delayed /\ attempts[j] < MaxAttempts THEN "delayed" ELSE "failed"]
       \/ jobs' = [jobs EXCEPT ![j] = "failed"]
    /\ End(j, outcome)
    /\ UNCHANGED <<attempts, cached, lost>>

\* retry_delay, by the classes of ProviderError::failure; "refused" stands for
\* authentication and configuration, "transport" also for provider errors.
HasDelay(failure, attempt) ==
    \/ failure \in {"rate_limited", "transport"}
    \/ failure = "invalid_output" /\ attempt < 2

ProviderFails(j) ==
    /\ steps[j] = "extract"
    /\ ~cached[j]
    /\ \E failure \in {"rate_limited", "transport", "invalid_output", "refused"} :
           Retry(j, HasDelay(failure, attempts[j]),
                 IF failure = "rate_limited" THEN "rate_limited" ELSE "error")

\* cache_memory_extraction, unless the answer comes from the cache.
ProviderAnswers(j) ==
    /\ steps[j] = "extract"
    /\ cached' = [cached EXCEPT ![j] = TRUE]
    /\ Continue(j, "embed")
    /\ UNCHANGED <<jobs, attempts>>

\* The revision was replaced: the write marks the job failed and reports it.
CacheIsStale(j) ==
    /\ steps[j] = "extract"
    /\ ~cached[j]
    /\ jobs' = [jobs EXCEPT ![j] = "failed"]
    /\ End(j, "error")
    /\ UNCHANGED <<attempts, cached, lost>>

\* complete_memory_job: no candidates, or the answer was for an old revision.
Complete(j, status) ==
    /\ jobs' = [jobs EXCEPT ![j] = status]
    /\ End(j, "ok")
    /\ UNCHANGED <<attempts, cached, lost>>

CompleteEmpty(j) ==
    /\ steps[j] = "embed"
    /\ \E status \in {"done", "failed"} : Complete(j, status)

Embed(j) ==
    /\ steps[j] = "embed"
    /\ Continue(j, "reconcile")
    /\ UNCHANGED queue

\* Mutation of EmbeddingFailed: the error is passed on, as in extract.
EmbeddingFailedUnreported(j) == End(j, "error") /\ UNCHANGED <<queue, lost>>

EmbeddingFailed(j) == Retry(j, TRUE, "error")

EmbedFails(j) ==
    /\ steps[j] = "embed"
    /\ EmbeddingFailed(j)

\* reconcile_memories_for completes the job, or finds it stale.
Reconcile(j) ==
    /\ steps[j] = "reconcile"
    /\ \E status \in {"done", "failed"} : Complete(j, status)

ReconcileFails(j) ==
    /\ steps[j] = "reconcile"
    /\ Retry(j, TRUE, "error")

Process(j) ==
    \/ ProviderAnswers(j) \/ ProviderFails(j) \/ CacheIsStale(j)
    \/ CompleteEmpty(j) \/ Embed(j) \/ EmbedFails(j)
    \/ Reconcile(j) \/ ReconcileFails(j)
    \/ LoseJob(j)

-----------------------------------------------------------------------------
(* The rest of the service.                                                *)

\* A request or the other coordinator met a fatal error.  (The probe that would
\* call the service healthy again is in IndexingCoordinator.)
Degrade ==
    /\ ~degraded
    /\ degraded' = TRUE
    /\ UNCHANGED <<queue, permit, loop, capacity, steps, results, lost, restarts>>

\* initialize takes claimed jobs back.
Restart ==
    /\ restarts < MaxRestarts
    /\ restarts' = restarts + 1
    /\ jobs' = [j \in Jobs |-> IF jobs[j] = "extracting" THEN "queued" ELSE jobs[j]]
    /\ permit' = FALSE
    /\ loop' = "starting"
    /\ capacity' = Maximum
    /\ steps' = NoTasks
    /\ results' = NoResults
    /\ lost' = {}
    /\ degraded' = FALSE
    /\ UNCHANGED <<attempts, cached>>

-----------------------------------------------------------------------------
Loop ==
    \/ Start
    \/ StopDegraded
    \/ \E j \in Jobs : Claim(j)
    \/ FoundNothing
    \/ ClaimFails
    \/ \E outcome \in Outcomes : Join(outcome)
    \/ WakeByPermit
    \/ WakeByRescan

Next ==
    \/ \E j \in Jobs : Publish(j) \/ Due(j) \/ Process(j)
    \/ Loop
    \/ Degrade
    \/ Restart

Spec == Init /\ [][Next]_vars

\* The runtime polls the loop and every task, provider and executor answer or
\* time out, and delays pass.  A job that is queued every time the loop claims
\* gets its turn: jobs are claimed oldest first.  select! chooses among its ready
\* branches at random, so an ended task is joined however often the others wake.
FairSpec ==
    /\ Spec
    /\ WF_vars(Loop)
    /\ \A j \in Jobs : /\ WF_vars(Process(j))
                       /\ WF_vars(Due(j))
                       /\ SF_vars(Claim(j))
    /\ SF_vars(\E outcome \in Outcomes : Join(outcome))

-----------------------------------------------------------------------------
(* Safety.                                                                 *)

\* However rate limits, ticks and joins are interleaved, the capacity stays
\* between one and the maximum, the set never holds more tasks than the maximum,
\* and nobody else has taken the job of a running task.
TasksOwnTheirJobs ==
    /\ capacity \in 1 .. Maximum
    /\ InFlight <= Maximum
    /\ \A j \in Running : jobs[j] = "extracting"

-----------------------------------------------------------------------------
(* Liveness.                                                               *)

\* A queued job is claimed, whatever notification was lost or spent while the
\* capacity was used up, unless an error has stopped the loop.
QueuedJobIsClaimed ==
    \A j \in Jobs : jobs[j] = "queued" ~> jobs[j] # "queued" \/ loop = "stopped"

\* "Restore capacity gradually after transient provider throttling."
CapacityReturns == <>[](capacity = Maximum \/ loop = "stopped")

\* A claimed job is done, failed or queued again, unless its task reported an
\* error to nobody or was dropped.
ClaimedJobIsSettled ==
    \A j \in Jobs : jobs[j] = "extracting" ~> jobs[j] # "extracting" \/ j \in lost
=============================================================================
