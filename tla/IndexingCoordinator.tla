-------------------------- MODULE IndexingCoordinator --------------------------
(***************************************************************************)
(* The scheduling around the document queue: the coordinator's loop        *)
(* (server/src/indexing_coordinator.rs), the notifications of the storage  *)
(* writer (writer.rs), the service's health (health.rs, lib.rs).  What the *)
(* storage calls do to the tables is JobQueue's subject; here a job is     *)
(* queued, claimed or settled.                                             *)
(*                                                                         *)
(* A write already sent when its task is dropped still takes place.  Nobody*)
(* else touches a claimed job meanwhile, so this is the same as the task   *)
(* writing first and being dropped afterwards.                             *)
(***************************************************************************)
EXTENDS Naturals, FiniteSets

CONSTANTS
    Jobs,           \* documents clients submit
    Concurrency,    \* PREPARATION_CONCURRENCY
    Failures,       \* how a task may fail: see ProcessFails
    ClientsLeave,   \* may a connection close before its upload is answered?
    StorageFails,   \* may a claim fail?
    Rescans,        \* DURABILITY_RESCAN: the interval of the loop
    MaxRestarts     \* bound of a run

ASSUME CoordinatorAssumption ==
    /\ Concurrency \in Nat \ {0}
    /\ Failures \subseteq {"failed", "unfinished", "fatal"}
    /\ {ClientsLeave, StorageFails, Rescans} \subseteq BOOLEAN
    /\ MaxRestarts \in Nat

VARIABLES
    jobs,        \* the queue
    uploads,     \* jobs whose upload has committed and is not yet answered
    permit,      \* the permit document_available stores
    loop,        \* where the coordinator's loop is
    cohort,      \* jobs claimed by the current round
    tasks,       \* what the JoinSet knows of the tasks not yet joined
    degraded,    \* the service's health
    restarts

vars == <<jobs, uploads, permit, loop, cohort, tasks, degraded, restarts>>

-----------------------------------------------------------------------------
TypeOK ==
    /\ jobs \in [Jobs -> {"absent", "queued", "claimed", "settled"}]
    /\ uploads \in SUBSET Jobs
    /\ permit \in BOOLEAN
    /\ loop \in {"starting", "claiming", "joining", "returning", "waiting", "stopped"}
    /\ cohort \in SUBSET Jobs
    /\ tasks \in [Jobs -> {"none", "running", "ok", "error", "fatal"}]
    /\ degraded \in BOOLEAN
    /\ restarts \in 0 .. MaxRestarts

NoTasks == [j \in Jobs |-> "none"]

Init ==
    /\ jobs = [j \in Jobs |-> "absent"]
    /\ uploads = {}
    /\ permit = FALSE
    /\ loop = "starting"
    /\ cohort = {}
    /\ tasks = NoTasks
    /\ degraded = FALSE
    /\ restarts = 0

-----------------------------------------------------------------------------
(* Uploads: StorageWriter::upsert_document.                                *)

\* Mutation of Enqueueable: only a queued document is recognised as active.
EnqueueableWhenClaimed(j) == jobs[j] # "queued"

\* No job of the document is active: apply_existing.
Enqueueable(j) == jobs[j] \in {"absent", "settled"}

\* The write commits; a document with a job under way is not enqueued again.
\* A degraded server refuses new requests, but a request it had let in before
\* still commits.
Upload(j) ==
    /\ Enqueueable(j)
    /\ j \notin uploads
    /\ jobs' = [jobs EXCEPT ![j] = "queued"]
    /\ uploads' = uploads \cup {j}
    /\ UNCHANGED <<permit, loop, cohort, tasks, degraded, restarts>>

\* notify_one: kept for the next notified() if nobody waits.
Notified == TRUE

NotifyDocuments(j) ==
    /\ j \in uploads
    /\ uploads' = uploads \ {j}
    /\ permit' = (permit \/ Notified)
    /\ UNCHANGED <<jobs, loop, cohort, tasks, degraded, restarts>>

\* The future is dropped between the commit and the notification.
ClientLeaves(j) ==
    /\ ClientsLeave
    /\ j \in uploads
    /\ uploads' = uploads \ {j}
    /\ UNCHANGED <<jobs, permit, loop, cohort, tasks, degraded, restarts>>

-----------------------------------------------------------------------------
(* The loop: run and process_available.                                    *)

Start ==
    /\ loop = "starting"
    /\ loop' = IF degraded THEN "stopped" ELSE "claiming"
    /\ UNCHANGED <<jobs, uploads, permit, cohort, tasks, degraded, restarts>>

Claim(j) ==
    /\ loop = "claiming"
    /\ Cardinality(cohort) < Concurrency
    /\ jobs[j] = "queued"
    /\ jobs' = [jobs EXCEPT ![j] = "claimed"]
    /\ cohort' = cohort \cup {j}
    /\ UNCHANGED <<uploads, permit, loop, tasks, degraded, restarts>>

NothingToClaim ==
    Cardinality(cohort) = Concurrency \/ \A j \in Jobs : jobs[j] # "queued"

Spawn ==
    /\ loop = "claiming"
    /\ NothingToClaim
    /\ cohort # {}
    /\ loop' = "joining"
    /\ tasks' = [j \in Jobs |-> IF j \in cohort THEN "running" ELSE "none"]
    /\ cohort' = {}
    /\ UNCHANGED <<jobs, uploads, permit, degraded, restarts>>

FoundNothing ==
    /\ loop = "claiming"
    /\ NothingToClaim
    /\ cohort = {}
    /\ loop' = "returning"
    /\ UNCHANGED <<jobs, uploads, permit, cohort, tasks, degraded, restarts>>

\* The select! over notified() and the interval is entered some time after the
\* writer has said that nothing is queued, or after an error.
Wait ==
    /\ loop = "returning"
    /\ loop' = "waiting"
    /\ UNCHANGED <<jobs, uploads, permit, cohort, tasks, degraded, restarts>>

\* An error ends the round: it is logged, or it degrades the service and stops
\* the loop.  What was claimed and the tasks not yet joined are dropped.
EndRound(fatal) ==
    /\ loop' = IF fatal THEN "stopped" ELSE "returning"
    /\ degraded' = (degraded \/ fatal)
    /\ cohort' = {}
    /\ tasks' = NoTasks

ClaimFails ==
    /\ StorageFails
    /\ loop = "claiming"
    /\ Cardinality(cohort) < Concurrency
    /\ \E fatal \in BOOLEAN : EndRound(fatal)
    /\ UNCHANGED <<jobs, uploads, permit, restarts>>

\* A task publishes, or deletes an empty document.
ProcessSucceeds(j) ==
    /\ tasks[j] = "running"
    /\ jobs' = [jobs EXCEPT ![j] = "settled"]
    /\ tasks' = [tasks EXCEPT ![j] = "ok"]
    /\ UNCHANGED <<uploads, permit, loop, cohort, degraded, restarts>>

\* "failed": chunking or embedding failed and the job was marked so;
\* "unfinished": a publication error is passed on with the job as it is;
\* "fatal": a panic, or storage that is beyond use.
ProcessFails(j, failure) ==
    /\ tasks[j] = "running"
    /\ jobs' = IF failure = "failed" THEN [jobs EXCEPT ![j] = "settled"] ELSE jobs
    /\ tasks' = [tasks EXCEPT ![j] = IF failure = "fatal" THEN "fatal" ELSE "error"]
    /\ UNCHANGED <<uploads, permit, loop, cohort, degraded, restarts>>

Join(j) ==
    /\ loop = "joining"
    /\ tasks[j] \in {"ok", "error", "fatal"}
    /\ IF tasks[j] = "ok"
       THEN /\ tasks' = [tasks EXCEPT ![j] = "none"]
            /\ UNCHANGED <<loop, cohort, degraded>>
       ELSE EndRound(tasks[j] = "fatal")
    /\ UNCHANGED <<jobs, uploads, permit, restarts>>

RoundEnds ==
    /\ loop = "joining"
    /\ tasks = NoTasks
    /\ loop' = "starting"
    /\ UNCHANGED <<jobs, uploads, permit, cohort, tasks, degraded, restarts>>

WakeByPermit ==
    /\ loop = "waiting"
    /\ permit
    /\ permit' = FALSE
    /\ loop' = "starting"
    /\ UNCHANGED <<jobs, uploads, cohort, tasks, degraded, restarts>>

\* Mutation of RescanDue: the interval is never polled.
RescanNever == FALSE

RescanDue == Rescans

WakeByRescan ==
    /\ loop = "waiting"
    /\ RescanDue
    /\ loop' = "starting"
    /\ UNCHANGED <<jobs, uploads, permit, cohort, tasks, degraded, restarts>>

-----------------------------------------------------------------------------
(* The rest of the service.                                                *)

\* A request met a fatal error: degrade_after_internal_error.
RequestFails ==
    /\ StorageFails
    /\ ~degraded
    /\ degraded' = TRUE
    /\ UNCHANGED <<jobs, uploads, permit, loop, cohort, tasks, restarts>>

\* health_handler: a probe of the storage succeeds.
HealthProbe ==
    /\ degraded
    /\ degraded' = FALSE
    /\ UNCHANGED <<jobs, uploads, permit, loop, cohort, tasks, restarts>>

Recovered(j) == IF jobs[j] = "claimed" THEN "queued" ELSE jobs[j]

\* The process is started anew; initialize takes claimed jobs back.
Restart ==
    /\ restarts < MaxRestarts
    /\ restarts' = restarts + 1
    /\ jobs' = [j \in Jobs |-> Recovered(j)]
    /\ uploads' = {}
    /\ permit' = FALSE
    /\ loop' = "starting"
    /\ cohort' = {}
    /\ tasks' = NoTasks
    /\ degraded' = FALSE

-----------------------------------------------------------------------------
Loop ==
    \/ Start
    \/ \E j \in Jobs : Claim(j) \/ Join(j)
    \/ Spawn
    \/ FoundNothing
    \/ Wait
    \/ ClaimFails
    \/ RoundEnds
    \/ WakeByPermit
    \/ WakeByRescan

Process(j) == ProcessSucceeds(j) \/ \E failure \in Failures : ProcessFails(j, failure)

Next ==
    \/ \E j \in Jobs : Upload(j) \/ NotifyDocuments(j) \/ ClientLeaves(j)
    \/ Loop
    \/ \E j \in Jobs : Process(j)
    \/ RequestFails
    \/ HealthProbe
    \/ Restart

Spec == Init /\ [][Next]_vars

\* The runtime polls the loop and every task, and an upload that is not dropped
\* is answered; nobody has to send one, probe the service or restart it.
FairSpec ==
    /\ Spec
    /\ WF_vars(Loop)
    /\ \A j \in Jobs : /\ WF_vars(Process(j))
                       /\ WF_vars(NotifyDocuments(j) \/ ClientLeaves(j))
                       /\ SF_vars(Claim(j))

-----------------------------------------------------------------------------
(* Safety.                                                                 *)

Held == cohort \cup {j \in Jobs : tasks[j] = "running"}

\* A round holds no more jobs than it may, and what it holds is claimed: no
\* upload and no earlier round has put it back into the queue meanwhile.
HeldJobsAreClaimed ==
    /\ Cardinality(Held) <= Concurrency
    /\ \A j \in Held : jobs[j] = "claimed"

\* "Sticky fatal health degradation": once a fatal error has stopped the
\* coordinator, only a new process calls the service healthy again.
FatalDegradationIsSticky ==
    [][loop = "stopped" /\ degraded => degraded' \/ restarts' # restarts]_vars

-----------------------------------------------------------------------------
(* Liveness.                                                               *)

\* No wake-up is lost for good: whatever notification is missed, merged with
\* another or cut off by an error, a queued job is claimed, unless a fatal
\* error stops the coordinator.
QueuedJobIsClaimed ==
    \A j \in Jobs : jobs[j] = "queued" ~> jobs[j] # "queued" \/ loop = "stopped"

\* "Persisted jobs survive interruption and resume": a claimed job is settled
\* or goes back into the queue, unless the coordinator has stopped.
ClaimedJobResumes ==
    \A j \in Jobs : jobs[j] = "claimed" ~> jobs[j] # "claimed" \/ loop = "stopped"
=============================================================================
