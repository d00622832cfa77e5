------------------------ MODULE MemoryCoordinatorProofs ------------------------
(* The capacity of the extraction loop, for any set of jobs and any maximum.    *)
EXTENDS MemoryCoordinator, FiniteSetTheorems, TLAPS

CapacityInv == TypeOK /\ TasksOwnTheirJobs

\* The tasks are counted among finitely many jobs.
LEMMA RunningIsFinite ==
    Running \subseteq Jobs /\ IsFiniteSet(Running) /\ Cardinality(Running) \in Nat
<1>1. Running \subseteq Jobs
    BY DEF Running
<1>2. IsFiniteSet(Running)
    BY <1>1, FS_Subset, CapacityAssumption
<1> QED BY <1>1, <1>2, FS_CardinalityType

\* A task that was started is one more, one that ended is one less.
LEMMA OneTask ==
    ASSUME TypeOK, NEW j \in Jobs, NEW step \in {"none", "extract", "embed", "reconcile"},
           steps' = [steps EXCEPT ![j] = step]
    PROVE  /\ step # "none" /\ j \notin Running =>
                 /\ Running' = Running \cup {j}
                 /\ Cardinality(Running') = Cardinality(Running) + 1
           /\ step # "none" /\ j \in Running => Running' = Running
           /\ step = "none" /\ j \in Running =>
                 /\ Running' = Running \ {j}
                 /\ Cardinality(Running') = Cardinality(Running) - 1
<1>1. /\ step # "none" => Running' = Running \cup {j}
      /\ step = "none" => Running' = Running \ {j}
    BY DEF TypeOK, Running
<1>2. CASE step # "none" /\ j \notin Running
    <2>1. Cardinality(Running \cup {j}) = Cardinality(Running) + 1
        BY <1>2, RunningIsFinite, FS_AddElement
    <2> QED BY <1>1, <1>2, <2>1
<1>3. CASE step = "none" /\ j \in Running
    <2>1. Cardinality(Running \ {j}) = Cardinality(Running) - 1
        BY <1>3, RunningIsFinite, FS_RemoveElement
    <2> QED BY <1>1, <1>3, <2>1
<1> QED BY <1>1, <1>2, <1>3

LEMMA CapacityInit == Init => CapacityInv
<1> SUFFICES ASSUME Init PROVE CapacityInv
    OBVIOUS
<1>1. Running = {}
    BY DEF Init, NoTasks, Running
<1>2. Cardinality(Running) = 0
    BY <1>1, FS_EmptySet
<1>3. TypeOK
    <2>1. /\ jobs \in [Jobs -> {"absent", "queued", "delayed", "extracting", "done", "failed"}]
          /\ attempts \in [Jobs -> Nat]
          /\ steps \in [Jobs -> {"none", "extract", "embed", "reconcile"}]
          /\ results \in [Outcomes -> Nat]
        BY DEF Init, NoTasks, NoResults
    <2>2. cached \in [Jobs -> BOOLEAN]
        BY DEF Init
    <2>3. capacity \in Nat /\ restarts \in 0 .. MaxRestarts
        BY CapacityAssumption DEF Init
    <2>4. permit \in BOOLEAN /\ degraded \in BOOLEAN /\ lost \in SUBSET Jobs
        BY DEF Init
    <2>5. loop \in {"starting", "claiming", "selecting", "stopped"}
        BY DEF Init
    <2> QED BY <2>1, <2>2, <2>3, <2>4, <2>5 DEF TypeOK
<1>4. InFlight = 0
    BY <1>2 DEF Init, NoResults, InFlight, Outcomes
<1> QED BY <1>1, <1>3, <1>4, CapacityAssumption DEF CapacityInv, TasksOwnTheirJobs, Init

\* The loop is left and everything in the set is dropped.
LEMMA DroppedTasks ==
    ASSUME steps' = NoTasks, results' = NoResults
    PROVE  Running' = {} /\ InFlight' = 0
<1>1. Running' = {}
    BY DEF NoTasks, Running
<1>2. Cardinality(Running') = 0
    BY <1>1, FS_EmptySet
<1> QED BY <1>1, <1>2 DEF NoResults, InFlight, Outcomes

LEMMA StopKeeps ==
    ASSUME CapacityInv, NEW fatal \in BOOLEAN, Stop(fatal)
    PROVE  CapacityInv'
<1>1. TypeOK'
    BY RunningIsFinite
    DEF CapacityInv, TypeOK, Stop, NoTasks, NoResults, Outcomes, queue
<1>2. Running' = {} /\ InFlight' = 0 /\ capacity' = capacity
    BY DroppedTasks DEF Stop
<1> QED BY <1>1, <1>2, CapacityAssumption DEF CapacityInv, TasksOwnTheirJobs

\* A task that ends makes room only once it is joined.
LEMMA EndKeeps ==
    ASSUME CapacityInv, NEW j \in Running, NEW outcome \in Outcomes, End(j, outcome),
           jobs' \in [Jobs -> {"absent", "queued", "delayed", "extracting", "done", "failed"}],
           \A other \in Jobs \ {j} : jobs'[other] = jobs[other],
           UNCHANGED attempts, cached' \in [Jobs -> BOOLEAN], lost' \in SUBSET Jobs
    PROVE  CapacityInv'
<1>0. TypeOK /\ TasksOwnTheirJobs /\ j \in Jobs
    BY RunningIsFinite DEF CapacityInv
<1>1. /\ Running' = Running \ {j}
      /\ Cardinality(Running') = Cardinality(Running) - 1
    BY <1>0, OneTask DEF End
<1>2. TypeOK'
    BY <1>0 DEF TypeOK, End, service, Outcomes
<1>3. InFlight' = InFlight
    <2>1. results' = [results EXCEPT ![outcome] = results[outcome] + 1]
          /\ results \in [Outcomes -> Nat]
        BY <1>0 DEF End, TypeOK
    <2>2. Cardinality(Running) \in Nat
        BY RunningIsFinite
    <2>3. \A o \in Outcomes : results[o] \in Nat
        BY <2>1
    <2>4. results'["ok"] + results'["error"] + results'["rate_limited"] + results'["fatal"]
          = results["ok"] + results["error"] + results["rate_limited"] + results["fatal"] + 1
        BY <2>1, <2>3 DEF Outcomes
    <2> QED BY <1>1, <2>1, <2>2, <2>3, <2>4 DEF InFlight, Outcomes
<1>4. \A k \in Running' : jobs'[k] = "extracting"
    BY <1>0, <1>1, RunningIsFinite DEF TasksOwnTheirJobs
<1>5. capacity' \in 1 .. Maximum /\ InFlight' <= Maximum
    BY <1>0, <1>3 DEF TasksOwnTheirJobs, End
<1> QED BY <1>2, <1>4, <1>5 DEF CapacityInv, TasksOwnTheirJobs

\* A job that is not claimed changes; the tasks do not.
LEMMA JobsKeep ==
    ASSUME CapacityInv,
           jobs' \in [Jobs -> {"absent", "queued", "delayed", "extracting", "done", "failed"}],
           \A j \in Running : jobs'[j] = jobs[j],
           permit' \in BOOLEAN, degraded' \in BOOLEAN,
           UNCHANGED <<attempts, cached, loop, capacity, steps, results, lost, restarts>>
    PROVE  CapacityInv'
<1>1. Running' = Running /\ InFlight' = InFlight
    BY DEF Running, InFlight
<1> QED BY <1>1 DEF CapacityInv, TypeOK, TasksOwnTheirJobs

LEMMA TaskKeeps == ASSUME CapacityInv, NEW j \in Jobs, Process(j) PROVE CapacityInv'
<1>0. TypeOK /\ TasksOwnTheirJobs
    BY DEF CapacityInv
<1>1. j \in Running
    BY <1>0 DEF Process, ProviderAnswers, ProviderFails, CacheIsStale, CompleteEmpty, Embed,
                EmbedFails, Reconcile, ReconcileFails, LoseJob, Running
<1>2. ASSUME NEW outcome \in Outcomes, NEW status \in {"delayed", "failed", "done"},
             jobs' = [jobs EXCEPT ![j] = status], End(j, outcome),
             UNCHANGED <<attempts, cached, lost>>
      PROVE  CapacityInv'
    BY <1>0, <1>1, <1>2, EndKeeps DEF TypeOK
<1>3. ASSUME NEW step \in {"embed", "reconcile"}, Continue(j, step),
             UNCHANGED <<jobs, attempts>>, cached' \in [Jobs -> BOOLEAN]
      PROVE  CapacityInv'
    <2>1. Running' = Running
        BY <1>0, <1>1, <1>3, OneTask DEF Continue
    <2>2. InFlight' = InFlight
        BY <1>3, <2>1 DEF InFlight, Continue
    <2>3. TypeOK'
        BY <1>0, <1>3 DEF TypeOK, Continue, service
    <2> QED BY <1>0, <1>3, <2>1, <2>2, <2>3 DEF CapacityInv, TasksOwnTheirJobs, Continue
<1>4. ASSUME NEW delayed \in BOOLEAN, NEW outcome \in Outcomes, Retry(j, delayed, outcome)
      PROVE  CapacityInv'
    <2>1. PICK status \in {"delayed", "failed"} : jobs' = [jobs EXCEPT ![j] = status]
        BY <1>4 DEF Retry
    <2> QED BY <1>2, <1>4, <2>1 DEF Retry
<1>5. CASE ProviderAnswers(j)
    BY <1>0, <1>3, <1>5 DEF ProviderAnswers, TypeOK
<1>6. CASE ProviderFails(j)
    <2>1. PICK failure \in {"rate_limited", "transport", "invalid_output", "refused"} :
              Retry(j, HasDelay(failure, attempts[j]),
                    IF failure = "rate_limited" THEN "rate_limited" ELSE "error")
        BY <1>6 DEF ProviderFails
    <2> QED BY <1>4, <2>1 DEF Outcomes, HasDelay
<1>7. CASE CacheIsStale(j)
    BY <1>2, <1>7 DEF CacheIsStale, Outcomes
<1>8. CASE CompleteEmpty(j)
    BY <1>2, <1>8 DEF CompleteEmpty, Complete, Outcomes
<1>9. CASE Embed(j)
    BY <1>0, <1>3, <1>9 DEF Embed, queue, TypeOK
<1>10. CASE EmbedFails(j)
    BY <1>4, <1>10 DEF EmbedFails, EmbeddingFailed, Outcomes
<1>11. CASE Reconcile(j)
    BY <1>2, <1>11 DEF Reconcile, Complete, Outcomes
<1>12. CASE ReconcileFails(j)
    BY <1>4, <1>12 DEF ReconcileFails, Outcomes
<1>13. CASE LoseJob(j)
    <2>1. PICK outcome \in {"error", "fatal"} : End(j, outcome)
        BY <1>13 DEF LoseJob
    <2>2. UNCHANGED <<jobs, attempts, cached>> /\ lost' = lost \cup {j}
        BY <1>13 DEF LoseJob, queue
    <2> QED BY <1>0, <1>1, <2>1, <2>2, EndKeeps DEF TypeOK, Outcomes
<1> QED BY <1>5, <1>6, <1>7, <1>8, <1>9, <1>10, <1>11, <1>12, <1>13 DEF Process

LEMMA ClaimKeeps == ASSUME CapacityInv, NEW j \in Jobs, Claim(j) PROVE CapacityInv'
<1>0. TypeOK /\ TasksOwnTheirJobs
    BY DEF CapacityInv
<1>1. j \notin Running
    BY <1>0 DEF Claim, TasksOwnTheirJobs
<1>2. Running' = Running \cup {j} /\ Cardinality(Running') = Cardinality(Running) + 1
    BY <1>0, <1>1, OneTask DEF Claim
<1>3. TypeOK'
    BY <1>0 DEF TypeOK, Claim, service
<1>4. InFlight' = InFlight + 1 /\ InFlight \in Nat
    BY <1>0, <1>2, RunningIsFinite DEF TypeOK, InFlight, Claim, Outcomes
<1>5. InFlight' <= Maximum /\ capacity' = capacity
    BY <1>0, <1>4, CapacityAssumption DEF Claim, HasCapacity, TasksOwnTheirJobs
<1> QED BY <1>0, <1>2, <1>3, <1>5 DEF CapacityInv, TypeOK, TasksOwnTheirJobs, Claim

LEMMA JoinKeeps ==
    ASSUME CapacityInv, NEW outcome \in Outcomes, Join(outcome) PROVE CapacityInv'
<1>0. TypeOK /\ TasksOwnTheirJobs
    BY DEF CapacityInv
<1>1. CASE outcome = "fatal"
    BY <1>1, StopKeeps DEF Join
<1>2. CASE outcome # "fatal"
    <2>1. /\ results' = [results EXCEPT ![outcome] = results[outcome] - 1]
          /\ results[outcome] > 0
          /\ capacity' = IF outcome = "rate_limited" THEN Halved ELSE capacity
          /\ loop' = "starting"
          /\ UNCHANGED <<jobs, attempts, cached, permit, steps, lost, degraded, restarts>>
        BY <1>2 DEF Join, queue, service
    <2>2. Halved \in 1 .. Maximum
        BY <1>0, CapacityAssumption DEF Halved, TasksOwnTheirJobs
    <2>3. results \in [Outcomes -> Nat] /\ Cardinality(Running) \in Nat
        BY <1>0, RunningIsFinite DEF TypeOK
    <2>4. \A o \in Outcomes : results[o] \in Nat /\ results'[o] \in Nat
        BY <2>1, <2>3
    <2>5. Running' = Running
        BY <2>1 DEF Running
    <2>6. results'["ok"] + results'["error"] + results'["rate_limited"] + results'["fatal"]
          = results["ok"] + results["error"] + results["rate_limited"] + results["fatal"] - 1
        BY <2>1, <2>3, <2>4 DEF Outcomes
    <2>7. InFlight' <= InFlight /\ InFlight' \in Nat /\ InFlight \in Nat
        BY <2>3, <2>4, <2>5, <2>6 DEF InFlight, Outcomes
    <2>8. InFlight' <= Maximum
        BY <1>0, <2>7, CapacityAssumption DEF TasksOwnTheirJobs
    <2>9. TypeOK'
        BY <1>0, <2>1, <2>2, <2>4, CapacityAssumption DEF TypeOK
    <2> QED BY <1>0, <2>1, <2>2, <2>5, <2>8, <2>9 DEF CapacityInv, TasksOwnTheirJobs
<1> QED BY <1>1, <1>2

LEMMA CapacityStep == CapacityInv /\ [Next]_vars => CapacityInv'
<1> SUFFICES ASSUME CapacityInv, [Next]_vars PROVE CapacityInv'
    OBVIOUS
<1>0. TypeOK /\ TasksOwnTheirJobs
    BY DEF CapacityInv
<1>1. CASE \E j \in Jobs : Publish(j)
    BY <1>0, <1>1, JobsKeep DEF Publish, TypeOK, TasksOwnTheirJobs, Running, service
<1>2. CASE \E j \in Jobs : Due(j)
    BY <1>0, <1>2, JobsKeep DEF Due, TypeOK, TasksOwnTheirJobs, Running, service
<1>3. CASE \E j \in Jobs : Process(j)
    BY <1>3, TaskKeeps
<1>4. ASSUME loop' \in {"starting", "claiming", "selecting"}, permit' \in BOOLEAN,
             capacity' \in 1 .. Maximum, UNCHANGED <<queue, steps, results, lost, service>>
      PROVE  CapacityInv'
    <2>1. Running' = Running /\ InFlight' = InFlight
        BY <1>4 DEF Running, InFlight
    <2>2. TypeOK'
        BY <1>0, <1>4, CapacityAssumption DEF TypeOK, queue, service
    <2> QED BY <1>0, <1>4, <2>1, <2>2 DEF CapacityInv, TasksOwnTheirJobs, queue
<1>5. CASE Start
    BY <1>0, <1>4, <1>5 DEF Start, TypeOK, TasksOwnTheirJobs
<1>6. CASE StopDegraded
    BY <1>6, StopKeeps DEF StopDegraded
<1>7. CASE \E j \in Jobs : Claim(j)
    BY <1>7, ClaimKeeps
<1>8. CASE FoundNothing
    BY <1>0, <1>4, <1>8 DEF FoundNothing, TypeOK, TasksOwnTheirJobs
<1>9. CASE ClaimFails
    BY <1>0, <1>4, <1>9, StopKeeps DEF ClaimFails, TypeOK, TasksOwnTheirJobs
<1>10. CASE \E outcome \in Outcomes : Join(outcome)
    BY <1>10, JoinKeeps
<1>11. CASE WakeByPermit
    BY <1>0, <1>4, <1>11 DEF WakeByPermit, TypeOK, TasksOwnTheirJobs
<1>12. CASE WakeByRescan
    <2>1. Restored \in 1 .. Maximum
        BY <1>0, CapacityAssumption DEF Restored, TasksOwnTheirJobs
    <2> QED BY <1>0, <1>4, <1>12, <2>1 DEF WakeByRescan, TypeOK
<1>13. CASE Degrade
    BY <1>0, <1>13, JobsKeep DEF Degrade, TypeOK, queue
<1>14. CASE Restart
    <2>1. Running' = {} /\ InFlight' = 0 /\ capacity' = Maximum
        BY <1>14, DroppedTasks DEF Restart
    <2>2. TypeOK'
        <3>1. /\ jobs' \in [Jobs -> {"absent", "queued", "delayed", "extracting", "done",
                                     "failed"}]
              /\ steps' \in [Jobs -> {"none", "extract", "embed", "reconcile"}]
              /\ results' \in [Outcomes -> Nat]
            BY <1>0, <1>14 DEF Restart, TypeOK, NoTasks, NoResults
        <3>2. restarts' \in 0 .. MaxRestarts
            BY <1>0, <1>14, CapacityAssumption DEF Restart, TypeOK
        <3> QED BY <1>0, <1>14, <3>1, <3>2, CapacityAssumption DEF Restart, TypeOK
    <2> QED BY <2>1, <2>2, CapacityAssumption DEF CapacityInv, TasksOwnTheirJobs
<1>15. CASE UNCHANGED vars
    BY <1>0, <1>15, JobsKeep DEF vars, queue, service, TypeOK
<1> QED BY <1>1, <1>2, <1>3, <1>5, <1>6, <1>7, <1>8, <1>9, <1>10, <1>11, <1>12, <1>13,
           <1>14, <1>15 DEF Next, Loop

\* However rate limits, ticks, joins and restarts are interleaved, the loop runs
\* at most the configured number of extractions, counts those not joined yet, can
\* always run one, and every one of them works on a job nobody took from it.
THEOREM CapacityIsKept == Spec => []TasksOwnTheirJobs
<1>1. CapacityInv => TasksOwnTheirJobs
    BY DEF CapacityInv
<1> QED BY <1>1, CapacityInit, CapacityStep, PTL DEF Spec
================================================================================
