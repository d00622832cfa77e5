---------------------- MODULE IndexingCoordinatorProofs ----------------------
(***************************************************************************)
(* For every set of jobs and every concurrency: a round of the indexing    *)
(* coordinator holds claimed jobs only, and never too many.                *)
(***************************************************************************)
EXTENDS IndexingCoordinator, FiniteSetTheorems, TLAPS

Running == {j \in Jobs : tasks[j] = "running"}

\* A round claims, then joins, and holds nothing in between rounds.
IInv ==
    /\ TypeOK
    /\ IsFiniteSet(Held)
    /\ HeldJobsAreClaimed
    /\ loop # "claiming" => cohort = {}
    /\ loop # "joining" => tasks = NoTasks

\* The invariant holds initially.
LEMMA InitIInv == Init => IInv
<1> SUFFICES ASSUME Init
             PROVE  IInv
    OBVIOUS
<1>1. TypeOK
  <2>1. tasks \in [Jobs -> {"none", "running", "ok", "error", "fatal"}]
        BY DEF Init, NoTasks
  <2>2. jobs \in [Jobs -> {"absent", "queued", "claimed", "settled"}]
        BY DEF Init
  <2>3. restarts \in 0 .. MaxRestarts
        BY CoordinatorAssumption DEF Init
  <2> QED
    BY <2>1, <2>2, <2>3 DEF Init, TypeOK
<1>2. Held = {}
      BY DEF Init, Held, NoTasks
<1> QED
  BY <1>1, <1>2, FS_EmptySet, CoordinatorAssumption
  DEF IInv, HeldJobsAreClaimed, Init

\* What is held shrinks: claims and tasks that go leave the rest as it was.
LEMMA HeldShrinks ==
    ASSUME IInv, TypeOK', Held' \subseteq Held,
           \A j \in Held' : jobs'[j] = jobs[j]
    PROVE  IsFiniteSet(Held)' /\ HeldJobsAreClaimed'
<1>1. IsFiniteSet(Held) /\ Cardinality(Held) <= Concurrency
      BY DEF IInv, HeldJobsAreClaimed
<1>2. IsFiniteSet(Held') /\ Cardinality(Held') <= Cardinality(Held)
      BY <1>1, FS_Subset
<1>3. Cardinality(Held') \in Nat /\ Cardinality(Held) \in Nat
      BY <1>1, <1>2, FS_CardinalityType
<1> QED
  BY <1>1, <1>2, <1>3, CoordinatorAssumption DEF IInv, HeldJobsAreClaimed

\* The type invariant is kept by every step.
LEMMA TypeStep ==
    ASSUME TypeOK, Next
    PROVE  TypeOK'
<1> USE CoordinatorAssumption
<1> USE DEF TypeOK, NoTasks
<1>1. CASE \E j \in Jobs : Upload(j) \/ NotifyDocuments(j) \/ ClientLeaves(j)
      BY <1>1 DEF Upload, NotifyDocuments, ClientLeaves, Notified
<1>2. CASE \E j \in Jobs : Claim(j)
      BY <1>2 DEF Claim
<1>3. CASE \E j \in Jobs : Join(j)
      BY <1>3 DEF Join, EndRound
<1>4. CASE Start \/ Spawn \/ FoundNothing \/ Wait \/ RoundEnds \/ WakeByPermit \/ WakeByRescan
  <2>1. CASE Spawn
    <3>1. tasks' \in [Jobs -> {"none", "running", "ok", "error", "fatal"}]
          BY <2>1 DEF Spawn
    <3> QED
      BY <2>1, <3>1 DEF Spawn
  <2>2. CASE Start \/ FoundNothing \/ Wait \/ RoundEnds \/ WakeByPermit \/ WakeByRescan
        BY <2>2 DEF Start, FoundNothing, Wait, RoundEnds, WakeByPermit, WakeByRescan
  <2> QED
    BY <1>4, <2>1, <2>2
<1>5. CASE ClaimFails
      BY <1>5 DEF ClaimFails, EndRound
<1>6. CASE \E j \in Jobs : Process(j)
      BY <1>6 DEF Process, ProcessSucceeds, ProcessFails
<1>7. CASE RequestFails \/ HealthProbe
      BY <1>7 DEF RequestFails, HealthProbe
<1>8. CASE Restart
  <2>1. jobs' \in [Jobs -> {"absent", "queued", "claimed", "settled"}]
        BY <1>8 DEF Restart, Recovered
  <2>2. tasks' \in [Jobs -> {"none", "running", "ok", "error", "fatal"}]
        BY <1>8 DEF Restart
  <2>3. restarts' \in 0 .. MaxRestarts
        BY <1>8 DEF Restart
  <2> QED
    BY <1>8, <2>1, <2>2, <2>3 DEF Restart
<1> QED
  BY <1>1, <1>2, <1>3, <1>4, <1>5, <1>6, <1>7, <1>8 DEF Next, Loop

\* A claim adds one job to a cohort that is not full.
LEMMA ClaimIInv ==
    ASSUME IInv, NEW j \in Jobs, Claim(j), TypeOK'
    PROVE  IInv'
<1>1. /\ Running = {} /\ Held = cohort
      /\ Running' = {} /\ Held' = cohort \cup {j}
      BY DEF IInv, Claim, Held, Running, NoTasks
<1>2. /\ IsFiniteSet(cohort) /\ Cardinality(cohort) < Concurrency
      /\ \A i \in cohort : jobs[i] = "claimed"
      BY <1>1 DEF IInv, HeldJobsAreClaimed, Claim
<1>3. /\ IsFiniteSet(cohort \cup {j})
      /\ \/ Cardinality(cohort \cup {j}) = Cardinality(cohort)
         \/ Cardinality(cohort \cup {j}) = Cardinality(cohort) + 1
      BY <1>2, FS_AddElement
<1>4. Cardinality(cohort \cup {j}) <= Concurrency
  <2>1. Cardinality(cohort) \in Nat
        BY <1>2, FS_CardinalityType
  <2> QED
    BY <1>2, <1>3, <2>1, CoordinatorAssumption
<1>5. \A i \in Held' : jobs'[i] = "claimed"
      BY <1>1, <1>2 DEF Claim, IInv, TypeOK
<1>6. loop' = "claiming" /\ tasks' = NoTasks
      BY DEF Claim, IInv
<1> QED
  BY <1>1, <1>3, <1>4, <1>5, <1>6 DEF IInv, HeldJobsAreClaimed

\* Every step keeps the invariant.
LEMMA NextIInv ==
    ASSUME IInv, Next
    PROVE  IInv'
<1>0. TypeOK /\ TypeOK'
      BY TypeStep DEF IInv
<1>h. ASSUME Held' \subseteq Held, \A j \in Held' : jobs'[j] = jobs[j],
             loop' # "claiming" => cohort' = {},
             loop' # "joining" => tasks' = NoTasks
      PROVE  IInv'
      BY <1>0, <1>h, HeldShrinks DEF IInv
<1>1. CASE \E j \in Jobs : Upload(j)
  <2>1. PICK j \in Jobs : Upload(j)
        BY <1>1
  <2>2. j \notin Held
        BY <2>1 DEF Upload, Enqueueable, IInv, HeldJobsAreClaimed
  <2> QED
    BY <1>0, <1>h, <2>1, <2>2 DEF Upload, Held, IInv, TypeOK
<1>2. CASE \E j \in Jobs : NotifyDocuments(j) \/ ClientLeaves(j)
      BY <1>h, <1>2 DEF NotifyDocuments, ClientLeaves, Held, IInv
<1>3. CASE \E j \in Jobs : Claim(j)
      BY <1>0, <1>3, ClaimIInv
<1>4. CASE \E j \in Jobs : Join(j)
  <2>1. PICK j \in Jobs : Join(j)
        BY <1>4
  <2>2. CASE tasks[j] = "ok"
        BY <1>0, <1>h, <2>1, <2>2 DEF Join, Held, IInv, TypeOK
  <2>3. CASE tasks[j] # "ok"
        BY <1>0, <1>h, <2>1, <2>3 DEF Join, EndRound, Held, IInv, TypeOK, NoTasks
  <2> QED
    BY <2>2, <2>3
<1>5. CASE Spawn
      BY <1>0, <1>h, <1>5 DEF Spawn, Held, IInv, TypeOK
<1>6. CASE Start \/ FoundNothing \/ Wait \/ RoundEnds \/ WakeByPermit \/ WakeByRescan
      BY <1>h, <1>6 DEF Start, FoundNothing, Wait, RoundEnds, WakeByPermit, WakeByRescan,
                        Held, IInv
<1>7. CASE ClaimFails
      BY <1>h, <1>7 DEF ClaimFails, EndRound, Held, IInv, NoTasks
<1>8. CASE \E j \in Jobs : Process(j)
  <2>1. PICK j \in Jobs : Process(j)
        BY <1>8
  <2>2. tasks[j] = "running" /\ tasks'[j] # "running" /\ cohort' = cohort
        BY <1>0, <2>1 DEF Process, ProcessSucceeds, ProcessFails, TypeOK
  <2>3. loop = "joining" /\ loop' = loop /\ cohort = {}
        BY <2>1, <2>2 DEF Process, ProcessSucceeds, ProcessFails, IInv, NoTasks
  <2>4. \A i \in Jobs \ {j} : jobs'[i] = jobs[i] /\ tasks'[i] = tasks[i]
        BY <1>0, <2>1 DEF Process, ProcessSucceeds, ProcessFails, TypeOK
  <2> QED
    BY <1>h, <2>2, <2>3, <2>4 DEF Held
<1>9. CASE RequestFails \/ HealthProbe
      BY <1>h, <1>9 DEF RequestFails, HealthProbe, Held, IInv
<1>10. CASE Restart
      BY <1>h, <1>10 DEF Restart, Held, NoTasks
<1> QED
  BY <1>1, <1>2, <1>3, <1>4, <1>5, <1>6, <1>7, <1>8, <1>9, <1>10 DEF Next, Loop

\* Rounds hold claimed jobs only, and at most Concurrency of them.
THEOREM RoundsHoldClaimedJobs == Spec => []HeldJobsAreClaimed
<1>1. IInv /\ UNCHANGED vars => IInv'
      BY DEF IInv, vars, TypeOK, Held, HeldJobsAreClaimed, NoTasks
<1>2. IInv /\ [Next]_vars => IInv'
      BY <1>1, NextIInv
<1>3. IInv => HeldJobsAreClaimed
      BY DEF IInv
<1> QED
  BY <1>2, <1>3, InitIInv, PTL DEF Spec
=============================================================================
