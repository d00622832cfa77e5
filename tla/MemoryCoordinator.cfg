SPECIFICATION FairSpec
CONSTANTS
    Jobs = {a, b}
    Maximum = 2
    MaxAttempts = 2
    MaxRestarts = 1
INVARIANTS
    TasksOwnTheirJobs
PROPERTIES
    QueuedJobIsClaimed
    CapacityReturns
    ClaimedJobIsSettled
CHECK_DEADLOCK FALSE
