SPECIFICATION FairSpec
CONSTANTS
    Jobs = {a, b, c}
    Concurrency = 2
    Failures = {"failed", "unfinished", "fatal"}
    ClientsLeave = TRUE
    StorageFails = TRUE
    Rescans = TRUE
    MaxRestarts = 1
INVARIANTS
    HeldJobsAreClaimed
PROPERTIES
    QueuedJobIsClaimed
