SPECIFICATION FairSpec
CONSTANTS
    Jobs = {a, b, c}
    Concurrency = 2
    Failures = {}
    ClientsLeave = FALSE
    StorageFails = FALSE
    Rescans = FALSE
    MaxRestarts = 1
\* Without the interval the coordinator may be left waiting for a client for good.
CHECK_DEADLOCK FALSE
PROPERTIES
    QueuedJobIsClaimed
