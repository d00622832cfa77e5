SPECIFICATION Spec
CONSTANTS
    Jobs = {a, b}
    Concurrency = 2
    Failures = {"failed", "unfinished", "fatal"}
    ClientsLeave = FALSE
    StorageFails = FALSE
    Rescans = TRUE
    MaxRestarts = 1
PROPERTIES
    FatalDegradationIsSticky
