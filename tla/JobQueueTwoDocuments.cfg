SPECIFICATION Spec
CONSTANTS
    Contents = {a}
    BlankContents = {}
    CustomIds = {k}
    NoId = NoId
    NoContent = NoContent
    Modes <- MemoryModes
    MaxAttempts = 4
    TasksAbort = TRUE
    MaxDocuments = 2
    MaxRevision = 1
    MaxRestarts = 2
INVARIANTS
    NoDoubleClaim
    RetryBudget
CHECK_DEADLOCK FALSE
