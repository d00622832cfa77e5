SPECIFICATION Spec
CONSTANTS
    Contents = {a, b, blank}
    BlankContents = {blank}
    CustomIds = {k}
    NoId = NoId
    NoContent = NoContent
    Modes <- MemoryModes
    MaxAttempts = 2
    TasksAbort = TRUE
    MaxDocuments = 1
    MaxRevision = 2
    MaxRestarts = 0
PROPERTIES
    FollowsDeclaredLifecycle
CHECK_DEADLOCK FALSE
