SPECIFICATION FairSpec
CONSTANTS
    Contents = {a, b, blank}
    BlankContents = {blank}
    CustomIds = {k}
    NoId = NoId
    NoContent = NoContent
    Modes <- AllModes
    MaxAttempts = 2
    TasksAbort = FALSE
    MaxDocuments = 1
    MaxRevision = 2
    MaxRestarts = 2
PROPERTIES
    EverySubmissionSettles
CHECK_DEADLOCK FALSE
