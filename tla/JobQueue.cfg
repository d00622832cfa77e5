SPECIFICATION Spec
CONSTANTS
    Contents = {a, b, blank}
    BlankContents = {blank}
    CustomIds = {k}
    NoId = NoId
    NoContent = NoContent
    Modes <- AllModes
    MaxAttempts = 2
    TasksAbort = TRUE
    MaxDocuments = 1
    MaxRevision = 3
    MaxRestarts = 2
INVARIANTS
    NoDoubleClaim
    RetryBudget
    ActiveJobIsCurrent
    StatusMatchesActiveJob
    DoneMeansFresh
    CachedExtractionIsFresh
PROPERTIES
    PublishesCurrentContent
    SettledUntilResubmitted
    NoCallForgetsItsJob
    ImplementsLifecycle
CHECK_DEADLOCK FALSE
