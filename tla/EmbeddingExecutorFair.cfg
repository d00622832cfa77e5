SPECIFICATION FairSpec
CONSTANTS
    search = search
    search2 = search2
    document = document
    document2 = document2
    memory = memory
    Callers = {search, search2, document, memory}
    Priority <- Priorities
    Nobody = Nobody
    Jobs <- SmallJobs
    MaxItems = 4
    MaxPaddedTokens = 8
    QueueCapacity = 2
    QueryBurst = 4
    MayCancel = FALSE
PROPERTIES
    QueriesAreAnswered
    BulkIsAnswered
