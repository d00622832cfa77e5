SPECIFICATION FairSpec
CONSTANTS
    search = search
    search2 = search2
    document = document
    document2 = document2
    memory = memory
    Callers = {search, document, document2}
    Priority <- Priorities
    Nobody = Nobody
    Jobs <- LargeJobs
    MaxItems = 4
    MaxPaddedTokens = 8
    QueueCapacity = 2
    QueryBurst = 4
    MayCancel = FALSE
PROPERTIES
    QueriesAreAnswered
