SPECIFICATION Spec
CONSTANTS
    search = search
    search2 = search2
    document = document
    document2 = document2
    memory = memory
    Callers = {search, document, memory}
    Priority <- Priorities
    Nobody = Nobody
    Jobs <- MixedJobs
    MaxItems = 4
    MaxPaddedTokens = 8
    QueueCapacity = 2
    QueryBurst = 2
    MayCancel = TRUE
INVARIANTS
    TypeOK
    ClassesStayApart
