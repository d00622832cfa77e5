SPECIFICATION FairSpec
CONSTANTS
    search_task = search_task
    context_task = context_task
    d = d
    e = e
    x = x
    y = y
    Clients = {search_task, context_task}
    Connections = 1
    MaxPanics = 2
    MaxAbandoned = 1
    Searcher = search_task
    Documents = {d, e}
    Initially <- TwoDocuments
    Texts = {x, y}
    Memories = {1}
    Bytes <- TextBytes
    Budget = 6
    CandidateLimit = 2
    EvidenceUnit = 3782
    Requests <- SmallRequests
    MaxChunks = 1
    MaxPublications = 1
INVARIANTS
    ReadsSpareTheWriter
    QuotesWhatWasRanked
    BestEvidenceFirst
PROPERTIES
    EverySearchEnds
CHECK_DEADLOCK FALSE
