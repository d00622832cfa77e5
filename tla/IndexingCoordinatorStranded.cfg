SPECIFICATION FairSpec
CONSTANTS
    Jobs = {a, b}
    Concurrency = 2
    Failures = {"failed"}
    ClientsLeave = FALSE
    StorageFails = FALSE
    Rescans = TRUE
    MaxRestarts = 0
PROPERTIES
    ClaimedJobResumes
