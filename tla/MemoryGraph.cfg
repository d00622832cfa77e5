SPECIFICATION Spec
CONSTANTS
    tea = tea
    Tea = Tea
    cup = cup
    dots = dots
    Docs = {d, e}
    NoDoc = NoDoc
    NoMemory = NoMemory
    Contents = {tea, Tea, cup, dots}
    Facts <- ThreeFacts
    Normal <- Wording
    Wordless <- NoWords
    Permanent = {tea}
    Temporary = {cup}
    ForgetBy = {"id", "content"}
    MaxParents = 1
    RowLimit = 2
    ProfileLimit = 1
    MaxMemories = 3
SYMMETRY DocSymmetry
INVARIANTS
    OneMemoryPerFact
    SearchAndProfileAgree
    NothingVanishes
    LineageIsSound
    AnswersAreKept
CHECK_DEADLOCK FALSE
