SPECIFICATION Spec
CONSTANTS
    tea = tea
    Tea = Tea
    cup = cup
    dots = dots
    Docs = {d}
    NoDoc = NoDoc
    NoMemory = NoMemory
    Contents = {tea, Tea, cup}
    Facts <- ThreeFacts
    Normal <- Wording
    Wordless <- NoWords
    Permanent = {tea}
    Temporary = {}
    ForgetBy = {"content"}
    MaxParents = 1
    RowLimit = 2
    ProfileLimit = 1
    MaxMemories = 3
PROPERTIES
    ForgettingRemovesFromProfile
CHECK_DEADLOCK FALSE
