SPECIFICATION LoopSpec
CONSTANTS
    MaxItems = 3
    MaxPaddedTokens = 8
    TokenCounts = {1, 2, 3, 5, 9}
    MaxTexts = 6
    Limit = 6
    Overlap = 3
    ShortChunk = 3
INVARIANTS
    RequestsFit
    CutsAreNeeded
    ChunksFit
    ChunksCoverTheText
CHECK_DEADLOCK FALSE
