SPECIFICATION FairSpec
CONSTANTS
    Chunks = 4
    PerChunk = 2
    Capacity = 2
    Parts = {"grams", "tokens", "lines", "bloom"}
    Unflushed = {"grams", "tokens", "lines"}
INVARIANTS
    ProgressIsTold
    StopGramsCountAll
PROPERTIES
    MeetsContract
    BuildEnds
CHECK_DEADLOCK FALSE
