SPECIFICATION Spec
CONSTANTS
    Paths <- ThePaths
    Contents <- TheContents
    Trees <- TheTrees
    Names <- TheNames
    Requests <- TheRequests
    NoRequest = NoRequest
    LimitOf <- MaxResults
    Unconditional <- IndexOnly
    Yields <- MatchesOf
    NamedBy <- NameMatchesTerms
    Allows <- FieldsHold
    MeantAt <- MeansLine
    Wanted <- MeansSomeLine
    Promised <- IndexPromises
    Precise <- IsPrecise
    Exhaustive <- IsExhaustive
    ChunkSize = 2
    StopCap = 2
    MaxEdits = 1
    MaxMerges = 1
    ParallelOver = 2
    MaxAsks = 1
INVARIANTS
    NarrowingComplete
    NothingMissed
    NothingForeign
    LimitMet
PROPERTY
    ImplementsSearch
CHECK_DEADLOCK FALSE
