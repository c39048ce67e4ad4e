SPECIFICATION Spec
CONSTANTS
    Payload = 2
    Width = 3
    Terms <- TheTerms
    Sources <- TheSources
    ChunkSize = 2
    H1 <- TheH1
    H2 <- TheH2
    Hashes = 2
    WordBits = 4
    BloomWords = 2
    Queries <- TheQueries
INVARIANTS
    LookupExact
    CutIsLocal
CHECK_DEADLOCK FALSE
