CONSTANTS
    Paths = {p1,p2}
    NoFile = NoFile
    MaxEdits = 4
    ChunkSize = 2
    RebuildPercent = 100
    CompactPercent = 50
    MergeThreshold = 2
    MaxInterrupts = 0
    Daemon = FALSE
SPECIFICATION ReadersSpec
SYMMETRY Symmetry
VIEW View
CHECK_DEADLOCK FALSE
INVARIANTS
    RacedViewSound
    OpenSucceeds
