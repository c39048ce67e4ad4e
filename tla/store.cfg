CONSTANTS
    Paths = {p1,p2,p3}
    NoFile = NoFile
    MaxEdits = 3
    ChunkSize = 2
    RebuildPercent = 70
    CompactPercent = 50
    MergeThreshold = 2
    MaxInterrupts = 2
    Daemon = TRUE
SPECIFICATION Spec
SYMMETRY Symmetry
INVARIANTS Exact LiveDocsSearchable Recall PartialBuildUnreadable OneDocPerPath CountsMatch
PROPERTY DocsOnlyGrow
