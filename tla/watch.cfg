CONSTANTS
    Paths = {p1, p2}
    Initial = {p1}
    Removable = {p2}
    MaxEdits = 5
    RebuildPercent = 100
    Indexers = TRUE
SPECIFICATION FairSpec
INVARIANTS Recall Exact
PROPERTY ServedInTheEnd
CHECK_DEADLOCK FALSE
