CONSTANTS
    Handlers = {h1, h2}
    Instances = {i1, i2}
    Queries = {q1}
    Contents = {}
    Edits = {e1}
    Empties = {{e1}}
    Watch = TRUE
    Rebuilds = TRUE
    Indexers = FALSE
    Reloads = TRUE
    MaxFailures = 1
    CacheSize = 1
    Processor = Processor
    Cli = Cli
    None = None
    Reload = Reload
SPECIFICATION Spec
SYMMETRY Symmetry
INVARIANTS CacheNeverAhead ServedIsOnDisk
PROPERTY ReaderMonotone
CHECK_DEADLOCK FALSE
