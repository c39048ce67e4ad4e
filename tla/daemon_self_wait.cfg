CONSTANTS
    Handlers = {h1}
    Instances = {i1}
    Queries = {q1}
    Contents = {}
    Edits = {e1}
    Empties = {}
    Watch = TRUE
    Rebuilds = FALSE
    Indexers = FALSE
    Reloads = FALSE
    MaxFailures = 1
    CacheSize = 1
    Processor = Processor
    Cli = Cli
    None = None
    Reload = Reload
SPECIFICATION Spec
INVARIANT RunsUnderCallersLock
