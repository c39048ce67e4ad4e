CONSTANTS
    Handlers = {h1}
    Instances = {i1}
    Queries = {q1}
    Contents = {}
    Edits = {e1, e2}
    Empties = {{e1}}
    Watch = TRUE
    Rebuilds = TRUE
    Indexers = TRUE
    Reloads = TRUE
    MaxFailures = 0
    CacheSize = 1
    Processor = Processor
    Cli = Cli
    None = None
    Reload = Reload
SPECIFICATION FairSpec
PROPERTIES Answered PendingIsServed
