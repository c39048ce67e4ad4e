CONSTANTS
    Socket = s1
    Sockets = {s1}
    NoId = NoId
    Refused = Refused
    Shutdown = Shutdown
    None = None
    Reload = Reload
    Queries = {q1, q2}
    MaxPipelined = 1
    MaxTimeouts = 1
    MaxKeys = 2
SPECIFICATION FairSpec
INVARIANTS AwaitedCacheIsOwn CacheIsFresh
PROPERTIES ShownIsAsked SearchSettles
