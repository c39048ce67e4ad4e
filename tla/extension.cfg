CONSTANTS
    Sockets = {s1, s2}
    NoId = NoId
    Refused = Refused
    Shutdown = Shutdown
    None = None
    MaxPipelined = 1
    MaxTimeouts = 1
    MaxRequests = 2
    Restarts = TRUE
    Disposes = TRUE
SPECIFICATION FairSpec
INVARIANTS OwnAnswer QueueIsPending KeepsTrying
PROPERTY RequestsSettle
CHECK_DEADLOCK FALSE
