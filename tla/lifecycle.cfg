SPECIFICATION FairSpec
CONSTANTS
    Pids = {p1, p2, p3}
    None = None
    MaxKills = 2
    MaxReuse = 2
INVARIANTS
    OneDaemon
PROPERTIES
    NothingLostByExit
    StopStops
    StartServes
