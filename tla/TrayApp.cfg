SPECIFICATION Spec
CONSTANTS
    None = None
    CmdCapacity = 1
    SinkCapacity = 1
    Nobody = Nobody
    HostMoves = 1
    Procs = {p1, p2}
    Followed = {p1}
    Bounds <- MCBounds
INVARIANTS
    ShowsDaemon
    ActsOnce
PROPERTIES
    FollowsDaemon
    TrayEnds
CHECK_DEADLOCK FALSE
