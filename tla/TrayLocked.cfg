SPECIFICATION Spec
CONSTANTS
    None = None
    CmdCapacity = 1
    SinkCapacity = 1
    Bounds <- MCBounds
INVARIANT LockReleased
CHECK_DEADLOCK FALSE
