SPECIFICATION Spec
CONSTANTS
    Session = {s1, s2}
    NoSession = NoSession
    SignalLimit = 3
    IoMayFail = TRUE
INVARIANTS
    TypeOK
    SlotOwnership
    HookDrivesOwner
    AckedStopDelivered
    SignalProtocol
    ShutdownKeepsSessions
CHECK_DEADLOCK FALSE
SYMMETRY Symmetry
