SPECIFICATION Spec
CONSTANTS
    Session = {s1, s2}
    NoSession = NoSession
    SignalLimit = 0
    IoMayFail = FALSE
INVARIANT FailureAsDocumented
CHECK_DEADLOCK FALSE
