SPECIFICATION Spec
CONSTANTS
    Session = {s1, s2}
    NoSession = NoSession
    SignalLimit = 2
    IoMayFail = TRUE
PROPERTIES
    SingleRecorderSpec
    StateFilesSpec
    StopLeadsToTerminal
    StartReturns
    TerminateLeadsToExit
CHECK_DEADLOCK FALSE
