SPECIFICATION Spec
CONSTANTS
    Session = {s1, s2}
    NoSession = NoSession
    IoMayFail = FALSE
    MaxCrashes = 2
    ChannelDepth = 2
    HistoryDepth = 1
    PersistMayFail = FALSE
    Orphans = {s1}
    IndexListsOrphans = FALSE
    Concurrency = 1
    MaxCancels = 2
INVARIANTS
    OrphansEndOnce
    OutcomesRecorded
PROPERTIES
    HistoryKept
    DaemonServes
CHECK_DEADLOCK FALSE
