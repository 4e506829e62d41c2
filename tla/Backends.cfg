SPECIFICATION Spec
CONSTANTS
    Runs = 2
    MaxRetries = 2
    Budget = 5
    ClientTimeout = 3
    RetryAfters = {0, 1, 9}
    RetryAfterMax = 4
    BackoffCap = 3
    Size = 2
    Tasks = 4
    MaxFaults = 2
    MaxShared = 2
    MaxEntries = 3
    MaxUnpacked = 3
    BundleFaults = 3
    Loudness <- MCLoudness
    StartVolumes <- MCStarts
    Low <- MCLow
    Goal <- MCGoal
    Bottom <- MCBottom
    Tolerance = 1
    MaxIterations = 3
    Files <- MCFiles
    Archives <- MCArchives
    Absent = Absent
    Varies = Varies
    Unread = Unread
    Zero = Zero
    Least = Zero
    Muted = Muted
INVARIANTS
    TranscriptionHolds
    ModelsHold
    LevelsHold
PROPERTIES
    StepsKeep
    BackendsEnd
CHECK_DEADLOCK FALSE
