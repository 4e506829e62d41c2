SPECIFICATION Spec
CONSTANTS
    MaxStops = 2
    MaxMsgs = 3
    MaxPushes = 3
    MaxPcm = 1
    MaxWarnings = 1
    MaxSamples = 6
INVARIANTS
    TypeOK
    OkNeedsPipelineVerdict
    PcmAllOrNothing
PROPERTIES
    VerdictFrozenAfterJoin
    ForeignFileKept
    StopCompletes
