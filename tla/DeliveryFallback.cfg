SPECIFICATION Spec
CONSTANTS
    Kinds <- MCKinds
    Jobs = 2
    Consumers = {1, 2}
    TYPE_MAX_BYTES = 1
    CLIPBOARD_MAX_BYTES = 2
    MaxFaults = 1
INVARIANT DetachedNeverInjected
CHECK_DEADLOCK FALSE
