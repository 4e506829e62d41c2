SPECIFICATION Spec
CONSTANTS
    Sessions = 2
    Crashes = 1
    Faults = 1
    LateAttach = TRUE
    Jobs = 2
    Consumers = 2
    TYPE_MAX_BYTES = 1
    CLIPBOARD_MAX_BYTES = 2
    MaxFaults = 1
    Kinds <- MCKinds
INVARIANTS
    ClientsTell
    DeliveryGuarded
PROPERTIES
    ClientsReturn
CHECK_DEADLOCK FALSE
