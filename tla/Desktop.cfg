SPECIFICATION Spec
CONSTANTS
    RebindCapacity = 1
    ControlCapacity = 1
    None = None
    Cli = {cli}
    Sessions = 2
    Presses = 3
    MaxTime = 4
    Debounce = 1
    Cooldown = 2
    Bounds <- MCBounds
INVARIANTS
    KeyHonest
PROPERTIES
    ToggleDoesAsked
    KeyAnswered
CHECK_DEADLOCK FALSE
