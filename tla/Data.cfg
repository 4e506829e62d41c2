SPECIFICATION Spec
CONSTANTS
    Writers = {w1, w2}
    Absent = Absent
    Partial = Partial
    Broken = Broken
    MaxEdits = 1
    MaxCrashes = 1
    Mics = {"m1", "m2"}
    Sinks = {"s1"}
    NoNode = NoNode
    MaxId = 3
    Moves = 3
    Keys = {k1, k2}
    Inodes = {i1, i2}
    i1 = i1
    None = None
    Edits = 1
INVARIANTS
    StoreAgrees
    DevicesMatch
    KeysMatch
PROPERTIES
    ProfilesKept
CHECK_DEADLOCK FALSE
