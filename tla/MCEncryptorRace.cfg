CONSTANTS
    RustThread = {1, 2}
    FfiThread = {1, 2}
    Leaf = {1}
    MaxCtr = 1
    EpochMod = 2
    Tolerance = 1
    MaxSessions = 2
    MaxCells = 2
    MaxWire = 3
    MaxMlsEpoch = 3
SPECIFICATION KeysSpec
INVARIANT
    CounterUsedOnce
CHECK_DEADLOCK FALSE
