CONSTANTS
    Key = {1, 2}
    v1 = v1
    v2 = v2
    Value = {v1, v2}
    Tomb = Tomb
    Absent = Absent
    Torn = Torn
    Garbage = Garbage
    NoFile = NoFile
    MaxLevels = 3
    L0Trigger = 2
    L1Max = 1
    Multiplier = 1
    MaxOps = 4
    MaxPower = 2
    MaxFile = 6
    SyncWrites = FALSE
    MayFail = {}
SPECIFICATION Spec
PROPERTY CompactionLosesNothing
CHECK_DEADLOCK FALSE
