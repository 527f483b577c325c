CONSTANTS
    t1 = t1
    t2 = t2
    Thread = {t1, t2}
    b1 = b1
    b2 = b2
    Block = {b1, b2}
    v0 = v0
    v1 = v1
    Val = {v0, v1}
    LogStart = LogStart
    Block0 = Block0
    NLog = 3
    NBuf = 5
    MaxOpBlocks = 1
    OpBlocks = 1
    MayCrash = TRUE
    MayBypass = TRUE
SYMMETRY Symmetry
SPECIFICATION Spec
INVARIANTS TypeOK Durable
PROPERTY CrashAtomic
