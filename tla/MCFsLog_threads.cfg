CONSTANTS
    t1 = t1
    t2 = t2
    t3 = t3
    Thread = {t1, t2, t3}
    b1 = b1
    b2 = b2
    Block = {b1, b2}
    v0 = v0
    Val = {v0}
    LogStart = LogStart
    Block0 = Block0
    NLog = 3
    NBuf = 3
    MaxOpBlocks = 1
    OpBlocks = 1
    MayCrash = FALSE
    MayBypass = FALSE
SPECIFICATION LightLoadSpec
INVARIANTS Pinned ReservationHolds
PROPERTY WaiterWoken
