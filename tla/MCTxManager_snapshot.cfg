CONSTANTS
    c1 = c1
    c2 = c2
    v1 = v1
    Client = {c1, c2}
    Key = {0, 1}
    Value = {v1}
    Empty = Empty
    None = None
    End = End
    MaxActive = 2
    SyncOnCommit = TRUE
    MaxTs = 6
    MaxTsAfter = 4
    Scanner = {c1}
    MayFail = {"close", "crash", "power", "ioerror", "log"}
    MaxFailures = 1
SPECIFICATION Spec
INVARIANTS TypeOK ScanIsSnapshot
PROPERTIES SnapshotIsolation SnapshotAfterCommit
CHECK_DEADLOCK FALSE
