CONSTANTS
    c1 = c1
    v1 = v1
    Client = {c1}
    Key = {0, 1}
    Value = {v1}
    Empty = Empty
    None = None
    End = End
    MaxActive = 2
    SyncOnCommit = TRUE
    MaxTs = 5
    MaxTsAfter = 5
    Scanner = {}
    MayFail = {"crash"}
    MaxFailures = 1
SPECIFICATION Spec
INVARIANT AllOrNothing
CHECK_DEADLOCK FALSE
