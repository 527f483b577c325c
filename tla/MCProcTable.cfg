CONSTANTS
    NPROC = 3
    Pages = 11
    MaxPid = 4
    MaxSz = 3
    Growers = {2}
SPECIFICATION Spec
INVARIANTS TypeOK NoLostWakeup PagesOwnedOnce ParentAlive
PROPERTIES OrphansCollected KilledExits
