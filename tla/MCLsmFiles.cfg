CONSTANTS
    Nil = Nil
    MaxLevel = 2
    NodeBytes = 40
    PtrBytes = 8
    BlockSize = 40
    RestartInterval = 2
    MaxKeySize = 4
    BitsPerKey = 10
    NumHashes = 3
    Word = 64
    Murmur <- MCMurmur
    Key <- MCKey
    Value <- MCValue
    MaxOps = 4
    MaxTables = 3
SPECIFICATION Spec
INVARIANTS LevelsLinked MemoryAccounted MemtableReads TableReads MergeNewest
PROPERTY MergeInOrder
CHECK_DEADLOCK FALSE
