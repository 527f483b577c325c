CONSTANTS
    Node = {1, 2, 3}
    NumPartitions = 2
    Replication = 2
    MinReplicas = 1
    FailureThreshold = 1
    SuspicionTimeout = 1
    Scenarios <- MCScenarios
    Key = {2, 3, 4}
    Value = {v1}
    Absent = Absent
    Peer = {2}
    Slots = 2
SPECIFICATION Spec
INVARIANTS
    TypeOK
    LeadersSettled
    ReadOnlyWhenShort
    
PROPERTIES
    ReplicasClockwise
    LeadershipMoves
CHECK_DEADLOCK FALSE
