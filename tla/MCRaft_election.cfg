CONSTANTS
    s1 = s1
    s2 = s2
    s3 = s3
    Server = {s1, s2, s3}
    Nil = Nil
    v = v
    Value = {v}
    MaxEntriesPerAppend = 1
    MayStand <- Handover
    Budget <- ElectionBudget
    Spent <- ElectionMixes
SPECIFICATION Spec
INVARIANTS ElectionSafety LeaderKnown
PROPERTY VoteStable
