CONSTANTS
    s1 = s1
    s2 = s2
    s3 = s3
    Server = {s1, s2, s3}
    Nil = Nil
    v1 = v1
    v2 = v2
    Value = {v1, v2}
    MaxEntriesPerAppend = 1
    MayStand <- Rivals
    Budget <- LogBudget
    Spent <- Fresh
SYMMETRY ValueSymmetry
SPECIFICATION Spec
INVARIANTS TypeOK LogMatching
PROPERTY LeaderAppendOnly
