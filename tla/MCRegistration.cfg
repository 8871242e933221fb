CONSTANTS
    w1 = w1
    w2 = w2
    k1 = k1
    k2 = k2
    empty = empty
    EmptyKey = empty
    v1 = v1
    v2 = v2
    None = None
    Writers <- OneWriter
    Keys <- MCKeys
    Values <- MCValues
    Families <- MCFamilies
    Capacity = 0
    Expiring = FALSE
    MaxWrites = 3
    MaxBreaks = 0
SPECIFICATION Spec
INVARIANT ReplicaHasAll
CHECK_DEADLOCK FALSE
