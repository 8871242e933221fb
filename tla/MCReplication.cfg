CONSTANTS
    w1 = w1
    w2 = w2
    k1 = k1
    k2 = k2
    empty = empty
    EmptyKey = empty
    v1 = v1
    v2 = v2
    None = None
    Writers <- TwoWriters
    Keys <- WithEmptyKey
    Values <- MCValues
    Families <- Everything
    Capacity = 1
    Expiring = TRUE
    MaxWrites = 3
    MaxBreaks = 1
SPECIFICATION Spec
INVARIANTS
    TypeOK
    ReplicaDiffersOnlyInDoubt
PROPERTIES
    EventuallyReplicated
CHECK_DEADLOCK FALSE
