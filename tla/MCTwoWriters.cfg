CONSTANTS
    r1 = r1
    r2 = r2
    r3 = r3
    k1 = k1
    k2 = k2
    empty = empty
    EmptyKey = empty
    v1 = v1
    v2 = v2
    None = None
    NullPlaceholder = NullPlaceholder
    Readers <- TwoReaders
    Writers <- TwoWriters
    Late <- Nobody
    Keys <- MCKeys
    Values <- MCValues
    Families <- MCFamilies
    Requests <- OnlySet
    Capacity = 0
    Expiring = FALSE
    Buffer = 1
    MaxWrites = 3
SPECIFICATION Spec
INVARIANTS
    Converged
CHECK_DEADLOCK FALSE
