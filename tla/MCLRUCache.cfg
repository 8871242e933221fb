CONSTANTS
    k1 = k1
    k2 = k2
    k3 = k3
    v1 = v1
    None = None
    NullPlaceholder = NullPlaceholder
    HeadNode = HeadNode
    TailNode = TailNode
    Keys <- MCKeys
    Values <- MCValues
    Families <- MCFamilies
    TTLs = {1}
    JitterPercent = 100
    Capacities = {0, 1, 2}
    MaxTime = 2
    MaxUses = 4
SPECIFICATION Spec
INVARIANTS
    TypeOK
    ListMatchesMap
    CapacityRespected
    OldestIsLeastRecent
PROPERTIES
    ImplementsLRU
    ExpiredLeave
