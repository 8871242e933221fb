CONSTANTS
    r1 = r1
    r2 = r2
    r3 = r3
    k1 = k1
    k2 = k2
    empty = empty
    EmptyKey = empty
    v1 = v1
    v2 = v2
    None = None
    NullPlaceholder = NullPlaceholder
    Readers <- ThreeReaders
    Writers <- OneWriter
    Late <- LateReader
    Keys <- WithEmptyKey
    Values <- MCOneValue
    Families <- MCFamilies
    Requests <- AllRequests
    Capacity = 1
    Expiring = TRUE
    Buffer = 2
    MaxWrites = 2
SPECIFICATION Spec
INVARIANTS
    TypeOK
    DiffersOnlySilently
PROPERTIES
    EventuallyInSync
CHECK_DEADLOCK FALSE
