CONSTANTS
    c1 = c1
    c2 = c2
    c3 = c3
    k1 = k1
    k2 = k2
    None = None
    Clients <- MCClients
    Keys <- MCKeys
    TTLs = {0}
    MaxTTL = 0
SPECIFICATION Spec
INVARIANTS
    TypeOK
    ExclusiveUntilExpiry
    DisconnectReleases
PROPERTIES
    OrphansExpire
    OnlyOwnerUnlocks
