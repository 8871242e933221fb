CONSTANTS
    c1 = c1
    c2 = c2
    c3 = c3
    k1 = k1
    k2 = k2
    None = None
    Clients <- MCClients
    Keys <- MCOneKey
    TTLs = {0, 1}
    MaxTTL = 1
SPECIFICATION Spec
INVARIANT MutualExclusion
