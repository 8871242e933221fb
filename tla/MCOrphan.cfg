CONSTANTS
    c1 = c1
    c2 = c2
    c3 = c3
    p1 = p1
    p2 = p2
    None = None
    Clients <- TwoClients
    Passwords <- OnePassword
    Following = FALSE
    MaxSheets = 3
    MaxOpens = 4
SPECIFICATION Spec
INVARIANT CollaboratorsKeepSheet
CHECK_DEADLOCK FALSE
