CONSTANTS
    c1 = c1
    c2 = c2
    c3 = c3
    p1 = p1
    p2 = p2
    None = None
    Clients <- MCClients
    Passwords <- MCPasswords
    Following = TRUE
    MaxSheets = 3
    MaxOpens = 4
SPECIFICATION Spec
SYMMETRY Symmetry
INVARIANTS
    TypeOK
    OneSheetUntilReplaced
    PasswordKept
    NothingLeftBehind
CHECK_DEADLOCK FALSE
