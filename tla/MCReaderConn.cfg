SPECIFICATION Spec
CONSTANTS
    Leader = leader
    Backup = backup
    None = none
    Values = {v1, v2}
    Failing <- MCFailing
    MaxAttempts = 1
    MaxSets = 2
INVARIANTS TypeOK LocalMatchesServer ClosedStaysClosed
PROPERTIES CloseEnds KeepsComingBack
CHECK_DEADLOCK FALSE
