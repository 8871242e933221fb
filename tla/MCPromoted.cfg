CONSTANTS
    Interval = 5
    Timeout = 10
    Delay = 2
    MaxFaults = 2
    None = None
SPECIFICATION Spec
INVARIANT PromotedFollowsNobody
