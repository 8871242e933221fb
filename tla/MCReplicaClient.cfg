CONSTANTS
    Interval = 5
    Timeout = 10
    Delay = 5
    MaxFaults = 2
    None = None
SPECIFICATION Spec
INVARIANTS
    TypeOK
    NoFalsePromotion
    SilenceIsNoticed
    PromotedStaysAlone
PROPERTIES
    EventuallyPromoted
    EventuallyDecided
