SPECIFICATION FairSpec
CONSTANTS
    c1 = c1
    c2 = c2
    k1 = k1
    Callers = {c1, c2}
    Probers = {}
    Closers = {k1}
    Cancellable = {}
    MaxConns = 5
CHECK_DEADLOCK FALSE
INVARIANTS
    SingleConnection
    RaceWatchesOwner
    UnavailableIsExplained
    TwiceIsExplained
    ClosedIsClean
PROPERTIES
    SessionOutlivesOthers
    EveryCallEnds
