SPECIFICATION FairSpec
CONSTANTS
    a1 = a1
    c1 = c1
    c2 = c2
    Agents = {a1}
    Anonymous = anonymous
    Calls = {c1, c2}
    Cancellable = {c1}
    N = 2
    Tools <- MCTools
    Real <- MCReal
    Permits <- MCPermits
    Requests <- MCRequests
    Threshold = 1
    Cooldown = 1
    Capacity = 1
    Unit = 1
    Refill = 1
INVARIANTS
    OnlyPermittedRuns
    BooksAreTrue
    UnknownIsUnknown
PROPERTIES
    FailFast
    BreakerUse
    ListedIfAsked
