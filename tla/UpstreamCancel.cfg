SPECIFICATION FairSpec
CONSTANTS
    c1 = c1
    p1 = p1
    Callers = {c1}
    Probers = {p1}
    Closers = {}
    Cancellable = {c1, p1}
    MaxConns = 2
PROPERTIES
    IsRemoteCall
    OrphansEnd
    LockIsPassedOn
