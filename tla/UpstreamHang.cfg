SPECIFICATION FairSpec
CONSTANTS
    c1 = c1
    p1 = p1
    Callers = {c1}
    Probers = {p1}
    Closers = {}
    Cancellable = {p1}
    MaxConns = 3
PROPERTIES
    EveryCallEnds
