SPECIFICATION GuardFairSpec
CONSTANTS
    s1 = s1
    c1 = c1
    c2 = c2
    c3 = c3
    Servers = {s1}
    Calls = {c1, c2, c3}
    Cancellable = {c1, c2}
    Threshold = 2
    Cooldown = 3
    a1 = a1
    a2 = a2
    Agents = {a1, a2}
    Capacity = 2
    Unit = 3
    Refill = 2
    MaxTime = 5
    Hour <- MCHour
    Walls <- MCWalls
    Offsets <- MCOffsets
    Others = {"get_metrics"}
    Policies <- MCPolicies
INVARIANTS
    TablesAgree
    OneProbe
    WindowBound
    FailClosed
    LimitReachesServer
    PassedIsServed
PROPERTIES
    LeakNeedsCancel
    RefusedOnlyByLeak
    PatienceServed
    IsTokenBucket
