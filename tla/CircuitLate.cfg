SPECIFICATION FairSpec
CONSTANTS
    s1 = s1
    c1 = c1
    c2 = c2
    c3 = c3
    Servers = {s1}
    Calls = {c1, c2, c3}
    Cancellable = {c1, c2}
    Threshold = 2
    Cooldown = 3
INVARIANTS
    TestedOnce
