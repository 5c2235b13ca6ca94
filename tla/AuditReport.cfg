SPECIFICATION Spec
CONSTANTS
    r1 = r1
    r2 = r2
    r3 = r3
    a1 = a1
    a2 = a2
    s1 = s1
    Records = {r1, r2, r3}
    Agents = {a1, a2}
    Servers = {s1}
    Procs = 2
    Day = 1
    MaxTime = 2
SYMMETRY Symm
CHECK_DEADLOCK FALSE
INVARIANTS
    LossBounded
    RowsAreRecords
    SummaryIsTrue
    DetailsMatch
