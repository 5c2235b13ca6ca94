SPECIFICATION ScaleoutSpec
CONSTANTS
    GatewayPods = {g1, g2, g3, g4}
    TicketPods = {t1, t2, t3}
    Many = 3
    Capacity = 2
    Probes = 7
    MaxRuns = 2
SYMMETRY Symm
INVARIANTS MeasuredOnTarget RateIsLimit Restored
\* The script ends.
CHECK_DEADLOCK FALSE
