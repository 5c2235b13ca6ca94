CONSTANTS
    Hour <- MCHour
    Walls <- MCWalls
    Offsets <- MCOffsets
    Others = {"get_metrics"}
    Policies <- MCPolicies
SPECIFICATION QuerySpec
INVARIANTS AlwaysDecides
