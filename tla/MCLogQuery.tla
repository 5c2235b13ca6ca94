----------------------------- MODULE MCLogQuery -----------------------------
(***************************************************************************)
(* A small instance of LogQuery for TLC: two ticks to the hour, so that a  *)
(* time can be on the hour or between two; lists of up to two entries with *)
(* every kind of limit, so that one entry can shadow another.  A run of    *)
(* its own asks whether evaluate can raise; the rest is in MCGuards.       *)
(***************************************************************************)
EXTENDS LogQuery

MCHour == 2
MCWalls == 0 .. 5
MCOffsets == {-1, 0, 3}
MCEntry == [tool : Tools, limit : {NoLimit, NoNumber, 0, 2, 3}]
MCPolicies == UNION {[1 .. n -> MCEntry] : n \in 0 .. 2}

=============================================================================
