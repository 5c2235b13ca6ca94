---------------------------- MODULE MCToolCalls ----------------------------
(***************************************************************************)
(* Small instances of ToolCalls for TLC: two backends with a tool "t" each *)
(* and no tool "x"; the policy keeps the agents off the second backend.    *)
(* The requests cover every way a name can fare: permitted, no such tool,  *)
(* not permitted, no such backend.                                         *)
(***************************************************************************)
EXTENDS ToolCalls, TLC

MCTools == {"t", "x"}
MCReal == [s \in 1 .. N |-> {"t"}]
MCPermits == Agents \X {1} \X {"t"}
MCRequests ==
    UNION {{<<a, 1, "t">>, <<a, 1, "x">>, <<a, 2, "t">>, <<a, 0, "t">>} :
           a \in Agents}

=============================================================================
