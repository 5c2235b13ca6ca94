---------------------------- MODULE MCDemoAgent -----------------------------
(***************************************************************************)
(* A small instance of DemoAgent for TLC: two agents, one with room for    *)
(* two batches and the policy's denial of two tools, the other with room   *)
(* for one and no denial.  The first may meet its denial in time for the   *)
(* report, or too late for it.                                             *)
(***************************************************************************)
EXTENDS DemoAgent, TLC

CONSTANTS a1, a2

MCAgents == {a1, a2}
MCTools == {"logs", "metrics"}
MCDenied == (a1 :> MCTools) @@ (a2 :> {})
MCLimit == (a1 :> 5) @@ (a2 :> 3)
MCMaxBatch == (a1 :> 2) @@ (a2 :> 1)
MCStatuses == {"closed"}
MCMayBeLate == {Create(1)}

=============================================================================
