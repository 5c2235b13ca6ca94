-------------------------- MODULE MCVerifyScaleout --------------------------
(***************************************************************************)
(* VerifyScaleout for TLC: the pods of one deployment are interchangeable. *)
(***************************************************************************)
EXTENDS VerifyScaleout, TLC

Symm == Permutations(GatewayPods) \cup Permutations(TicketPods)
=============================================================================
