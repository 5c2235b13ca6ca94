-------------------------- MODULE MCCircuitBreaker --------------------------
(***************************************************************************)
(* CircuitBreaker with TLC, for a run of its own on what is said of its    *)
(* half-open state, and for MCGuards.  Symmetry is not used: the latter    *)
(* checks temporal properties.                                             *)
(***************************************************************************)
EXTENDS CircuitBreaker, TLC

=============================================================================
