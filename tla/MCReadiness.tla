----------------------------- MODULE MCReadiness -----------------------------
(***************************************************************************)
(* Small instances of Readiness for TLC.  Symmetry is not used: these runs *)
(* check temporal properties.                                              *)
(***************************************************************************)
EXTENDS Readiness, TLC

=============================================================================
