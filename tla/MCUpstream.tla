----------------------------- MODULE MCUpstream -----------------------------
(***************************************************************************)
(* Small instances of Upstream for TLC.  Symmetry is not used: these runs  *)
(* check temporal properties.                                              *)
(***************************************************************************)
EXTENDS Upstream, TLC

=============================================================================
