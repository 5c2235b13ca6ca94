----------------------------- MODULE MCAuditLog -----------------------------
(* Model checking AuditLog: records, agents and servers are interchangeable. *)
EXTENDS AuditLog, TLC

Symm == Permutations(Records) \cup Permutations(Agents) \cup Permutations(Servers)

=============================================================================
