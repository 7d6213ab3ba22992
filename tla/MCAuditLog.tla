----------------------------- MODULE MCAuditLog -----------------------------
(* Instances of AuditLog for TLC: the constants are in the cfgs. *)
EXTENDS AuditLog, TLC

Symmetry == Permutations(Appenders)

=============================================================================
