-------------------------- MODULE MCBastionSession --------------------------
(* Instances of BastionSession for TLC: the constants are in the cfgs. *)
EXTENDS BastionSession, TLC

Symmetry == Permutations(Procs)

=============================================================================
