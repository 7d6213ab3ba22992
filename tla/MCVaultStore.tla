---------------------------- MODULE MCVaultStore ----------------------------
(* Instances of VaultStore for TLC: the constants are in the cfgs. *)
EXTENDS VaultStore, TLC

Symmetry == Permutations(Procs)

=============================================================================
