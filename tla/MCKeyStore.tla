----------------------------- MODULE MCKeyStore -----------------------------
(* Instances of KeyStore for TLC: the constants are in the cfgs. *)
EXTENDS KeyStore, TLC

Symmetry == Permutations(Calls)

=============================================================================
