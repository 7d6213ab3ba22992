--------------------------- MODULE MCVaultClients ---------------------------
(* Instances of VaultClients for TLC: the constants are in the cfgs. *)
EXTENDS VaultClients, TLC

Symmetry == Permutations(Clients) \cup Permutations(Aliases)

=============================================================================
