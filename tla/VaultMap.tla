------------------------------ MODULE VaultMap ------------------------------
(***************************************************************************)
(* What the vault store promises its callers: a map from aliases (profile  *)
(* and name) to records that insert, update and delete change atomically.  *)
(* VaultStore implements it with a file and a sidecar lock; VaultClients   *)
(* uses it.                                                                *)
(***************************************************************************)
CONSTANTS
  Aliases,   \* (profile, name) pairs
  Bodies,    \* everything else a record holds
  NoRecord   \* what get returns for an alias without a record

VARIABLE vault

VaultTypeOK == vault \in [Aliases -> Bodies \cup {NoRecord}]

VaultInit == vault = [a \in Aliases |-> NoRecord]

\* An insert never replaces: it fails on an alias that has a record.
Insert(a, b) == vault[a] = NoRecord /\ vault' = [vault EXCEPT ![a] = b]

\* An update never creates: it fails on an alias without a record.
Update(a, b) == vault[a] # NoRecord /\ vault' = [vault EXCEPT ![a] = b]

Delete(a) == vault[a] # NoRecord /\ vault' = [vault EXCEPT ![a] = NoRecord]

VaultNext ==
  \E a \in Aliases : Delete(a) \/ \E b \in Bodies : Insert(a, b) \/ Update(a, b)

VaultSpec == VaultInit /\ [][VaultNext]_vault

=============================================================================
