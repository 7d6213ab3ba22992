---------------------------- MODULE VaultClients ----------------------------
(***************************************************************************)
(* The vault's callers: each CLI command, MCP call and manage request gets *)
(* a record, waits (for a passphrase, a gate, a session that may last for  *)
(* hours) and then writes its whole copy back, deletes the alias or        *)
(* inserts. Nothing is locked from the get to the write. The vault itself  *)
(* is the atomic map that VaultStore implements. Labels, host and the time *)
(* of last use are left out: writing them back writes the whole record.    *)
(***************************************************************************)
EXTENDS Naturals

CONSTANTS
  Clients,       \* callers
  Aliases,       \* (profile, name) pairs
  Phrases,       \* reveal passphrases
  Yes,           \* the literal that confirms for a record without passphrase
  NoRecord,      \* no record
  MaxIds,        \* bound of the model: credentials ever created
  MaxRotations   \* bound of the model: rotations of each credential

ASSUME BoundsAssumption == MaxIds \in Nat /\ MaxRotations \in Nat

VARIABLES
  vault,      \* the vault, alias by alias
  born,       \* history: what every insert created
  pc,         \* where each client is
  alias,      \* the alias it works on
  hand,       \* its copy of the record
  injected    \* the password its last prompt was answered with

clientVars == <<pc, alias, hand>>
vars == <<vault, born, pc, alias, hand, injected>>

Ids == 1..MaxIds

\* A password is known by the credential it was set for and by how many
\* rotations came before: two rotations of the same copy are not told apart.
Password == [of : Ids, version : 0..MaxRotations]

\* The passphrase that reveals it, Yes if there is none (reveal_protected).
Record == [id : Ids, phrase : Phrases \cup {Yes}, password : Password]

INSTANCE VaultMap WITH Bodies <- Record

None == [of |-> 0, version |-> 0]
NoPhrase == NoRecord
NoAlias == NoRecord

Birth == [id : Ids, alias : Aliases, phrase : Phrases \cup {Yes}]
BornIds == {b.id : b \in born}

TypeOK ==
  /\ VaultTypeOK
  /\ born \subseteq Birth
  /\ pc \in [Clients -> {"idle", "exec", "meta", "rotate", "remove",
                         "rotating", "removing", "create"}]
  /\ alias \in [Clients -> Aliases \cup {NoAlias}]
  /\ hand \in [Clients -> Record \cup {NoRecord}]
  /\ injected \in [Clients -> Password \cup {None}]

Init ==
  /\ VaultInit
  /\ born = {}
  /\ pc = [c \in Clients |-> "idle"]
  /\ alias = [c \in Clients |-> NoAlias]
  /\ hand = [c \in Clients |-> NoRecord]
  /\ injected = [c \in Clients |-> None]

-----------------------------------------------------------------------------
\* The operation ends, in success or in failure, or its process dies.
End(c) ==
  /\ pc' = [pc EXCEPT ![c] = "idle"]
  /\ hand' = [hand EXCEPT ![c] = NoRecord]
  /\ injected' = [injected EXCEPT ![c] = None]
  /\ alias' = [alias EXCEPT ![c] = NoAlias]

\* exec of a saved credential, a meta edit, a rotation, and rm or DELETE start
\* with a get; without a record they fail.
Get(c, op, a) ==
  /\ pc[c] = "idle"
  /\ vault[a] # NoRecord
  /\ pc' = [pc EXCEPT ![c] = op]
  /\ alias' = [alias EXCEPT ![c] = a]
  /\ hand' = [hand EXCEPT ![c] = vault[a]]
  /\ UNCHANGED <<vault, born, injected>>

\* verify_reveal_auth, on the copy: the literal Yes only for a record without
\* passphrase. (rm asks three times; the last answer is the one that counts.)
VerifyRevealAuth(rec, phrase) == phrase = rec.phrase

Authenticate(c, phrase) ==
  /\ pc[c] \in {"rotate", "remove"}
  /\ \/ /\ VerifyRevealAuth(hand[c], phrase)
        /\ pc' = [pc EXCEPT ![c] = IF @ = "rotate" THEN "rotating" ELSE "removing"]
        /\ UNCHANGED <<alias, hand, injected>>
     \/ /\ ~VerifyRevealAuth(hand[c], phrase)
        /\ End(c)
  /\ UNCHANGED <<vault, born>>

\* update of the client's alias; a record that has gone is an error and stays
\* gone.
Put(c, rec) ==
  \/ Update(alias[c], rec)
  \/ vault[alias[c]] = NoRecord /\ UNCHANGED vault

\* exec_saved ends: after exit code 0 the copy is written back with a new
\* last_used_at.
ExecDone(c) ==
  /\ pc[c] = "exec"
  /\ \/ Put(c, hand[c])
     \/ UNCHANGED vault
  /\ End(c)
  /\ UNCHANGED born

\* PUT meta writes the copy back with other labels.
MetaWrite(c) ==
  /\ pc[c] = "meta"
  /\ Put(c, hand[c])
  /\ End(c)
  /\ UNCHANGED born

Rotated(rec) == [rec EXCEPT !.password.version = @ + 1]

\* Mutant of RotateWrite: the new ciphertext goes into the record as it is now.
RotateWrite_Merges(c) ==
  /\ pc[c] = "rotating"
  /\ hand[c].password.version < MaxRotations
  /\ IF vault[alias[c]] = NoRecord THEN UNCHANGED vault
     ELSE Update(alias[c],
            [vault[alias[c]] EXCEPT !.password = Rotated(hand[c]).password])
  /\ End(c)
  /\ UNCHANGED born

\* rotate_password re-encrypts the copy for the passphrase that was given.
RotateWrite(c) ==
  /\ pc[c] = "rotating"
  /\ hand[c].password.version < MaxRotations
  /\ Put(c, Rotated(hand[c]))
  /\ End(c)
  /\ UNCHANGED born

\* rm and DELETE delete by alias.
Remove(c) ==
  /\ pc[c] = "removing"
  /\ \/ Delete(alias[c])
     \/ vault[alias[c]] = NoRecord /\ UNCHANGED vault
  /\ End(c)
  /\ UNCHANGED born

-----------------------------------------------------------------------------
\* Mutant of Inject: the record is looked up by the alias of the command.
Inject_ByAlias(c) ==
  /\ pc[c] = "exec"
  /\ vault[alias[c]] # NoRecord
  /\ injected' = [injected EXCEPT ![c] = vault[alias[c]].password]
  /\ UNCHANGED <<vault, born, clientVars>>

\* A password prompt of the child: the injector (or askpass) process looks the
\* record up by id. It injects nothing when there is none.
Inject(c) ==
  /\ pc[c] = "exec"
  /\ \E a \in Aliases :
       /\ vault[a] # NoRecord
       /\ vault[a].id = hand[c].id
       /\ injected' = [injected EXCEPT ![c] = vault[a].password]
  /\ UNCHANGED <<vault, born, clientVars>>

\* create_credential, or the alias a first connection is to be saved under:
\* the alias has to be free when it is asked for,
CheckFree(c, a) ==
  /\ pc[c] = "idle"
  /\ vault[a] = NoRecord
  /\ pc' = [pc EXCEPT ![c] = "create"]
  /\ alias' = [alias EXCEPT ![c] = a]
  /\ UNCHANGED <<vault, born, hand, injected>>

NewRecord(id, phrase) ==
  [id |-> id, phrase |-> phrase, password |-> [of |-> id, version |-> 0]]

\* Mutant of Create: the check at the start is the only one.
Create_ChecksOnce(c, phrase) ==
  /\ pc[c] = "create"
  /\ \E id \in Ids \ BornIds :
       /\ vault' = [vault EXCEPT ![alias[c]] = NewRecord(id, phrase)]
       /\ born' = born \cup {[id |-> id, alias |-> alias[c], phrase |-> phrase]}
  /\ End(c)

\* and again, by the insert, when the password and passphrase are there.
Create(c, phrase) ==
  /\ pc[c] = "create"
  /\ \/ \E id \in Ids \ BornIds :
          /\ \A other \in Ids \ BornIds : id <= other
          /\ Insert(alias[c], NewRecord(id, phrase))
          /\ born' = born \cup {[id |-> id, alias |-> alias[c], phrase |-> phrase]}
     \/ vault[alias[c]] # NoRecord /\ UNCHANGED <<vault, born>>
  /\ End(c)

\* A cancelled prompt, an error, a process that dies.
GiveUp(c) ==
  /\ pc[c] # "idle"
  /\ End(c)
  /\ UNCHANGED <<vault, born>>

Next == \E c \in Clients :
  \/ \E op \in {"exec", "meta", "rotate", "remove"}, a \in Aliases : Get(c, op, a)
  \/ \E a \in Aliases : CheckFree(c, a)
  \/ \E phrase \in Phrases \cup {Yes} : Authenticate(c, phrase) \/ Create(c, phrase)
  \/ ExecDone(c) \/ MetaWrite(c) \/ RotateWrite(c) \/ Remove(c) \/ Inject(c)
  \/ GiveUp(c)

Spec == Init /\ [][Next]_vars

-----------------------------------------------------------------------------
(* Properties. *)

\* Whatever stale copy was written last, every record in the vault is one that
\* was created under that alias, with the passphrase it was created with and a
\* password set for it: what the passphrase reveals is what exec injects.
Coherent == \A a \in Aliases : vault[a] # NoRecord =>
  LET r == vault[a] IN
  /\ [id |-> r.id, alias |-> a, phrase |-> r.phrase] \in born
  /\ r.password.of = r.id

\* A new credential goes to a free alias and nowhere else, and only a new
\* credential does: no create replaces a record that came after its check,
\* and no write-back brings a removed alias back.
OnlyCreateFills == [][\A a \in Aliases :
    vault[a] = NoRecord /\ vault'[a] # NoRecord
      <=> vault'[a] # NoRecord /\ vault'[a].id \notin BornIds]_vars

\* A session is only ever given a password of the credential its arguments
\* come from, though the alias may hold another by now.
InjectsOwn ==
  \A c \in Clients : injected[c] # None => injected[c].of = hand[c].id

=============================================================================
