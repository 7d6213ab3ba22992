------------------------------ MODULE KeyStore ------------------------------
(***************************************************************************)
(* Where the master key and the audit key live (get_or_init; one account   *)
(* is modelled, the other is alike): a file under ~/.brokre or the OS      *)
(* keyring, as the environment of each process says. Whoever finds no key  *)
(* makes one. Nothing is locked, and a process may die between any two     *)
(* steps.                                                                  *)
(***************************************************************************)
EXTENDS Naturals

CONSTANTS
  Calls,      \* calls of get_or_init, of any process
  MaxKeys     \* bound of the model: keys ever generated

VARIABLES
  keyFile,   \* the key file
  ring,      \* the keyring entry
  made,      \* how many keys were generated
  at,        \* where each call is
  mode,      \* its environment
  new,       \* the key it has generated
  got,       \* what it returned
  settled    \* history: the key of the file when the call began, if nobody
             \* was making one

keyVars == <<keyFile, ring, made, at, mode, new, got, settled>>

\* allow_file_fallback, or the keyring with or without a file to fall back on
\* (BROKRE_USE_KEYCHAIN unset or set).
Modes == {"file", "ring", "ring_only"}

Keys == 1..MaxKeys
Absent == 0
Torn == MaxKeys + 1   \* a file that does not decode

ASSUME KeyAssumption == MaxKeys \in Nat

KeyTypeOK ==
  /\ keyFile \in Keys \cup {Absent, Torn}
  /\ ring \in Keys \cup {Absent}
  /\ made \in 0..MaxKeys
  /\ at \in [Calls -> {"idle", "look", "read", "truncate", "write", "get", "set"}]
  /\ mode \in [Calls -> Modes]
  /\ new \in [Calls -> Keys \cup {Absent}]
  /\ got \in [Calls -> Keys \cup {Absent}]
  /\ settled \in [Calls -> Keys \cup {Absent}]

KeyInit ==
  /\ keyFile = Absent
  /\ ring = Absent
  /\ made = 0
  /\ at = [p \in Calls |-> "idle"]
  /\ mode \in [Calls -> Modes]
  /\ new = [p \in Calls |-> Absent]
  /\ got = [p \in Calls |-> Absent]
  /\ settled = [p \in Calls |-> Absent]

Making == \E p \in Calls : at[p] \in {"truncate", "write"}

-----------------------------------------------------------------------------
\* The call returns k, or nothing: an error, or the end of its process.
Return(p, k) ==
  /\ at' = [at EXCEPT ![p] = "idle"]
  /\ new' = [new EXCEPT ![p] = Absent]
  /\ got' = [got EXCEPT ![p] = k]
  /\ UNCHANGED <<mode, settled>>

Go(p, step) == at' = [at EXCEPT ![p] = step] /\ UNCHANGED <<mode, got, settled>>

\* gen_key.
Generate(p, step) ==
  /\ made < MaxKeys
  /\ made' = made + 1
  /\ new' = [new EXCEPT ![p] = made + 1]
  /\ Go(p, step)

\* get_or_init.
StartCall(p) ==
  /\ at[p] = "idle"
  /\ at' = [at EXCEPT ![p] = IF mode[p] = "file" THEN "look" ELSE "get"]
  /\ got' = [got EXCEPT ![p] = Absent]
  /\ settled' = [settled EXCEPT ![p] = IF keyFile \in Keys /\ ~Making THEN keyFile ELSE Absent]
  /\ UNCHANGED <<keyFile, ring, made, mode, new>>

\* Mutant of Look: the key is written whether there is one or not, as the
\* fallback from the keyring does.
Look_Persists(p) ==
  /\ at[p] = "look"
  /\ Generate(p, "truncate")
  /\ UNCHANGED <<keyFile, ring>>

\* read_or_create_file_key: is there a file?
Look(p) ==
  /\ at[p] = "look"
  /\ \/ keyFile # Absent /\ Go(p, "read") /\ UNCHANGED <<made, new>>
     \/ keyFile = Absent /\ Generate(p, "truncate")
  /\ UNCHANGED <<keyFile, ring>>

\* What does not decode is an error.
Read(p) ==
  /\ at[p] = "read"
  /\ Return(p, IF keyFile \in Keys THEN keyFile ELSE Absent)
  /\ UNCHANGED <<keyFile, ring, made>>

\* persist_key_to_file: fs::write truncates
Truncate(p) ==
  /\ at[p] = "truncate"
  /\ keyFile' = Torn
  /\ Go(p, "write")
  /\ UNCHANGED <<ring, made, new>>

\* and writes.
Write(p) ==
  /\ at[p] = "write"
  /\ keyFile' = new[p]
  /\ Return(p, new[p])
  /\ UNCHANGED <<ring, made>>

\* The keyring is read. A failure is taken for an absent entry, and any read
\* may fail.
RingGet(p) ==
  /\ at[p] = "get"
  /\ \/ ring # Absent /\ Return(p, ring) /\ UNCHANGED made
     \/ Generate(p, "set")
  /\ UNCHANGED <<keyFile, ring>>

\* The new key goes to the keyring, over what is there. When that fails it
\* goes to the file, over what is there, unless only the keyring will do.
RingSet(p) ==
  /\ at[p] = "set"
  /\ \/ ring' = new[p] /\ Return(p, new[p])
     \/ /\ \/ mode[p] = "ring" /\ Go(p, "truncate") /\ UNCHANGED new
           \/ mode[p] = "ring_only" /\ Return(p, Absent)
        /\ UNCHANGED ring
  /\ UNCHANGED <<keyFile, made>>

\* An I/O error, or the process dies.
AbortCall(p) ==
  /\ at[p] # "idle"
  /\ Return(p, Absent)
  /\ UNCHANGED <<keyFile, ring, made>>

KeyStep(p) ==
  Look(p) \/ Read(p) \/ Truncate(p) \/ Write(p) \/ RingGet(p) \/ RingSet(p)

KeyNext == \E p \in Calls : StartCall(p) \/ KeyStep(p) \/ AbortCall(p)

KeySpec == KeyInit /\ [][KeyNext]_keyVars

-----------------------------------------------------------------------------
(* Properties. *)

\* Where no call falls back from the keyring to the file: once the file holds a
\* key and nobody is making another, every call that begins and uses the file
\* returns that key or fails, whoever crashed or raced before.
SettledKey == (\A p \in Calls : mode[p] # "ring") =>
  \A p \in Calls : mode[p] = "file" /\ settled[p] # Absent /\ got[p] # Absent
    => got[p] = settled[p]

=============================================================================
