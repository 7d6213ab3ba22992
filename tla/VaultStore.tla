----------------------------- MODULE VaultStore -----------------------------
(***************************************************************************)
(* The vault file, one JSON record per line, as brokre processes share it: *)
(* every operation takes the sidecar lock vault.lock (shared to list,      *)
(* exclusive to change), reads all records, edits the list in memory,      *)
(* writes it to a temporary file and renames that over the vault. A        *)
(* process may die at any step; its lock dies with it, its temporary file  *)
(* stays. Files and lists are sets of records: their order matters only    *)
(* where an alias has two records, which UniqueAliases excludes.           *)
(***************************************************************************)
EXTENDS Naturals, FiniteSets

CONSTANTS
  Procs,      \* brokre processes
  Aliases,    \* (profile, name) pairs
  Bodies,     \* everything else a record holds
  NoRecord,   \* no record, see VaultMap
  MaxRecords  \* bound of the model: records in the vault

VARIABLES
  file,     \* the records of the vault file
  tmp,      \* the records of the temporary file
  readers,  \* holders of the shared lock
  writer,   \* the holder of the exclusive lock, as a set
  pc,       \* where each process is
  req,      \* the operation it was asked for
  records   \* its list in memory

vars == <<file, tmp, readers, writer, pc, req, records>>

Record == [alias : Aliases, body : Bodies]

\* list (get and get_by_id search what it returns), insert, update, delete.
List == [op |-> "list"]
Request == {List} \cup [op : {"insert", "update"}, alias : Aliases, body : Bodies]
                  \cup [op : {"delete"}, alias : Aliases]

ASSUME VaultAssumption ==
  /\ NoRecord \notin Bodies
  /\ MaxRecords \in Nat

\* The records of alias a in s.
Of(s, a) == {x \in s : x.alias = a}

TypeOK ==
  /\ file \in SUBSET Record
  /\ tmp \in SUBSET Record
  /\ readers \in SUBSET Procs
  /\ writer \in SUBSET Procs
  /\ pc \in [Procs -> {"idle", "wait", "read", "edit", "open", "write"}]
  /\ req \in [Procs -> Request]
  /\ records \in [Procs -> SUBSET Record]

Init ==
  /\ file = {}
  /\ tmp = {}
  /\ readers = {}
  /\ writer = {}
  /\ pc = [p \in Procs |-> "idle"]
  /\ req = [p \in Procs |-> List]
  /\ records = [p \in Procs |-> {}]

-----------------------------------------------------------------------------
\* A call of one of the operations.
Call(p, r) ==
  /\ pc[p] = "idle"
  /\ pc' = [pc EXCEPT ![p] = "wait"]
  /\ req' = [req EXCEPT ![p] = r]
  /\ UNCHANGED <<file, tmp, readers, writer, records>>

\* Mutant of AcquireLock: the lock file is per process.
AcquireLock_None(p) ==
  /\ pc[p] = "wait"
  /\ pc' = [pc EXCEPT ![p] = "read"]
  /\ UNCHANGED <<file, tmp, readers, writer, req, records>>

\* flock on vault.lock, blocking.
AcquireLock(p) ==
  /\ pc[p] = "wait"
  /\ writer = {}
  /\ \/ /\ req[p].op = "list"
        /\ readers' = readers \cup {p}
        /\ UNCHANGED writer
     \/ /\ req[p].op # "list"
        /\ readers = {}
        /\ writer' = {p}
        /\ UNCHANGED readers
  /\ pc' = [pc EXCEPT ![p] = "read"]
  /\ UNCHANGED <<file, tmp, req, records>>

\* Mutant of Release: an operation that was refused keeps the lock.
Release_LeaksLock(p) ==
  /\ UNCHANGED <<readers, writer>>
  /\ pc' = [pc EXCEPT ![p] = "idle"]
  /\ req' = [req EXCEPT ![p] = List]
  /\ records' = [records EXCEPT ![p] = {}]

\* The lock is dropped on every way out of the operation, and by a crash.
Release(p) ==
  /\ readers' = readers \ {p}
  /\ writer' = writer \ {p}
  /\ pc' = [pc EXCEPT ![p] = "idle"]
  /\ req' = [req EXCEPT ![p] = List]
  /\ records' = [records EXCEPT ![p] = {}]

\* read_all.
ReadAll(p) ==
  /\ pc[p] = "read"
  /\ IF req[p].op = "list" THEN Release(p)
     ELSE /\ records' = [records EXCEPT ![p] = file]
          /\ pc' = [pc EXCEPT ![p] = "edit"]
          /\ UNCHANGED <<readers, writer, req>>
  /\ UNCHANGED <<file, tmp>>

\* The list after the operation: insert pushes, update replaces the first
\* record of the alias, delete retains those of other aliases.
Edited(s, r) ==
  CASE r.op = "insert" -> s \cup {[alias |-> r.alias, body |-> r.body]}
    [] r.op = "update" -> (s \ {CHOOSE x \in Of(s, r.alias) : TRUE})
                            \cup {[alias |-> r.alias, body |-> r.body]}
    [] r.op = "delete" -> s \ Of(s, r.alias)

\* Mutant of Refused: insert does not look for the alias.
Refused_NoDuplicateCheck(s, r) == r.op # "insert" /\ Of(s, r.alias) = {}

\* insert refuses an alias that exists, update and delete one that does not.
Refused(s, r) ==
  IF r.op = "insert" THEN Of(s, r.alias) # {} ELSE Of(s, r.alias) = {}

Edit(p) ==
  /\ pc[p] = "edit"
  /\ \/ /\ Refused(records[p], req[p])
        /\ Release(p)
     \/ /\ ~Refused(records[p], req[p])
        /\ records' = [records EXCEPT ![p] = Edited(@, req[p])]
        /\ pc' = [pc EXCEPT ![p] = "open"]
        /\ UNCHANGED <<readers, writer, req>>
  /\ UNCHANGED <<file, tmp>>

\* write_all: the temporary file is created or truncated,
OpenTmp(p) ==
  /\ pc[p] = "open"
  /\ tmp' = {}
  /\ pc' = [pc EXCEPT ![p] = "write"]
  /\ UNCHANGED <<file, readers, writer, req, records>>

\* a line is written for each record in turn,
WriteLine(p) ==
  /\ pc[p] = "write"
  /\ \E x \in records[p] \ tmp : tmp' = tmp \cup {x}
  /\ UNCHANGED <<file, readers, writer, pc, req, records>>

\* Mutant of Rename: the data is not on the disk when the name is.
Rename_BeforeSync(p) ==
  /\ pc[p] = "write"
  /\ file' = tmp
  /\ tmp' = {}
  /\ Release(p)

\* and once all are synced it replaces the vault file.
Rename(p) ==
  /\ pc[p] = "write"
  /\ records[p] \subseteq tmp
  /\ file' = tmp
  /\ tmp' = {}
  /\ Release(p)

\* The process dies, or an I/O error ends the operation.
Abort(p) ==
  /\ pc[p] # "idle"
  /\ Release(p)
  /\ UNCHANGED <<file, tmp>>

Step(p) ==
  \/ AcquireLock(p) \/ ReadAll(p) \/ Edit(p)
  \/ OpenTmp(p) \/ WriteLine(p) \/ Rename(p)

\* The bound is on what is inserted.
Start(p) == \E r \in Request :
  (r.op = "insert" => Cardinality(file) < MaxRecords) /\ Call(p, r)

Next == \E p \in Procs : Start(p) \/ Step(p) \/ Abort(p)

Spec == Init /\ [][Next]_vars

\* A process in an operation goes on. Nothing is assumed about the order in
\* which flock serves its waiters.
FairSpec == Spec /\ \A p \in Procs : WF_vars(Step(p))

-----------------------------------------------------------------------------
(* Properties. *)

\* No alias has two records, whatever inserts and updates race and whoever
\* dies between the temporary file and the rename.
UniqueAliases == \A x, y \in file : x.alias = y.alias => x = y

\* What is about to replace the vault is the caller's edit of the vault as it
\* is at that moment: no insert, update or delete of another process is lost.
EditsCurrent ==
  \A p \in Procs :
    /\ pc[p] = "edit" => records[p] = file
    /\ pc[p] \in {"open", "write"} =>
         ~Refused(file, req[p]) /\ records[p] = Edited(file, req[p])

\* What get finds for an alias, given its records.
Found(s) == IF s = {} THEN NoRecord ELSE (CHOOSE x \in s : TRUE).body

\* The map the file stands for.
Contents == [a \in Aliases |-> Found(Of(file, a))]

Map == INSTANCE VaultMap WITH vault <- Contents

\* The store implements VaultMap: readers see the records of before or of
\* after each insert, update or delete, crashes included.
ImplementsMap == Map!VaultSpec

\* Whoever holds the lock gives it back: on success, on refusal, on an I/O
\* error and in a crash.
LocksReleased ==
  \A p \in Procs : p \in readers \cup writer ~> p \notin readers \cup writer

=============================================================================
