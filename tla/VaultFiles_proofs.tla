-------------------------- MODULE VaultFiles_proofs -------------------------
(***************************************************************************)
(* Proofs about the three files that brokre processes share in ~/.brokre,  *)
(* one part for each. VaultStore: the vault never holds two records of an  *)
(* alias, no update is lost, and the store implements the atomic map       *)
(* VaultMap, for any number of processes, aliases and records. KeyStore: a *)
(* key in place stays. AuditLog: the chain of events verifies, and nothing *)
(* appended goes missing.                                                  *)
(***************************************************************************)
EXTENDS VaultStore, KeyStore, AuditLog, SequenceTheorems, WellFoundedInduction, TLAPS

-----------------------------------------------------------------------------
(***************************************************************************)
(* The vault                                                               *)
(***************************************************************************)


\* What the sidecar lock guarantees.
LockInv ==
  /\ \A p, q \in writer : p = q
  /\ \A p \in Procs : pc[p] \in {"edit", "open", "write"} => p \in writer
  /\ \A p \in Procs : pc[p] = "read" /\ req[p].op # "list" => p \in writer
  /\ \A p \in Procs : pc[p] \in {"edit", "open", "write"} => req[p].op # "list"

\* The temporary file holds a part of the list its writer is writing.
TmpInv == \A p \in Procs : pc[p] = "write" => tmp \subseteq records[p]

IInv == TypeOK /\ LockInv /\ TmpInv /\ EditsCurrent /\ UniqueAliases

-----------------------------------------------------------------------------
\* An accepted edit yields records, keeps aliases unique and changes what the
\* operation is asked to change.
LEMMA EditedCorrect ==
  ASSUME NEW s \in SUBSET Record, NEW r \in Request, r.op # "list",
         \A x, y \in s : x.alias = y.alias => x = y, ~Refused(s, r)
  PROVE  /\ Edited(s, r) \in SUBSET Record
         /\ \A x, y \in Edited(s, r) : x.alias = y.alias => x = y
         /\ r.alias \in Aliases
         /\ r.op \in {"insert", "update", "delete"}
         /\ r.op \in {"insert", "update"} =>
              /\ r.body \in Bodies
              /\ Of(Edited(s, r), r.alias) = {[alias |-> r.alias, body |-> r.body]}
         /\ r.op = "delete" => Of(Edited(s, r), r.alias) = {}
         /\ \A a \in Aliases : a # r.alias => Of(Edited(s, r), a) = Of(s, a)
<1>1. r.alias \in Aliases
  BY DEF Request, List
<1>2. CASE r.op = "insert"
  <2> DEFINE n == [alias |-> r.alias, body |-> r.body]
  <2>1. r.body \in Bodies /\ n \in Record
    BY <1>1, <1>2 DEF Request, List, Record
  <2>2. Edited(s, r) = s \cup {n} /\ Of(s, r.alias) = {}
    BY <1>2 DEF Edited, Refused
  <2>3. n.alias = r.alias
    OBVIOUS
  <2> HIDE DEF n
  <2> QED BY <1>1, <1>2, <2>1, <2>2, <2>3 DEF Of, n
<1>3. CASE r.op = "update"
  <2> DEFINE n == [alias |-> r.alias, body |-> r.body]
             o == CHOOSE x \in Of(s, r.alias) : TRUE
  <2>1. r.body \in Bodies /\ n \in Record
    BY <1>1, <1>3 DEF Request, List, Record
  <2>2. o \in Of(s, r.alias) /\ Edited(s, r) = (s \ {o}) \cup {n}
    BY <1>3 DEF Edited, Refused
  <2>3. n.alias = r.alias
    OBVIOUS
  <2>4. Of(s, r.alias) = {o}
    BY <2>2 DEF Of
  <2> HIDE DEF n, o
  <2> QED BY <1>1, <1>3, <2>1, <2>2, <2>3, <2>4 DEF Of, n
<1>4. CASE r.op = "delete"
  BY <1>1, <1>4 DEF Edited, Of
<1>5. r.op \in {"insert", "update", "delete"}
  BY DEF Request, List
<1> QED BY <1>2, <1>3, <1>4, <1>5

\* A release of the lock leaves nothing behind but the file.
LEMMA ReleaseKeeps ==
  ASSUME TypeOK, LockInv, TmpInv, NEW p \in Procs, Release(p), tmp' = tmp
  PROVE  LockInv' /\ TmpInv'
BY DEF TypeOK, LockInv, TmpInv, Release

-----------------------------------------------------------------------------
\* Type correctness, step by step.
LEMMA TypeStep == IInv /\ [Next]_vars => TypeOK'
<1> SUFFICES ASSUME IInv, [Next]_vars PROVE TypeOK'
  OBVIOUS
<1> USE DEF IInv
<1>l. List \in Request
  BY DEF Request
<1>r. ASSUME NEW p \in Procs, Release(p), file' \in SUBSET Record,
             tmp' \in SUBSET Record
      PROVE  TypeOK'
  BY <1>r, <1>l DEF Release, TypeOK
<1>1. ASSUME NEW p \in Procs, Start(p) PROVE TypeOK'
  BY <1>1 DEF Start, Call, TypeOK
<1>2. ASSUME NEW p \in Procs, AcquireLock(p) PROVE TypeOK'
  BY <1>2 DEF AcquireLock, TypeOK
<1>3. ASSUME NEW p \in Procs, ReadAll(p) PROVE TypeOK'
  BY <1>3, <1>r DEF ReadAll, TypeOK
<1>4. ASSUME NEW p \in Procs, Edit(p) PROVE TypeOK'
  <2>1. CASE Release(p)
    BY <1>4, <2>1, <1>r DEF Edit, TypeOK
  <2>2. CASE ~Refused(records[p], req[p])
             /\ records' = [records EXCEPT ![p] = Edited(@, req[p])]
             /\ pc' = [pc EXCEPT ![p] = "open"]
             /\ UNCHANGED <<readers, writer, req>>
    <3>1. records[p] = file /\ req[p] \in Request /\ req[p].op # "list"
      BY <1>4 DEF Edit, EditsCurrent, LockInv, TypeOK
    <3>2. Edited(records[p], req[p]) \in SUBSET Record
      BY <2>2, <3>1, EditedCorrect DEF UniqueAliases, TypeOK
    <3> QED BY <1>4, <2>2, <3>2 DEF Edit, TypeOK
  <2> QED BY <1>4, <2>1, <2>2 DEF Edit
<1>5. ASSUME NEW p \in Procs, OpenTmp(p) PROVE TypeOK'
  BY <1>5 DEF OpenTmp, TypeOK
<1>6. ASSUME NEW p \in Procs, WriteLine(p) PROVE TypeOK'
  BY <1>6 DEF WriteLine, TypeOK
<1>7. ASSUME NEW p \in Procs, Rename(p) PROVE TypeOK'
  BY <1>7, <1>r DEF Rename, TypeOK
<1>8. ASSUME NEW p \in Procs, Abort(p) PROVE TypeOK'
  BY <1>8, <1>r DEF Abort, TypeOK
<1>9. CASE UNCHANGED vars
  BY <1>9 DEF vars, TypeOK
<1> QED
  BY <1>1, <1>2, <1>3, <1>4, <1>5, <1>6, <1>7, <1>8, <1>9 DEF Next, Step

\* What a rename puts in place of the vault is its caller's edit of it.
LEMMA RenameEdits ==
  ASSUME IInv, NEW p \in Procs, Rename(p)
  PROVE  /\ req[p] \in Request /\ req[p].op # "list"
         /\ ~Refused(file, req[p])
         /\ file' = Edited(file, req[p])
<1>1. tmp = records[p]
  BY DEF IInv, TmpInv, Rename
<1>2. records[p] = Edited(file, req[p]) /\ ~Refused(file, req[p])
  BY DEF IInv, EditsCurrent, Rename
<1> QED BY <1>1, <1>2 DEF IInv, LockInv, TypeOK, Rename

\* The invariants are preserved by every step.
LEMMA InvStep == IInv /\ [Next]_vars => IInv'
<1> SUFFICES ASSUME IInv, [Next]_vars PROVE IInv'
  OBVIOUS
<1>t. TypeOK'
  BY TypeStep
<1> SUFFICES LockInv' /\ TmpInv' /\ EditsCurrent' /\ UniqueAliases'
  BY <1>t DEF IInv
<1> DEFINE Goal == LockInv' /\ TmpInv' /\ EditsCurrent' /\ UniqueAliases'
<1> USE DEF IInv
<1>r. ASSUME NEW p \in Procs, Release(p), UNCHANGED <<file, tmp>> PROVE Goal
  <2>1. LockInv' /\ TmpInv'
    BY <1>r, ReleaseKeeps
  <2>2. EditsCurrent' /\ UniqueAliases'
    BY <1>r DEF Release, EditsCurrent, UniqueAliases, TypeOK
  <2> QED BY <2>1, <2>2
<1>1. ASSUME NEW p \in Procs, Start(p) PROVE Goal
  BY <1>1 DEF Start, Call, TypeOK, LockInv, TmpInv, EditsCurrent, UniqueAliases
<1>2. ASSUME NEW p \in Procs, AcquireLock(p) PROVE Goal
  BY <1>2 DEF AcquireLock, TypeOK, LockInv, TmpInv, EditsCurrent, UniqueAliases
<1>3. ASSUME NEW p \in Procs, ReadAll(p) PROVE Goal
  <2>1. CASE req[p].op = "list"
    BY <1>3, <2>1, <1>r DEF ReadAll
  <2>2. CASE req[p].op # "list"
    BY <1>3, <2>2 DEF ReadAll, TypeOK, LockInv, TmpInv, EditsCurrent,
       UniqueAliases
  <2> QED BY <2>1, <2>2
<1>4. ASSUME NEW p \in Procs, Edit(p) PROVE Goal
  <2>1. CASE Release(p)
    BY <1>4, <2>1, <1>r DEF Edit
  <2>2. CASE ~Release(p)
    <3>1. /\ pc[p] = "edit" /\ ~Refused(records[p], req[p])
          /\ records'[p] = Edited(records[p], req[p])
          /\ pc'[p] = "open"
          /\ \A q \in Procs : q # p => pc'[q] = pc[q] /\ records'[q] = records[q]
          /\ UNCHANGED <<readers, writer, req, file, tmp>>
      BY <1>4, <2>2 DEF Edit, TypeOK
    <3>2. LockInv' /\ TmpInv' /\ UniqueAliases'
      BY <3>1 DEF LockInv, TmpInv, UniqueAliases
    <3>3. EditsCurrent'
      BY <3>1 DEF EditsCurrent
    <3> QED BY <3>2, <3>3
  <2> QED BY <2>1, <2>2
<1>5. ASSUME NEW p \in Procs, OpenTmp(p) PROVE Goal
  BY <1>5 DEF OpenTmp, TypeOK, LockInv, TmpInv, EditsCurrent, UniqueAliases
<1>6. ASSUME NEW p \in Procs, WriteLine(p) PROVE Goal
  BY <1>6 DEF WriteLine, TypeOK, LockInv, TmpInv, EditsCurrent, UniqueAliases
<1>7. ASSUME NEW p \in Procs, Rename(p) PROVE Goal
  <2>1. p \in writer /\ writer' = {}
    BY <1>7 DEF Rename, Release, LockInv
  <2>2. \A q \in Procs : pc'[q] \notin {"edit", "open", "write"}
    BY <1>7, <2>1 DEF Rename, Release, LockInv, TypeOK
  <2>3. LockInv'
    BY <1>7, <2>1, <2>2 DEF Rename, Release, LockInv, TypeOK
  <2>4. UniqueAliases'
    BY <1>7, RenameEdits, EditedCorrect DEF UniqueAliases, TypeOK
  <2> QED BY <2>2, <2>3, <2>4 DEF TmpInv, EditsCurrent
<1>8. ASSUME NEW p \in Procs, Abort(p) PROVE Goal
  BY <1>8, <1>r DEF Abort
<1>9. CASE UNCHANGED vars
  BY <1>9 DEF vars, LockInv, TmpInv, EditsCurrent, UniqueAliases
<1> QED
  BY <1>1, <1>2, <1>3, <1>4, <1>5, <1>6, <1>7, <1>8, <1>9 DEF Next, Step

\* IInv is an invariant of the store.
THEOREM Invariance == Spec => []IInv
<1>1. Init => IInv
  BY DEF Init, IInv, TypeOK, LockInv, TmpInv, EditsCurrent, UniqueAliases,
         Request
<1> QED BY <1>1, InvStep, PTL DEF Spec

\* Type correctness.
THEOREM TypeCorrect == Spec => []TypeOK
<1>1. IInv => TypeOK
  BY DEF IInv
<1> QED BY <1>1, Invariance, PTL

\* No alias ever has two records.
THEOREM Uniqueness == Spec => []UniqueAliases
<1>1. IInv => UniqueAliases
  BY DEF IInv
<1> QED BY <1>1, Invariance, PTL

\* No insert, update or delete is lost to a concurrent one.
THEOREM NoLostEdit == Spec => []EditsCurrent
<1>1. IInv => EditsCurrent
  BY DEF IInv
<1> QED BY <1>1, Invariance, PTL

-----------------------------------------------------------------------------
\* The map changes only when the vault file does.
LEMMA ContentsKept == ASSUME file' = file PROVE Contents' = Contents
BY DEF Contents

\* What is found where an alias has one record.
LEMMA FoundOne == ASSUME NEW x PROVE Found({x}) = x.body
<1>1. (CHOOSE y \in {x} : TRUE) = x
  OBVIOUS
<1> QED BY <1>1 DEF Found

LEMMA FoundNone == Found({}) = NoRecord
BY DEF Found

\* What the file says of an alias.
LEMMA ContentsOf ==
  ASSUME NEW a \in Aliases
  PROVE  /\ Of(file, a) = {} => Contents[a] = NoRecord
         /\ \A x : Of(file, a) = {x} => Contents[a] = x.body
<1>1. Contents[a] = Found(Of(file, a))
  BY DEF Contents
<1> QED BY <1>1, FoundOne, FoundNone

\* A rename is one abstract insert, update or delete.
LEMMA RenameSimulates ==
  ASSUME IInv, NEW p \in Procs, Rename(p)
  PROVE  Map!VaultNext
<1>u. file \in SUBSET Record /\ \A x, y \in file : x.alias = y.alias => x = y
  BY DEF IInv, TypeOK, UniqueAliases
<1>p. PICK r : r = req[p]
  OBVIOUS
<1>1. /\ r \in Request /\ r.op # "list" /\ ~Refused(file, r)
      /\ file' = Edited(file, r)
  BY <1>p, RenameEdits
<1>2. /\ r.alias \in Aliases /\ r.op \in {"insert", "update", "delete"}
      /\ r.op \in {"insert", "update"} =>
           /\ r.body \in Bodies
           /\ Of(file', r.alias) = {[alias |-> r.alias, body |-> r.body]}
      /\ r.op = "delete" => Of(file', r.alias) = {}
      /\ \A a \in Aliases : a # r.alias => Of(file', a) = Of(file, a)
  BY <1>1, <1>u, EditedCorrect
<1>0. \A a \in Aliases :
        Contents[a] = Found(Of(file, a)) /\ Contents'[a] = Found(Of(file', a))
  BY DEF Contents
<1>3. \A a \in Aliases : a # r.alias => Contents'[a] = Contents[a]
  BY <1>0, <1>2
<1>4. r.op \in {"insert", "update"} => Contents'[r.alias] = r.body
  <2> SUFFICES ASSUME r.op \in {"insert", "update"}
               PROVE  Contents'[r.alias] = r.body
    OBVIOUS
  <2>1. Contents'[r.alias] = Found({[alias |-> r.alias, body |-> r.body]})
    BY <1>0, <1>2
  <2> QED BY <2>1, FoundOne
<1>5. r.op = "delete" => Contents'[r.alias] = NoRecord
  BY <1>0, <1>2, FoundNone
<1>6. IF r.op = "insert" THEN Contents[r.alias] = NoRecord
                         ELSE Contents[r.alias] # NoRecord
  <2>1. CASE r.op = "insert"
    BY <1>1, <1>2, <2>1, ContentsOf DEF Refused
  <2>2. CASE r.op # "insert"
    <3>1. PICK x \in Of(file, r.alias) : Of(file, r.alias) = {x}
      BY <1>1, <2>2 DEF Refused, IInv, UniqueAliases, Of
    <3>2. x.body \in Bodies
      BY <3>1 DEF Of, IInv, TypeOK, Record
    <3> QED BY <1>2, <2>2, <3>1, <3>2, ContentsOf, VaultAssumption
  <2> QED BY <2>1, <2>2
<1>7. /\ Contents = [a \in Aliases |-> Contents[a]]
      /\ Contents' = [a \in Aliases |-> Contents'[a]]
  BY DEF Contents
<1>8. r.op \in {"insert", "update"} =>
        Contents' = [Contents EXCEPT ![r.alias] = r.body]
  BY <1>2, <1>3, <1>4, <1>7
<1>9. r.op = "delete" => Contents' = [Contents EXCEPT ![r.alias] = NoRecord]
  BY <1>2, <1>3, <1>5, <1>7
<1> QED
  BY <1>2, <1>6, <1>8, <1>9
  DEF Map!VaultNext, Map!Insert, Map!Update, Map!Delete

\* The store implements the atomic map.
THEOREM Refinement == Spec => ImplementsMap
<1>1. Init => Map!VaultInit
  <2>1. \A a : Of({}, a) = {}
    BY DEF Of
  <2> QED BY <2>1, FoundNone DEF Init, Map!VaultInit, Contents
<1>2. IInv /\ [Next]_vars => [Map!VaultNext]_Contents
  <2> SUFFICES ASSUME IInv, [Next]_vars, file' # file
               PROVE  Map!VaultNext
    BY ContentsKept
  <2>1. PICK p \in Procs : Rename(p)
    BY DEF Next, Start, Call, Step, AcquireLock, ReadAll, Edit, OpenTmp,
           WriteLine, Abort, vars
  <2> QED BY <2>1, RenameSimulates
<1> QED BY <1>1, <1>2, Invariance, PTL DEF Spec, ImplementsMap, Map!VaultSpec

-----------------------------------------------------------------------------
(***************************************************************************)
(* The keys beside the vault: what get_or_init returns.                    *)
(***************************************************************************)

NoFallback == \A p \in Calls : mode[p] # "ring"

\* Which steps a call in which environment takes, when none falls back.
KeyPlaces == \A p \in Calls :
  /\ at[p] \in {"get", "set"} => mode[p] # "file"
  /\ at[p] \in {"look", "read", "truncate", "write"} => mode[p] = "file"

\* A call that found the key in place keeps it there, for itself and for
\* everyone: whoever looks from now on reads, and nobody is about to write.
KeyStays == \A p \in Calls : settled[p] # Absent =>
  /\ keyFile = settled[p]
  /\ ~Making
  /\ mode[p] = "file" => got[p] \in {Absent, settled[p]}

KInv == KeyTypeOK /\ (NoFallback => KeyPlaces /\ KeyStays)

LEMMA KeyTypes ==
  ASSUME KeyTypeOK, [KeyNext]_keyVars
  PROVE  KeyTypeOK'
<1> USE KeyAssumption DEF KeyAssumption, Absent, Keys, Torn, KeyTypeOK, Return, Go
<1>1. CASE UNCHANGED keyVars
  BY <1>1 DEF keyVars
<1>2. ASSUME NEW p \in Calls, StartCall(p) PROVE KeyTypeOK'
  BY <1>2 DEF StartCall
<1>3. ASSUME NEW p \in Calls, Look(p) PROVE KeyTypeOK'
  BY <1>3 DEF Look, Generate
<1>4. ASSUME NEW p \in Calls, Read(p) \/ Truncate(p) \/ Write(p) PROVE KeyTypeOK'
  BY <1>4 DEF Read, Truncate, Write
<1>5. ASSUME NEW p \in Calls, RingGet(p) PROVE KeyTypeOK'
  BY <1>5 DEF RingGet, Generate
<1>6. ASSUME NEW p \in Calls, RingSet(p) \/ AbortCall(p) PROVE KeyTypeOK'
  BY <1>6 DEF RingSet, AbortCall
<1> QED
  BY <1>1, <1>2, <1>3, <1>4, <1>5, <1>6 DEF KeyNext, KeyStep

\* No call changes its environment.
LEMMA ModeKept ==
  ASSUME [KeyNext]_keyVars
  PROVE  mode' = mode
BY DEF KeyNext, KeyStep, keyVars, StartCall, Look, Generate, Go, Read, Return,
       Truncate, Write, RingGet, RingSet, AbortCall

LEMMA KeyPlacesKept ==
  ASSUME KeyTypeOK, NoFallback, KeyPlaces, [KeyNext]_keyVars
  PROVE  KeyPlaces'
<1> USE DEF KeyTypeOK, KeyPlaces, NoFallback, Return, Go
<1>1. CASE UNCHANGED keyVars
  BY <1>1 DEF keyVars
<1>2. ASSUME NEW p \in Calls, StartCall(p) PROVE KeyPlaces'
  BY <1>2 DEF StartCall
<1>3. ASSUME NEW p \in Calls, Look(p) \/ Read(p) \/ Truncate(p) \/ Write(p)
      PROVE  KeyPlaces'
  BY <1>3 DEF Look, Generate, Read, Truncate, Write
<1>4. ASSUME NEW p \in Calls, RingGet(p) \/ RingSet(p) \/ AbortCall(p) PROVE KeyPlaces'
  BY <1>4 DEF RingGet, Generate, RingSet, AbortCall
<1> QED
  BY <1>1, <1>2, <1>3, <1>4 DEF KeyNext, KeyStep

LEMMA KeyStaysKept ==
  ASSUME KeyTypeOK, NoFallback, KeyPlaces, KeyStays, [KeyNext]_keyVars
  PROVE  KeyStays'
<1> USE KeyAssumption
       DEF KeyAssumption, KeyTypeOK, KeyPlaces, KeyStays, NoFallback, Return, Go, Making,
           Absent, Keys, Torn
<1>1. CASE UNCHANGED keyVars
  BY <1>1 DEF keyVars
<1>2. ASSUME NEW p \in Calls, StartCall(p) PROVE KeyStays'
  BY <1>2 DEF StartCall
<1>3. ASSUME NEW p \in Calls, Look(p) PROVE KeyStays'
  BY <1>3 DEF Look, Generate
<1>4. ASSUME NEW p \in Calls, Read(p) \/ AbortCall(p) PROVE KeyStays'
  BY <1>4 DEF Read, AbortCall
<1>5. ASSUME NEW p \in Calls, Truncate(p) \/ Write(p) PROVE KeyStays'
  BY <1>5 DEF Truncate, Write
<1>6. ASSUME NEW p \in Calls, RingGet(p) \/ RingSet(p) PROVE KeyStays'
  BY <1>6 DEF RingGet, Generate, RingSet
<1> QED
  BY <1>1, <1>2, <1>3, <1>4, <1>5, <1>6 DEF KeyNext, KeyStep

\* Where no call falls back from the keyring to the file, every call that finds
\* a key in place and uses the file returns that key or fails (get_or_init).
THEOREM KeyIsSettled == KeySpec => []SettledKey
<1>1. KeyInit => KInv
  BY KeyAssumption
  DEF KeyAssumption, KeyInit, KInv, KeyTypeOK, Absent, Keys, Torn, KeyPlaces, KeyStays
<1>2. KInv /\ [KeyNext]_keyVars => KInv'
  <2> SUFFICES ASSUME KInv, [KeyNext]_keyVars PROVE KInv'
    OBVIOUS
  <2>1. NoFallback' => NoFallback
    BY ModeKept DEF NoFallback
  <2> QED BY <2>1, KeyTypes, KeyPlacesKept, KeyStaysKept DEF KInv
<1>3. KInv => SettledKey
  BY DEF KInv, NoFallback, KeyStays, SettledKey
<1> QED BY <1>1, <1>2, <1>3, PTL DEF KeySpec

-----------------------------------------------------------------------------
(***************************************************************************)
(* The log: the chain of its events verifies up to the first one cut       *)
(* short, and what was appended is listed.                                 *)
(***************************************************************************)

\* Induction, as the existence of a least element.
LEMMA Least ==
  ASSUME NEW T \in SUBSET Nat, T # {}
  PROVE  \E x \in T : \A y \in T : x <= y
<1> DEFINE R == {ss \in Nat \X Nat : ss[1] < ss[2]}
<1>1. IsWellFoundedOn(R, Nat)
  BY NatLessThanWellFounded, Zenon DEF OpToRel
<1>2. \A x, y \in Nat : y < x => <<y, x>> \in R
  OBVIOUS
<1> HIDE DEF R
<1>3. PICK x \in T : \A y \in T : ~ (<<y, x>> \in R)
  BY <1>1, WFMin, Zenon
<1>4. \A y \in T : ~(y < x)
  BY <1>2, <1>3
<1> QED BY <1>3, <1>4

\* Max is the largest element of a set of naturals with a bound.
LEMMA MaxIsLargest ==
  ASSUME NEW n \in Nat, NEW S \in SUBSET (0..n), S # {}
  PROVE  Max(S) \in S /\ \A y \in S : Max(S) >= y
<1> DEFINE T == {d \in 0..n : n - d \in S}
<1>1. \A y \in S : y \in 0..n /\ n - y \in 0..n /\ n - (n - y) = y
  OBVIOUS
<1>2. \A y \in S : n - y \in T
  BY <1>1, Zenon
<1>3. T \in SUBSET Nat /\ T # {}
  <2>1. T \in SUBSET Nat
    OBVIOUS
  <2> HIDE DEF T
  <2> QED BY <1>2, <2>1
<1>4. PICK d \in T : \A y \in T : d <= y
  BY <1>3, Least
<1>5. n - d \in S /\ d \in 0..n
  BY <1>4
<1> HIDE DEF T
<1>6. \A y \in S : d <= n - y
  BY <1>2, <1>4
<1>7. \A y \in S : n - d >= y
  BY <1>1, <1>5, <1>6
<1> QED BY <1>5, <1>7 DEF Max

Piece == Event \cup {Cut}

\* What a line yields: a part of it without a cut one, all of it if there is none.
LEMMA EventsOfLine ==
  ASSUME NEW line \in Seq(Piece)
  PROVE  /\ EventsFromLine(line) \in Seq(Event)
         /\ ~IsCut(line) => EventsFromLine(line) = line
<1> DEFINE good == {n \in 0..Len(line) : Cut \notin ToSet(SubSeq(line, 1, n))}
<1>1. 0 \in good /\ Len(line) \in Nat
  BY SubSeqEmpty DEF ToSet
<1>2. PICK m \in good : m = Max(good) /\ \A y \in good : m >= y
  BY <1>1, MaxIsLargest
<1>3. EventsFromLine(line) = SubSeq(line, 1, m)
  BY <1>2 DEF EventsFromLine
<1>4. m \in 0..Len(line) /\ Cut \notin ToSet(SubSeq(line, 1, m))
  BY <1>2
<1>s. \A n \in 0..Len(line) :
        /\ SubSeq(line, 1, n) \in Seq(Piece) /\ Len(SubSeq(line, 1, n)) = n
        /\ \A i \in 1..n : SubSeq(line, 1, n)[i] = line[i]
        /\ Cut \notin ToSet(SubSeq(line, 1, n)) <=> \A i \in 1..n : line[i] # Cut
  <2> SUFFICES ASSUME NEW n \in 0..Len(line)
               PROVE  LET s == SubSeq(line, 1, n)
                      IN  /\ s \in Seq(Piece) /\ Len(s) = n
                          /\ \A i \in 1..n : s[i] = line[i]
                          /\ Cut \notin ToSet(s) <=> \A i \in 1..n : line[i] # Cut
    BY Zenon
  <2> DEFINE s == SubSeq(line, 1, n)
  <2>1. s \in Seq(Piece) /\ Len(s) = n /\ \A i \in 1..n : s[i] = line[i]
    OBVIOUS
  <2> HIDE DEF s
  <2>2. DOMAIN s = 1..n
    BY <2>1
  <2>3. Cut \notin ToSet(s) <=> \A i \in 1..n : line[i] # Cut
    BY <2>1, <2>2 DEF ToSet
  <2> QED BY <2>1, <2>3 DEF s
<1>5. SubSeq(line, 1, m) \in Seq(Event)
  <2>1. \A i \in 1..m : line[i] \in Event
    BY <1>4, <1>s DEF Piece
  <2>2. \A i \in 1..m : SubSeq(line, 1, m)[i] \in Event
    BY <1>4, <1>s, <2>1
  <2> DEFINE s == SubSeq(line, 1, m)
  <2>3. s \in Seq(Piece) /\ Len(s) = m /\ \A i \in 1..m : s[i] \in Event
    BY <1>4, <1>s, <2>2
  <2> HIDE DEF s
  <2>4. s \in Seq(Event)
    BY <2>3
  <2> QED BY <2>4 DEF s
<1>6. ASSUME ~IsCut(line) PROVE SubSeq(line, 1, m) = line
  <2>1. \A i \in 1..Len(line) : line[i] # Cut
    BY <1>6 DEF IsCut, ToSet
  <2>2. Len(line) \in good
    BY <1>1, <1>s, <2>1
  <2>3. m = Len(line)
    BY <1>1, <1>2, <1>4, <2>2
  <2> QED BY <2>3
<1> QED BY <1>3, <1>5, <1>6

\* Nothing is cut short before the j-th piece of line i.
ClearBefore(lines, i, j) ==
  /\ \A g \in 1..(i - 1) : \A k \in 1..Len(lines[g]) : lines[g][k] # Cut
  /\ \A k \in 1..(j - 1) : lines[i][k] # Cut

\* The HMAC before it, when all of it is events.
Before(lines, i, j) ==
  CASE j > 1          -> lines[i][j - 1].hmac
    [] j = 1 /\ i > 1 -> lines[i - 1][Len(lines[i - 1])].hmac
    [] OTHER          -> NoHmac

\* Whatever is whole, with all before it, follows what is before it.
Linked(lines) == \A i \in 1..Len(lines) :
  /\ lines[i] # <<>>
  /\ \A j \in 1..Len(lines[i]) :
       ClearBefore(lines, i, j) /\ lines[i][j] # Cut
         => lines[i][j].prev_hmac = Before(lines, i, j)

\* now is old with x as its last piece, the b-th of line a.
Placed(old, now, a, b, x) ==
  /\ Len(now) = a /\ a >= 1 /\ Len(now[a]) = b /\ b >= 1 /\ now[a][b] = x
  /\ \A i \in 1..(a - 1) : i \in 1..Len(old) /\ now[i] = old[i]
  /\ \A k \in 1..(b - 1) : a \in 1..Len(old) /\ k \in 1..Len(old[a]) /\ now[a][k] = old[a][k]
  /\ \A i \in 1..Len(old) : i \in 1..a
  /\ a \in 1..Len(old) => Len(old[a]) <= b

LEMMA LinkedPlaced ==
  ASSUME NEW old \in Seq(Seq(Piece)), NEW now \in Seq(Seq(Piece)), NEW a \in Nat, NEW b \in Nat,
         NEW x \in Piece, Placed(old, now, a, b, x), Linked(old),
         ClearBefore(now, a, b) /\ x # Cut => x.prev_hmac = Before(now, a, b)
  PROVE  Linked(now)
<1> SUFFICES ASSUME NEW i \in 1..Len(now)
             PROVE  /\ now[i] # <<>>
                    /\ \A j \in 1..Len(now[i]) :
                         ClearBefore(now, i, j) /\ now[i][j] # Cut
                           => now[i][j].prev_hmac = Before(now, i, j)
  BY DEF Linked
<1>0. now[i] # <<>>
  <2>1. CASE i = a
    BY <2>1 DEF Placed
  <2>2. CASE i # a
    <3>1. i \in 1..Len(old) /\ now[i] = old[i]
      BY <2>2 DEF Placed
    <3> QED BY <3>1 DEF Linked
  <2> QED BY <2>1, <2>2
<1>1. SUFFICES ASSUME NEW j \in 1..Len(now[i]), ClearBefore(now, i, j), now[i][j] # Cut
               PROVE  now[i][j].prev_hmac = Before(now, i, j)
  BY <1>0
<1>2. CASE i = a /\ j = b
  BY <1>1, <1>2 DEF Placed
<1>3. CASE ~(i = a /\ j = b)
  <2>1. i \in 1..Len(old) /\ j \in 1..Len(old[i]) /\ now[i][j] = old[i][j]
    <3>1. CASE i = a
      BY <1>3, <3>1 DEF Placed
    <3>2. CASE i # a
      BY <3>2 DEF Placed
    <3> QED BY <3>1, <3>2
  <2>2. \A g \in 1..(i - 1) : now[g] = old[g]
    BY DEF Placed
  <2>3. \A k \in 1..(j - 1) : now[i][k] = old[i][k]
    BY <1>3 DEF Placed
  <2>4. ClearBefore(old, i, j)
    BY <1>1, <2>2, <2>3 DEF ClearBefore
  <2>5. Before(now, i, j) = Before(old, i, j)
    <3>0. i \in Nat /\ j \in Nat /\ i >= 1 /\ j >= 1
      BY <2>1
    <3>1. CASE j > 1
      <4>1. now[i][j - 1] = old[i][j - 1]
        BY <2>3, <3>0, <3>1
      <4> QED BY <3>0, <3>1, <4>1 DEF Before
    <3>2. CASE j = 1 /\ i > 1
      <4>1. now[i - 1] = old[i - 1]
        BY <2>2, <3>0, <3>2
      <4> QED BY <3>2, <4>1 DEF Before
    <3> QED BY <3>0, <3>1, <3>2 DEF Before
  <2> QED BY <1>1, <2>1, <2>4, <2>5 DEF Linked
<1> QED BY <1>2, <1>3

\* The pieces of old are in now, but for one that was cut short.
LEMMA KeptPlaced ==
  ASSUME NEW old \in Seq(Seq(Piece)), NEW now \in Seq(Seq(Piece)), NEW a \in Nat, NEW b \in Nat,
         NEW x \in Piece, Placed(old, now, a, b, x),
         NEW i \in 1..Len(old), NEW j \in 1..Len(old[i]),
         i = a /\ j = b => old[i][j] = Cut, old[i][j] # Cut
  PROVE  i \in 1..Len(now) /\ j \in 1..Len(now[i]) /\ now[i][j] = old[i][j]
<1>1. i \in 1..a /\ ~(i = a /\ j = b)
  BY DEF Placed
<1>2. CASE i < a
  BY <1>1, <1>2 DEF Placed
<1>3. CASE i = a
  <2>1. j \in 1..(b - 1)
    BY <1>1, <1>3 DEF Placed
  <2> QED BY <1>1, <1>3, <2>1 DEF Placed
<1> QED BY <1>1, <1>2, <1>3

\* What Front keeps, and what a last element put behind it gives.
LEMMA Refit ==
  ASSUME NEW S, NEW s \in Seq(S), s # <<>>, NEW x \in S
  PROVE  /\ Append(Front(s), x) \in Seq(S) /\ Len(Append(Front(s), x)) = Len(s)
         /\ Append(Front(s), x)[Len(s)] = x
         /\ \A i \in 1..(Len(s) - 1) : Append(Front(s), x)[i] = s[i]
<1> DEFINE f == SubSeq(s, 1, Len(s) - 1)
           r == Append(f, x)
<1>1. Len(s) \in Nat /\ Len(s) >= 1
  OBVIOUS
<1>2. f \in Seq(S) /\ Len(f) = Len(s) - 1 /\ \A i \in 1..(Len(s) - 1) : f[i] = s[i]
  <2>1. PICK n \in Nat : n = Len(s) - 1
    BY <1>1
  <2>2. /\ SubSeq(s, 1, n) \in Seq(S) /\ Len(SubSeq(s, 1, n)) = n
        /\ \A i \in 1..n : SubSeq(s, 1, n)[i] = s[i]
    BY <1>1, <2>1, SubSeqProperties
  <2> QED BY <2>1, <2>2
<1>3. Front(s) = f
  BY DEF Front
<1> HIDE DEF f
<1>4. r \in Seq(S) /\ Len(r) = Len(s) /\ r[Len(s)] = x
      /\ \A i \in 1..(Len(s) - 1) : r[i] = f[i]
  BY <1>1, <1>2, AppendProperties
<1> HIDE DEF r
<1>5. \A i \in 1..(Len(s) - 1) : r[i] = s[i]
  BY <1>2, <1>4
<1> QED BY <1>3, <1>4, <1>5 DEF r

LEMMA RefitConcat ==
  ASSUME NEW S, NEW s \in Seq(S), s # <<>>, NEW x \in S
  PROVE  Front(s) \o <<x>> = Append(Front(s), x)
<1> DEFINE f == SubSeq(s, 1, Len(s) - 1)
<1>1. PICK n \in Nat : n = Len(s) - 1
  OBVIOUS
<1>2. SubSeq(s, 1, n) \in Seq(S)
  BY <1>1, SubSeqProperties
<1>3. f \in Seq(S)
  BY <1>1, <1>2
<1>4. Front(s) = f
  BY DEF Front
<1> HIDE DEF f
<1> QED BY <1>3, <1>4, AppendIsConcat

\* A write puts its piece at the end: in a line of its own, or in one that no
\* newline has ended.
LEMMA WrittenPlaces ==
  ASSUME NEW x \in Piece, log \in Seq(Seq(Piece)), ended \in BOOLEAN, log = <<>> => ended
  PROVE  /\ Written(x) \in Seq(Seq(Piece))
         /\ ended => Placed(log, Written(x), Len(log) + 1, 1, x)
         /\ ~ended => Placed(log, Written(x), Len(log), Len(log[Len(log)]) + 1, x)
<1>1. CASE ended
  <2>1. <<x>> \in Seq(Piece) /\ Len(<<x>>) = 1 /\ <<x>>[1] = x
    OBVIOUS
  <2> DEFINE l == <<x>>
             now == Append(log, l)
  <2> HIDE DEF l
  <2>2. now \in Seq(Seq(Piece)) /\ Len(now) = Len(log) + 1 /\ now[Len(log) + 1] = l
        /\ \A i \in 1..Len(log) : now[i] = log[i]
    BY <2>1, AppendProperties DEF l
  <2>3. Written(x) = now
    BY <1>1 DEF Written, l
  <2> HIDE DEF now
  <2>4. l \in Seq(Piece) /\ Len(l) = 1 /\ l[1] = x
    BY <2>1 DEF l
  <2> QED BY <1>1, <2>2, <2>3, <2>4 DEF Placed
<1>2. CASE ~ended
  <2> DEFINE n == Len(log)
             l == Append(log[n], x)
             now == Front(log) \o <<l>>
  <2>1. n \in Nat /\ n >= 1 /\ log[n] \in Seq(Piece) /\ log # <<>>
    BY <1>2
  <2>2. l \in Seq(Piece) /\ Len(l) = Len(log[n]) + 1 /\ l[Len(log[n]) + 1] = x
        /\ \A k \in 1..Len(log[n]) : l[k] = log[n][k]
    BY <2>1, AppendProperties
  <2>3. Written(x) = now
    BY <1>2 DEF Written, Last
  <2> HIDE DEF l
  <2>4. now \in Seq(Seq(Piece)) /\ Len(now) = n /\ now[n] = l
        /\ \A i \in 1..(n - 1) : now[i] = log[i]
    BY <2>1, <2>2, Refit, RefitConcat
  <2> HIDE DEF now
  <2>5. Len(log[n]) \in Nat
    BY <2>1
  <2> QED BY <1>2, <2>1, <2>2, <2>3, <2>4, <2>5 DEF Placed
<1> QED BY <1>1, <1>2

\* The rest of a write takes the place of what was cut short.
LEMMA CompletedPlaces ==
  ASSUME NEW x \in Piece, log \in Seq(Seq(Piece)), log # <<>>, log[Len(log)] # <<>>
  PROVE  /\ Completed(x) \in Seq(Seq(Piece))
         /\ Placed(log, Completed(x), Len(log), Len(log[Len(log)]), x)
<1> DEFINE n == Len(log)
           m == Len(log[n])
           l == Append(Front(log[n]), x)
           now == Front(log) \o <<l>>
<1>1. n \in Nat /\ n >= 1 /\ log[n] \in Seq(Piece) /\ m \in Nat /\ m >= 1
  OBVIOUS
<1>2. Completed(x) = now
  BY DEF Completed, Last
<1>3. l \in Seq(Piece) /\ Len(l) = m /\ l[m] = x /\ \A k \in 1..(m - 1) : l[k] = log[n][k]
  <2>1. PICK s \in Seq(Piece) : s = log[n] /\ s # <<>>
    BY <1>1
  <2>2. /\ Append(Front(s), x) \in Seq(Piece) /\ Len(Append(Front(s), x)) = Len(s)
        /\ Append(Front(s), x)[Len(s)] = x
        /\ \A i \in 1..(Len(s) - 1) : Append(Front(s), x)[i] = s[i]
    BY <2>1, Refit
  <2> QED BY <2>1, <2>2
<1> HIDE DEF l
<1>4. now \in Seq(Seq(Piece)) /\ Len(now) = n /\ now[n] = l
      /\ \A i \in 1..(n - 1) : now[i] = log[i]
  BY <1>3, Refit, RefitConcat
<1> HIDE DEF now
<1> QED BY <1>1, <1>2, <1>3, <1>4 DEF Placed

\* The HMAC of the last event, when there is one.
Tip(lines) == IF lines = <<>> THEN NoHmac
              ELSE lines[Len(lines)][Len(lines[Len(lines)])].hmac

AllWhole(lines) == \A i \in 1..Len(lines) : ~IsCut(lines[i])

\* The file handle is the lock's.
LockHeld == \A p \in Appenders : stage[p] \notin {"idle", "lock"} => locked = {p}

\* The last piece is the holder's, from the first write to the last.
LastIsOwn ==
  /\ log = <<>> => ended
  /\ \A p \in Appenders :
       /\ stage[p] \in {"half", "newline", "sync"} => log # <<>>
       /\ stage[p] = "half" => Last(Last(log)) = Cut
       /\ stage[p] \in {"newline", "sync"} => Last(Last(log)) # Cut

\* What the holder has read is what its event is to follow, unless something
\* before it is cut short.
PrevFits == \A p \in Appenders :
  /\ stage[p] = "write" /\ AllWhole(log) => prev[p] = Tip(log)
  /\ stage[p] = "half" /\ ClearBefore(log, Len(log), Len(log[Len(log)]))
       => prev[p] = Before(log, Len(log), Len(log[Len(log)]))

\* What was appended stays in the log.
InLog == \A h \in appended : \E i \in 1..Len(log) : \E j \in 1..Len(log[i]) :
  log[i][j].hmac = h

LogInv == LogTypeOK /\ LockHeld /\ Linked(log) /\ LastIsOwn /\ PrevFits /\ InLog

LEMMA LogInitInv == ASSUME LogAssumption, LogInit PROVE LogInv
<1>1. LogTypeOK
  BY DEF LogAssumption, LogInit, LogTypeOK, NoHmac
<1>2. Linked(log) /\ InLog
  BY DEF LogInit, Linked, InLog
<1> QED BY <1>1, <1>2 DEF LogInit, LogInv, LockHeld, LastIsOwn, PrevFits

\* Only the holder is past the lock.
LEMMA Alone ==
  ASSUME LockHeld, NEW p \in Appenders, stage[p] \notin {"idle", "lock"}
  PROVE  locked = {p} /\ \A q \in Appenders : q # p => stage[q] \in {"idle", "lock"}
BY DEF LockHeld

\* The last line is one of pieces, and has one.
LEMMA LastLine ==
  ASSUME LogTypeOK, Linked(log), log # <<>>
  PROVE  /\ Len(log) \in Nat /\ Len(log) >= 1
         /\ log[Len(log)] \in Seq(Piece) /\ log[Len(log)] # <<>>
BY DEF LogTypeOK, Piece, Linked

\* The last event of the last line, if all lines are whole.
LEMMA LastHmacIsTip ==
  ASSUME LogAssumption, LogTypeOK, Linked(log)
  PROVE  LastHmac \in 0..MaxEvents /\ (AllWhole(log) => LastHmac = Tip(log))
<1>1. CASE log = <<>>
  BY <1>1 DEF LastHmac, Tip, NoHmac, LogAssumption
<1>2. CASE log # <<>>
  <2> DEFINE n == Len(log)
             found == EventsFromLine(log[n])
  <2>1. n \in Nat /\ n >= 1 /\ log[n] \in Seq(Piece) /\ log[n] # <<>>
    BY <1>2, LastLine
  <2>2. found \in Seq(Event) /\ (~IsCut(log[n]) => found = log[n])
    BY <2>1, EventsOfLine
  <2>3. LastHmac = IF found = <<>> THEN NoHmac ELSE found[Len(found)].hmac
    BY <1>2 DEF LastHmac, Last
  <2> HIDE DEF found
  <2>4. LastHmac \in 0..MaxEvents
    <3>1. CASE found = <<>>
      BY <2>3, <3>1 DEF NoHmac, LogAssumption
    <3>2. CASE found # <<>>
      <4>1. found[Len(found)] \in Event
        BY <2>2, <3>2
      <4> QED BY <2>3, <3>2, <4>1 DEF Event
    <3> QED BY <3>1, <3>2
  <2>5. AllWhole(log) => LastHmac = Tip(log)
    BY <1>2, <2>1, <2>2, <2>3 DEF AllWhole, Tip
  <2> QED BY <2>4, <2>5
<1> QED BY <1>1, <1>2

\* Steps that leave the log alone.
LEMMA LogQuietSteps ==
  ASSUME LogAssumption, LogInv, NEW p \in Appenders,
         Open(p) \/ Lock(p) \/ ReadLast(p) \/ WriteNewline(p) \/ Fail(p)
  PROVE  LogInv'
<1> USE DEF Goto, Close
<1>0. LogTypeOK /\ LockHeld /\ Linked(log) /\ LastIsOwn /\ PrevFits /\ InLog
  BY DEF LogInv
<1>1. log' = log /\ appended' = appended
  BY DEF Open, Lock, ReadLast, WriteNewline, Fail
<1>2. Linked(log)' /\ InLog'
  BY <1>0, <1>1 DEF Linked, InLog, ClearBefore, Before
<1>3. CASE Open(p)
  BY <1>0, <1>2, <1>3 DEF Open, LogInv, LogTypeOK, LockHeld, LastIsOwn, PrevFits
<1>4. CASE Lock(p)
  <2>1. \A q \in Appenders : stage[q] \in {"idle", "lock"}
    BY <1>0, <1>4 DEF Lock, LockHeld
  <2> QED BY <1>0, <1>2, <1>4, <2>1 DEF Lock, LogInv, LogTypeOK, LockHeld, LastIsOwn, PrevFits
<1>5. CASE ReadLast(p)
  <2>1. \A q \in Appenders : q # p => stage[q] \in {"idle", "lock"}
    BY <1>0, <1>5, Alone DEF ReadLast
  <2>2. LastHmac \in 0..MaxEvents /\ (AllWhole(log) => LastHmac = Tip(log))
    BY <1>0, LastHmacIsTip
  <2>3. LogTypeOK' /\ LockHeld' /\ LastIsOwn'
    BY <1>0, <1>5, <2>2 DEF ReadLast, LogTypeOK, LockHeld, LastIsOwn
  <2>4. PrevFits'
    BY <1>0, <1>5, <2>1, <2>2 DEF ReadLast, LogTypeOK, PrevFits
  <2> QED BY <1>2, <2>3, <2>4 DEF LogInv
<1>6. CASE WriteNewline(p)
  BY <1>0, <1>2, <1>6 DEF WriteNewline, LogInv, LogTypeOK, LockHeld, LastIsOwn, PrevFits
<1>7. CASE Fail(p)
  BY <1>0, <1>2, <1>7 DEF Fail, LogInv, LogTypeOK, LockHeld, LastIsOwn, PrevFits, NoHmac,
    LogAssumption
<1> QED BY <1>3, <1>4, <1>5, <1>6, <1>7

LEMMA SyncKeeps ==
  ASSUME LogAssumption, LogInv, NEW p \in Appenders, SyncAndUnlock(p)
  PROVE  LogInv'
<1> USE DEF Goto, Close
<1>0. LogTypeOK /\ LockHeld /\ Linked(log) /\ LastIsOwn /\ PrevFits /\ InLog
  BY DEF LogInv
<1> DEFINE n == Len(log)
           m == Len(log[n])
<1>1. n \in 1..Len(log) /\ m \in 1..Len(log[n]) /\ log[n][m] \in Event
      /\ Last(Last(log)) = log[n][m]
  <2>1. log # <<>> /\ Last(Last(log)) # Cut
    BY <1>0 DEF SyncAndUnlock, LastIsOwn
  <2>2. n \in Nat /\ n >= 1 /\ log[n] \in Seq(Piece) /\ log[n] # <<>>
    BY <1>0, <2>1, LastLine
  <2>3. m \in 1..Len(log[n]) /\ log[n][m] \in Piece
    BY <2>2
  <2> QED BY <2>1, <2>2, <2>3 DEF Last, Piece
<1>2. log' = log /\ appended' = appended \cup {log[n][m].hmac}
  BY <1>1 DEF SyncAndUnlock
<1>3. Linked(log)'
  BY <1>0, <1>2 DEF Linked, ClearBefore, Before
<1>4. InLog'
  BY <1>0, <1>1, <1>2 DEF InLog
<1>5. log[n][m].hmac \in 1..MaxEvents
  BY <1>1 DEF Event
<1> HIDE DEF n, m
<1>6. LogTypeOK'
  <2>1. log' \in Seq(Seq(Event \cup {Cut})) /\ appended' \subseteq 1..MaxEvents
    BY <1>0, <1>2, <1>5 DEF LogTypeOK
  <2> QED BY <1>0, <2>1 DEF SyncAndUnlock, LogTypeOK, NoHmac, LogAssumption
<1>8. LockHeld'
  BY <1>0 DEF SyncAndUnlock, LogTypeOK, LockHeld
<1>7. LastIsOwn' /\ PrevFits'
  BY <1>0 DEF SyncAndUnlock, LogTypeOK, LastIsOwn, PrevFits
<1> QED BY <1>3, <1>4, <1>6, <1>7, <1>8 DEF LogInv

\* What a write does to the chain: it gets a piece that is cut short, or an
\* event that follows the tip.
LEMMA WriteLinks ==
  ASSUME LogTypeOK, Linked(log), LastIsOwn, NEW x \in Piece,
         x # Cut /\ AllWhole(log) => x.prev_hmac = Tip(log)
  PROVE  \E a, b \in Nat :
           /\ Placed(log, Written(x), a, b, x) /\ Linked(Written(x))
           /\ Written(x) \in Seq(Seq(Piece))
           /\ a \in 1..Len(log) => b > Len(log[a])
           /\ ClearBefore(Written(x), a, b) =>
                AllWhole(log) /\ Before(Written(x), a, b) = Tip(log)
<1> DEFINE now == Written(x)
           n == Len(log)
           a == IF ended THEN n + 1 ELSE n
           b == IF ended THEN 1 ELSE Len(log[n]) + 1
<1>1. log \in Seq(Seq(Piece)) /\ ended \in BOOLEAN /\ (log = <<>> => ended) /\ n \in Nat
  BY DEF LogTypeOK, Piece, LastIsOwn
<1>2. now \in Seq(Seq(Piece)) /\ Placed(log, now, a, b, x)
  BY <1>1, WrittenPlaces
<1>3. ~ended => n >= 1 /\ Len(log[n]) \in Nat /\ Len(log[n]) >= 1
  BY <1>1, LastLine
<1>4. a \in Nat /\ b \in Nat /\ (a \in 1..n => b > Len(log[a]))
  BY <1>1, <1>3
<1> HIDE DEF now
<1>5. ASSUME ClearBefore(now, a, b) PROVE AllWhole(log) /\ Before(now, a, b) = Tip(log)
  <2>1. \A i \in 1..n : \A k \in 1..Len(log[i]) : log[i][k] # Cut
    <3>1. CASE ended
      BY <1>1, <1>2, <1>5, <3>1 DEF ClearBefore, Placed
    <3>2. CASE ~ended
      <4>1. a = n /\ b - 1 = Len(log[n])
        BY <1>3, <3>2
      <4>2. \A i \in 1..(n - 1) : \A k \in 1..Len(log[i]) : log[i][k] # Cut
        BY <1>1, <1>2, <1>5, <4>1 DEF ClearBefore, Placed
      <4>3. \A k \in 1..Len(log[n]) : log[n][k] # Cut
        BY <1>1, <1>2, <1>3, <1>5, <3>2, <4>1 DEF ClearBefore, Placed
      <4>4. \A i \in 1..n : i = n \/ i \in 1..(n - 1)
        BY <1>1
      <4> HIDE DEF n
      <4> QED BY <4>2, <4>3, <4>4, Zenon
    <3> QED BY <1>1, <3>1, <3>2
  <2>2. \A i \in 1..n : log[i] \in Seq(Piece)
    BY <1>1
  <2>3. AllWhole(log)
    BY <2>1, <2>2 DEF AllWhole, IsCut, ToSet
  <2>4. Before(now, a, b) = Tip(log)
    <3>1. CASE ended /\ n = 0
      BY <1>1, <3>1 DEF Before, Tip
    <3>2. CASE ended /\ n >= 1
      <4>1. now[n] = log[n] /\ log # <<>>
        BY <1>1, <1>2, <3>2 DEF Placed
      <4> QED BY <1>1, <3>2, <4>1 DEF Before, Tip
    <3>3. CASE ~ended
      <4>0. a = n /\ b - 1 = Len(log[n]) /\ Len(log[n]) \in 1..(b - 1)
        BY <1>3, <3>3
      <4>1. now[n][b - 1] = log[n][Len(log[n])] /\ log # <<>>
        BY <1>1, <1>2, <1>3, <4>0 DEF Placed
      <4> QED BY <1>1, <1>3, <3>3, <4>1 DEF Before, Tip
    <3> QED BY <1>1, <3>1, <3>2, <3>3
  <2> QED BY <2>3, <2>4
<1> HIDE DEF a, b
<1>6. Linked(now)
  BY <1>1, <1>2, <1>4, <1>5, LinkedPlaced
<1> QED BY <1>2, <1>4, <1>5, <1>6 DEF now, n

LEMMA InLogPlaced ==
  ASSUME LogTypeOK, InLog, log' \in Seq(Seq(Piece)), appended' = appended,
         NEW a \in Nat, NEW b \in Nat, NEW x \in Piece, Placed(log, log', a, b, x),
         a \in 1..Len(log) /\ b \in 1..Len(log[a]) => log[a][b] = Cut
  PROVE  InLog'
<1> SUFFICES ASSUME NEW h \in appended
             PROVE  \E i \in 1..Len(log') : \E j \in 1..Len(log'[i]) : log'[i][j].hmac = h
  BY DEF InLog
<1>1. PICK i \in 1..Len(log) : \E j \in 1..Len(log[i]) : log[i][j].hmac = h
  BY DEF InLog
<1>2. PICK j \in 1..Len(log[i]) : log[i][j].hmac = h
  BY <1>1
<1>3. log[i][j] # Cut
  BY <1>2 DEF Cut, LogTypeOK
<1>4. log \in Seq(Seq(Piece))
  BY DEF LogTypeOK, Piece
<1>5. i = a /\ j = b => log[i][j] = Cut
  BY <1>2
<1>6. i \in 1..Len(log') /\ j \in 1..Len(log'[i]) /\ log'[i][j] = log[i][j]
  BY <1>2, <1>3, <1>4, <1>5, KeptPlaced, SMT
<1> QED BY <1>2, <1>6

LEMMA WriteEventKeeps ==
  ASSUME LogAssumption, LogInv, NEW p \in Appenders, WriteEvent(p)
  PROVE  LogInv'
<1>0. LogTypeOK /\ LockHeld /\ Linked(log) /\ LastIsOwn /\ PrevFits /\ InLog
  BY DEF LogInv
<1>1. \A q \in Appenders : q # p => stage[q] \in {"idle", "lock"}
  BY <1>0, Alone DEF WriteEvent
<1>2. PICK x \in Piece :
        /\ log' = Written(x)
        /\ x # Cut /\ AllWhole(log) => x.prev_hmac = Tip(log)
        /\ \/ x # Cut /\ Goto(p, "newline") /\ events' = events + 1 /\ UNCHANGED tears
           \/ x = Cut /\ Goto(p, "half") /\ tears' = tears + 1 /\ tears < MaxTears
              /\ UNCHANGED events
  <2>1. CASE log' = Written(Cut)
        /\ Goto(p, "half") /\ tears' = tears + 1 /\ tears < MaxTears /\ UNCHANGED events
    BY <2>1 DEF Piece
  <2>2. CASE /\ log' = Written([hmac |-> events + 1, prev_hmac |-> prev[p]])
             /\ Goto(p, "newline") /\ events' = events + 1 /\ UNCHANGED tears
    <3> DEFINE x == [hmac |-> events + 1, prev_hmac |-> prev[p]]
    <3>1. x \in Event /\ x.hmac # 0
      BY <1>0 DEF WriteEvent, LogTypeOK, Event, LogAssumption
    <3>2. x # Cut /\ x \in Piece
      BY <3>1 DEF Cut, Piece
    <3>3. AllWhole(log) => x.prev_hmac = Tip(log)
      BY <1>0 DEF WriteEvent, PrevFits
    <3> HIDE DEF x
    <3>4. log' = Written(x)
      BY <2>2 DEF x
    <3> QED BY <2>2, <3>2, <3>3, <3>4
  <2> QED BY <2>1, <2>2 DEF WriteEvent
<1>3. PICK a, b \in Nat :
        /\ Placed(log, log', a, b, x) /\ Linked(log') /\ log' \in Seq(Seq(Piece))
        /\ a \in 1..Len(log) => b > Len(log[a])
        /\ ClearBefore(log', a, b) => AllWhole(log) /\ Before(log', a, b) = Tip(log)
  BY <1>0, <1>2, WriteLinks
<1>4. /\ locked' = locked /\ prev' = prev /\ appended' = appended /\ ended' = FALSE
      /\ events < MaxEvents /\ stage[p] = "write"
  BY DEF WriteEvent
<1>5. /\ log' # <<>> /\ Last(Last(log')) = x
      /\ a = Len(log') /\ b = Len(log'[a])
  BY <1>3 DEF Placed, Last
<1>6. LogTypeOK'
  <2>1. log' \in Seq(Seq(Event \cup {Cut}))
    BY <1>3 DEF Piece
  <2>2. events' \in 0..MaxEvents /\ tears' \in 0..MaxTears
    BY <1>0, <1>2, <1>4 DEF LogTypeOK, LogAssumption
  <2>3. stage' \in [Appenders -> {"idle", "lock", "read", "write", "half", "newline", "sync"}]
    BY <1>0, <1>2 DEF LogTypeOK, Goto
  <2> QED BY <1>0, <1>4, <2>1, <2>2, <2>3 DEF LogTypeOK
<1>7. LockHeld'
  BY <1>0, <1>2, <1>4 DEF LogTypeOK, LockHeld, Goto
<1>8. Linked(log)'
  BY <1>3 DEF Linked, ClearBefore, Before
<1>9. LastIsOwn'
  BY <1>0, <1>1, <1>2, <1>5 DEF LogTypeOK, LastIsOwn, Goto
<1>10. PrevFits'
  <2>1. stage' = [stage EXCEPT ![p] = "newline"] \/ stage' = [stage EXCEPT ![p] = "half"]
    BY <1>2 DEF Goto
  <2>2. \A q \in Appenders : stage'[q] # "write" /\ (stage'[q] = "half" => q = p)
    BY <1>0, <1>1, <2>1 DEF LogTypeOK
  <2>3. ClearBefore(log', a, b) => prev'[p] = Before(log', a, b)
    BY <1>0, <1>3, <1>4 DEF PrevFits
  <2>4. ClearBefore(log', Len(log'), Len(log'[Len(log')])) =>
          prev'[p] = Before(log', Len(log'), Len(log'[Len(log')]))
    BY <1>5, <2>3
  <2> QED BY <2>2, <2>4 DEF PrevFits, ClearBefore, Before
<1>11. InLog'
  <2>1. ~(a \in 1..Len(log) /\ b \in 1..Len(log[a]))
    BY <1>3
  <2> QED BY <1>0, <1>3, <1>4, <2>1, InLogPlaced
<1> QED BY <1>6, <1>7, <1>8, <1>9, <1>10, <1>11 DEF LogInv

LEMMA WriteRestKeeps ==
  ASSUME LogAssumption, LogInv, NEW p \in Appenders, WriteRest(p)
  PROVE  LogInv'
<1>0. LogTypeOK /\ LockHeld /\ Linked(log) /\ LastIsOwn /\ PrevFits /\ InLog
  BY DEF LogInv
<1>1. \A q \in Appenders : q # p => stage[q] \in {"idle", "lock"}
  BY <1>0, Alone DEF WriteRest
<1> DEFINE x == [hmac |-> events + 1, prev_hmac |-> prev[p]]
           a == Len(log)
           b == Len(log[a])
<1>2. x \in Event /\ x.hmac # 0 /\ x.prev_hmac = prev[p]
  BY <1>0 DEF WriteRest, LogTypeOK, Event, LogAssumption
<1>3. x # Cut /\ x \in Piece
  BY <1>2 DEF Cut, Piece
<1>4. log' = Completed(x)
  BY DEF WriteRest
<1> HIDE DEF x
<1>5. /\ log # <<>> /\ a \in Nat /\ a >= 1 /\ log[a] \in Seq(Piece) /\ log[a] # <<>>
      /\ b \in Nat /\ b >= 1 /\ log[a][b] = Cut /\ log \in Seq(Seq(Piece))
  <2>1. log # <<>> /\ Last(Last(log)) = Cut
    BY <1>0 DEF WriteRest, LastIsOwn
  <2>2. a \in Nat /\ a >= 1 /\ log[a] \in Seq(Piece) /\ log[a] # <<>>
    BY <1>0, <2>1, LastLine
  <2>3. b \in Nat /\ b >= 1
    BY <2>2
  <2> QED BY <1>0, <2>1, <2>2, <2>3 DEF Last, LogTypeOK, Piece
<1>6. log' \in Seq(Seq(Piece)) /\ Placed(log, log', a, b, x)
  BY <1>3, <1>4, <1>5, CompletedPlaces
<1>7. /\ locked' = locked /\ prev' = prev /\ appended' = appended /\ ended' = ended
      /\ events' = events + 1 /\ tears' = tears
      /\ events < MaxEvents /\ stage[p] = "half" /\ Goto(p, "newline")
  BY DEF WriteRest
<1> HIDE DEF a, b
<1>8. ClearBefore(log', a, b) => x.prev_hmac = Before(log', a, b)
  <2> SUFFICES ASSUME ClearBefore(log', a, b) PROVE x.prev_hmac = Before(log', a, b)
    OBVIOUS
  <2>1. \A i \in 1..(a - 1) : log'[i] = log[i]
    BY <1>6 DEF Placed
  <2>2. \A k \in 1..(b - 1) : log'[a][k] = log[a][k]
    BY <1>6 DEF Placed
  <2>3. ClearBefore(log, a, b)
    BY <2>1, <2>2 DEF ClearBefore
  <2>4. prev[p] = Before(log, a, b)
    BY <1>0, <1>7, <2>3 DEF PrevFits, a, b
  <2>5. Before(log', a, b) = Before(log, a, b)
    <3>1. CASE b > 1
      <4>1. log'[a][b - 1] = log[a][b - 1]
        BY <1>5, <2>2, <3>1
      <4> QED BY <1>5, <3>1, <4>1 DEF Before
    <3>2. CASE b = 1 /\ a > 1
      <4>1. log'[a - 1] = log[a - 1]
        BY <1>5, <2>1, <3>2
      <4> QED BY <3>2, <4>1 DEF Before
    <3> QED BY <1>5, <3>1, <3>2 DEF Before
  <2> QED BY <1>2, <2>4, <2>5
<1>9. Linked(log') /\ Len(log') = a
  <2>1. Linked(log')
    BY <1>0, <1>3, <1>5, <1>6, <1>8, LinkedPlaced, Zenon
  <2> QED BY <1>6, <2>1 DEF Placed
<1>10. log' # <<>> /\ Last(Last(log')) = x
  BY <1>5, <1>6 DEF Placed, Last
<1>11. LogTypeOK'
  <2>1. log' \in Seq(Seq(Event \cup {Cut}))
    BY <1>6 DEF Piece
  <2> QED BY <1>0, <1>7, <2>1 DEF LogTypeOK, Goto, LogAssumption
<1>12. LockHeld'
  BY <1>0, <1>7 DEF LogTypeOK, LockHeld, Goto
<1>13. Linked(log)'
  BY <1>9 DEF Linked, ClearBefore, Before
<1>14. LastIsOwn'
  BY <1>0, <1>1, <1>3, <1>7, <1>10 DEF LogTypeOK, LastIsOwn, Goto
<1>15. PrevFits'
  <2>1. \A q \in Appenders : stage'[q] \notin {"write", "half"}
    BY <1>0, <1>1, <1>7 DEF LogTypeOK, Goto
  <2> QED BY <2>1 DEF PrevFits
<1>16. InLog'
  BY <1>0, <1>3, <1>5, <1>6, <1>7, InLogPlaced
<1> QED BY <1>11, <1>12, <1>13, <1>14, <1>15, <1>16 DEF LogInv

LEMMA LogNextInv == ASSUME LogAssumption, LogInv, [LogNext]_logVars PROVE LogInv'
<1>1. ASSUME NEW p \in Appenders, WriteEvent(p) PROVE LogInv'
  BY <1>1, WriteEventKeeps
<1>2. ASSUME NEW p \in Appenders, WriteRest(p) PROVE LogInv'
  BY <1>2, WriteRestKeeps
<1>3. ASSUME NEW p \in Appenders, SyncAndUnlock(p) PROVE LogInv'
  BY <1>3, SyncKeeps
<1>4. ASSUME NEW p \in Appenders,
             Open(p) \/ Lock(p) \/ ReadLast(p) \/ WriteNewline(p) \/ Fail(p)
      PROVE  LogInv'
  BY <1>4, LogQuietSteps
<1>5. CASE UNCHANGED logVars
  BY <1>5 DEF logVars, LogInv, LogTypeOK, LockHeld, Linked, ClearBefore, Before, LastIsOwn,
     PrevFits, AllWhole, IsCut, Tip, InLog
<1> QED BY <1>1, <1>2, <1>3, <1>4, <1>5 DEF LogNext

THEOREM LogInvariance == LogSpec => []LogInv
<1>1. LogInit => LogInv
  BY LogAssumption, LogInitInv
<1>2. LogInv /\ [LogNext]_logVars => LogInv'
  BY LogAssumption, LogNextInv
<1> QED BY <1>1, <1>2, PTL DEF LogSpec

\* verify_chain accepts lines that are whole and linked.
LEMMA LinkedVerifies ==
  ASSUME NEW lines \in Seq(Seq(Piece)), Linked(lines), AllWhole(lines)
  PROVE  VerifyChain(lines) /\ \A i \in 1..Len(lines) : EventsFromLine(lines[i]) = lines[i]
<1>1. \A i \in 1..Len(lines) : lines[i] \in Seq(Piece) /\ ~IsCut(lines[i]) /\ lines[i] # <<>>
  BY DEF AllWhole, Linked
<1>2. \A i \in 1..Len(lines) : EventsFromLine(lines[i]) = lines[i]
  BY <1>1, EventsOfLine
<1>3. DOMAIN lines = 1..Len(lines) /\ Readable(lines)
  BY <1>1, <1>2 DEF Readable
<1>4. \A i \in 1..Len(lines) : \A k \in 1..Len(lines[i]) : lines[i][k] # Cut
  <2> SUFFICES ASSUME NEW i \in 1..Len(lines), NEW k \in 1..Len(lines[i]) PROVE lines[i][k] # Cut
    OBVIOUS
  <2>1. k \in DOMAIN lines[i] /\ ~IsCut(lines[i])
    BY <1>1
  <2> QED BY <2>1 DEF IsCut, ToSet
<1>5. ASSUME NEW i \in 1..Len(lines), NEW j \in 1..Len(lines[i])
      PROVE  lines[i][j].prev_hmac = HmacBefore(lines, i, j)
  <2>1. i \in Nat /\ j \in Nat /\ i >= 1 /\ j >= 1
    BY <1>1
  <2>2. ClearBefore(lines, i, j) /\ lines[i][j] # Cut
    <3>1. \A k \in 1..(j - 1) : k \in 1..Len(lines[i])
      BY <1>1, <2>1
    <3>2. \A g \in 1..(i - 1) : g \in 1..Len(lines)
      BY <2>1
    <3> QED BY <1>4, <3>1, <3>2 DEF ClearBefore
  <2>3. lines[i][j].prev_hmac = Before(lines, i, j)
    BY <2>2 DEF Linked
  <2>4. HmacBefore(lines, i, j) = Before(lines, i, j)
    <3>1. CASE j > 1
      BY <1>2, <3>1 DEF HmacBefore, Before
    <3>2. CASE j = 1 /\ i > 1
      <4>1. EventsFromLine(lines[i - 1]) = lines[i - 1]
        BY <1>2, <2>1, <3>2
      <4> QED BY <3>2, <4>1 DEF HmacBefore, Before, Last
    <3>3. CASE j = 1 /\ i = 1
      BY <3>3 DEF HmacBefore, Before
    <3> QED BY <2>1, <3>1, <3>2, <3>3
  <2> QED BY <2>3, <2>4
<1>6. \A i \in DOMAIN lines : \A j \in DOMAIN EventsFromLine(lines[i]) :
        EventsFromLine(lines[i])[j].prev_hmac = HmacBefore(lines, i, j)
  <2>1. \A i \in 1..Len(lines) : DOMAIN lines[i] = 1..Len(lines[i])
    BY <1>1
  <2> QED BY <1>2, <1>3, <1>5, <2>1
<1> QED BY <1>2, <1>3, <1>6 DEF VerifyChain

\* verify accepts the log up to the first event that was cut short, whatever
\* appends interleave with each other and with it, and whichever of them fail or
\* die between their two writes (append, verify_chain).
THEOREM ChainVerified == LogSpec => []ChainVerifies
<1>1. LogInv => ChainVerifies
  <2> SUFFICES ASSUME LogInv, NEW n \in 0..Len(log), Intact(n)
               PROVE  VerifyChain(SubSeq(log, 1, n))
    BY DEF ChainVerifies
  <2> DEFINE lines == SubSeq(log, 1, n)
  <2>1. log \in Seq(Seq(Piece)) /\ Linked(log)
    BY DEF LogInv, LogTypeOK, Piece
  <2>2. lines \in Seq(Seq(Piece)) /\ Len(lines) = n /\ \A i \in 1..n : lines[i] = log[i]
    BY <2>1
  <2> HIDE DEF lines
  <2>3. n \in Nat /\ n <= Len(log)
    BY <2>1
  <2>4. AllWhole(lines)
    BY <2>2 DEF AllWhole, Intact
  <2>5. Linked(lines)
    <3> SUFFICES ASSUME NEW i \in 1..n
                 PROVE  /\ log[i] # <<>>
                        /\ \A j \in 1..Len(log[i]) :
                             ClearBefore(lines, i, j) /\ log[i][j] # Cut
                               => log[i][j].prev_hmac = Before(lines, i, j)
      BY <2>2 DEF Linked
    <3>1. i \in 1..Len(log) /\ log[i] # <<>>
      BY <2>1, <2>3 DEF Linked
    <3>2. ASSUME NEW j \in 1..Len(log[i]), ClearBefore(lines, i, j), log[i][j] # Cut
          PROVE  log[i][j].prev_hmac = Before(lines, i, j)
      <4>1. \A g \in 1..(i - 1) : lines[g] = log[g]
        BY <2>2, <2>3
      <4>2. ClearBefore(log, i, j)
        BY <2>2, <3>2, <4>1 DEF ClearBefore
      <4>3. Before(lines, i, j) = Before(log, i, j)
        <5>1. i > 1 => lines[i - 1] = log[i - 1]
          BY <4>1
        <5> QED BY <2>2, <5>1 DEF Before
      <4> QED BY <2>1, <3>1, <3>2, <4>2, <4>3 DEF Linked
    <3> QED BY <3>1, <3>2
  <2>6. VerifyChain(lines)
    BY <2>2, <2>4, <2>5, LinkedVerifies
  <2> QED BY <2>6 DEF lines
<1> QED BY <1>1, LogInvariance, PTL

\* While no event has been cut short, list returns every event whose append
\* succeeded (append, read_all_events, list).
THEOREM AppendsRecorded == LogSpec => []Recorded
<1>1. LogInv => Recorded
  <2> SUFFICES ASSUME LogInv, Intact(Len(log)), NEW h \in appended PROVE h \in Listed(log)
    BY DEF Recorded
  <2>1. log \in Seq(Seq(Piece)) /\ Linked(log) /\ InLog
    BY DEF LogInv, LogTypeOK, Piece
  <2>2. AllWhole(log)
    BY DEF AllWhole, Intact
  <2>3. Readable(log) /\ \A i \in 1..Len(log) : EventsFromLine(log[i]) = log[i]
    BY <2>1, <2>2, LinkedVerifies DEF VerifyChain
  <2>4. PICK i \in 1..Len(log) : \E j \in 1..Len(log[i]) : log[i][j].hmac = h
    BY <2>1 DEF InLog
  <2>5. PICK j \in 1..Len(log[i]) : log[i][j].hmac = h
    BY <2>4
  <2>6. i \in DOMAIN log /\ j \in DOMAIN log[i]
    BY <2>1
  <2>7. log[i][j] \in ToSet(EventsFromLine(log[i]))
    BY <2>3, <2>6 DEF ToSet
  <2>8. log[i][j] \in EventsOf(log)
    BY <2>6, <2>7 DEF EventsOf
  <2> QED BY <2>3, <2>5, <2>8 DEF Listed
<1> QED BY <1>1, LogInvariance, PTL

=============================================================================
