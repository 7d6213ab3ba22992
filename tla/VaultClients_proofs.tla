------------------------- MODULE VaultClients_proofs ------------------------
(***************************************************************************)
(* Proofs about VaultClients: whatever stale copies are written back, each *)
(* record stays one that was created, with a password of its own, and only *)
(* a create fills an alias.                                                *)
(***************************************************************************)
EXTENDS VaultClients, TLAPS

\* r is what a create put under a, up to rotations.
Genuine(r, a) ==
  /\ [id |-> r.id, alias |-> a, phrase |-> r.phrase] \in born
  /\ r.password.of = r.id

\* A copy in hand is as good as a record of the vault.
HandInv == \A c \in Clients :
  /\ pc[c] # "idle" => alias[c] \in Aliases
  /\ pc[c] \notin {"idle", "create"} =>
       hand[c] \in Record /\ Genuine(hand[c], alias[c])

\* Only a session that runs has been given a password.
InjectedInv == \A c \in Clients :
  injected[c] # None => pc[c] = "exec" /\ injected[c].of = hand[c].id

IInv == TypeOK /\ Coherent /\ HandInv /\ InjectedInv

-----------------------------------------------------------------------------
\* What a get copies, and what a write-back writes.
LEMMA VaultGenuine ==
  ASSUME TypeOK, Coherent, NEW a \in Aliases, vault[a] # NoRecord
  PROVE  vault[a] \in Record /\ Genuine(vault[a], a) /\ vault[a].id \in BornIds
BY DEF TypeOK, VaultTypeOK, Coherent, Genuine, BornIds

LEMMA RotatedGenuine ==
  ASSUME NEW r \in Record, NEW a \in Aliases, Genuine(r, a),
         r.password.version < MaxRotations
  PROVE  Rotated(r) \in Record /\ Genuine(Rotated(r), a) /\ Rotated(r).id = r.id
<1>1. r.password \in Password /\ r.id \in Ids /\ r.phrase \in Phrases \cup {Yes}
  BY DEF Record
<1>2. r.password.version + 1 \in 0..MaxRotations /\ r.password.of \in Ids
  BY <1>1, BoundsAssumption DEF Password
<1> DEFINE q == [r.password EXCEPT !.version = @ + 1]
<1>3. q \in Password /\ q.of = r.password.of
  BY <1>1, <1>2 DEF Password
<1>4. Rotated(r) = [r EXCEPT !.password = q]
  BY DEF Rotated
<1> HIDE DEF q
<1>5. Rotated(r) \in Record /\ Rotated(r).id = r.id /\ Rotated(r).phrase = r.phrase
      /\ Rotated(r).password = q
  BY <1>3, <1>4 DEF Record
<1> QED BY <1>3, <1>5 DEF Genuine

\* A client that ends leaves nothing in its hands, and the others as they were.
LEMMA EndKeeps ==
  ASSUME IInv, NEW c \in Clients, End(c), born \subseteq born', born' \subseteq Birth,
         VaultTypeOK', Coherent'
  PROVE  IInv'
<1>1. TypeOK'
  BY DEF IInv, TypeOK, End, NoPhrase, NoAlias
<1>2. HandInv'
  BY DEF IInv, TypeOK, HandInv, End, Genuine
<1>3. InjectedInv'
  BY DEF IInv, TypeOK, InjectedInv, End
<1> QED BY <1>1, <1>2, <1>3 DEF IInv

\* A write-back of a genuine record keeps the vault coherent.
LEMMA PutKeeps ==
  ASSUME TypeOK, Coherent, NEW c \in Clients, NEW r \in Record,
         alias[c] \in Aliases, Genuine(r, alias[c]), Put(c, r) \/ UNCHANGED vault,
         UNCHANGED born
  PROVE  VaultTypeOK' /\ Coherent'
<1>1. CASE UNCHANGED vault
  BY <1>1 DEF TypeOK, VaultTypeOK, Coherent
<1>2. CASE Update(alias[c], r)
  BY <1>2 DEF TypeOK, VaultTypeOK, Coherent, Update, Genuine
<1> QED BY <1>1, <1>2 DEF Put

LEMMA InitIInv == Init => IInv
<1> SUFFICES ASSUME Init PROVE IInv
  OBVIOUS
<1>1. TypeOK
  BY DEF Init, TypeOK, VaultInit, VaultTypeOK, NoAlias, NoPhrase
<1>2. Coherent
  BY DEF Init, VaultInit, Coherent
<1> QED BY <1>1, <1>2 DEF Init, IInv, HandInv, InjectedInv

LEMMA StepIInv == IInv /\ [Next]_vars => IInv'
<1> SUFFICES ASSUME IInv, [Next]_vars PROVE IInv'
  OBVIOUS
<1> USE DEF IInv
<1>1. ASSUME NEW c \in Clients, NEW op \in {"exec", "meta", "rotate", "remove"},
             NEW a \in Aliases, Get(c, op, a)
      PROVE  IInv'
  <2>1. vault[a] \in Record /\ Genuine(vault[a], a)
    BY <1>1, VaultGenuine DEF Get
  <2>2. TypeOK' /\ Coherent'
    BY <1>1, <2>1 DEF Get, TypeOK, VaultTypeOK, Coherent
  <2>3. HandInv'
    BY <1>1, <2>1 DEF Get, TypeOK, HandInv, Genuine
  <2>4. InjectedInv'
    BY <1>1 DEF Get, TypeOK, InjectedInv
  <2> QED BY <2>2, <2>3, <2>4
<1>2. ASSUME NEW c \in Clients, NEW a \in Aliases, CheckFree(c, a)
      PROVE  IInv'
  <2>1. TypeOK' /\ Coherent'
    BY <1>2 DEF CheckFree, TypeOK, VaultTypeOK, Coherent
  <2>2. HandInv'
    BY <1>2 DEF CheckFree, TypeOK, HandInv, Genuine
  <2>3. InjectedInv'
    BY <1>2 DEF CheckFree, TypeOK, InjectedInv
  <2> QED BY <2>1, <2>2, <2>3
<1>3. ASSUME NEW c \in Clients, NEW phrase \in Phrases \cup {Yes},
             Authenticate(c, phrase)
      PROVE  IInv'
  <2>1. VaultTypeOK' /\ Coherent' /\ born' = born /\ born' \subseteq Birth
    BY <1>3 DEF Authenticate, TypeOK, VaultTypeOK, Coherent
  <2>2. CASE End(c)
    BY <2>1, <2>2, EndKeeps
  <2>3. CASE ~End(c)
    <3>1. TypeOK'
      BY <1>3, <2>1, <2>3 DEF Authenticate, TypeOK
    <3>2. HandInv'
      BY <1>3, <2>3 DEF Authenticate, TypeOK, HandInv, Genuine
    <3>3. InjectedInv'
      BY <1>3, <2>3 DEF Authenticate, TypeOK, InjectedInv
    <3> QED BY <2>1, <3>1, <3>2, <3>3
  <2> QED BY <2>2, <2>3
<1>4. ASSUME NEW c \in Clients, ExecDone(c) \/ MetaWrite(c)
      PROVE  IInv'
  <2>1. hand[c] \in Record /\ alias[c] \in Aliases /\ Genuine(hand[c], alias[c])
    BY <1>4 DEF ExecDone, MetaWrite, HandInv
  <2>2. End(c) /\ born' = born /\ (Put(c, hand[c]) \/ UNCHANGED vault)
    BY <1>4 DEF ExecDone, MetaWrite
  <2>3. VaultTypeOK' /\ Coherent'
    BY <2>1, <2>2, PutKeeps
  <2> QED BY <2>2, <2>3, EndKeeps DEF TypeOK
<1>5. ASSUME NEW c \in Clients, RotateWrite(c)
      PROVE  IInv'
  <2>1. hand[c] \in Record /\ alias[c] \in Aliases /\ Genuine(hand[c], alias[c])
    BY <1>5 DEF RotateWrite, HandInv
  <2>2. Rotated(hand[c]) \in Record /\ Genuine(Rotated(hand[c]), alias[c])
    BY <1>5, <2>1, RotatedGenuine DEF RotateWrite
  <2>3. End(c) /\ born' = born /\ Put(c, Rotated(hand[c]))
    BY <1>5 DEF RotateWrite
  <2>4. VaultTypeOK' /\ Coherent'
    BY <2>1, <2>2, <2>3, PutKeeps
  <2> QED BY <2>3, <2>4, EndKeeps DEF TypeOK
<1>6. ASSUME NEW c \in Clients, Remove(c)
      PROVE  IInv'
  <2>1. VaultTypeOK' /\ Coherent' /\ End(c) /\ born' = born
    BY <1>6 DEF Remove, Delete, TypeOK, VaultTypeOK, Coherent
  <2> QED BY <2>1, EndKeeps DEF TypeOK
<1>7. ASSUME NEW c \in Clients, Inject(c)
      PROVE  IInv'
  <2>1. PICK a \in Aliases :
          /\ vault[a] # NoRecord
          /\ vault[a].id = hand[c].id
          /\ injected' = [injected EXCEPT ![c] = vault[a].password]
    BY <1>7 DEF Inject
  <2>2. vault[a].password \in Password /\ vault[a].password.of = hand[c].id
    BY <2>1, VaultGenuine DEF Genuine, Record
  <2>3. TypeOK' /\ Coherent' /\ HandInv'
    BY <1>7, <2>1, <2>2
       DEF Inject, clientVars, TypeOK, VaultTypeOK, Coherent, HandInv, Genuine
  <2>4. InjectedInv'
    BY <1>7, <2>1, <2>2 DEF Inject, clientVars, TypeOK, InjectedInv
  <2> QED BY <2>3, <2>4
<1>8. ASSUME NEW c \in Clients, NEW phrase \in Phrases \cup {Yes}, Create(c, phrase)
      PROVE  IInv'
  <2>1. alias[c] \in Aliases /\ End(c)
    BY <1>8 DEF Create, HandInv
  <2>2. CASE UNCHANGED <<vault, born>>
    BY <2>1, <2>2, EndKeeps DEF TypeOK, VaultTypeOK, Coherent
  <2>3. CASE ~UNCHANGED <<vault, born>>
    <3>1. PICK id \in Ids \ BornIds :
            /\ Insert(alias[c], NewRecord(id, phrase))
            /\ born' = born \cup {[id |-> id, alias |-> alias[c], phrase |-> phrase]}
      BY <1>8, <2>3 DEF Create
    <3>2. NewRecord(id, phrase) \in Record
      BY BoundsAssumption DEF NewRecord, Record, Password
    <3>3. VaultTypeOK'
      BY <2>1, <3>1, <3>2 DEF Insert, TypeOK, VaultTypeOK
    <3>4. Coherent'
      BY <2>1, <3>1 DEF Insert, NewRecord, TypeOK, VaultTypeOK, Coherent
    <3>5. born \subseteq born' /\ born' \subseteq Birth
      BY <2>1, <3>1 DEF TypeOK, Birth
    <3> QED BY <2>1, <3>3, <3>4, <3>5, EndKeeps
  <2> QED BY <2>2, <2>3
<1>9. ASSUME NEW c \in Clients, GiveUp(c)
      PROVE  IInv'
  BY <1>9, EndKeeps DEF GiveUp, TypeOK, VaultTypeOK, Coherent
<1>10. CASE UNCHANGED vars
  BY <1>10 DEF vars, clientVars, TypeOK, VaultTypeOK, Coherent, HandInv, Genuine, InjectedInv
<1> QED
  BY <1>1, <1>2, <1>3, <1>4, <1>5, <1>6, <1>7, <1>8, <1>9, <1>10 DEF Next

LEMMA Invariance == Spec => []IInv
BY InitIInv, StepIInv, PTL DEF Spec

\* Every variable keeps its type.
THEOREM TypeCorrect == Spec => []TypeOK
<1>1. IInv => TypeOK
  BY DEF IInv
<1> QED BY <1>1, Invariance, PTL

\* Every record is one that was created under its alias, with a password of
\* its own, though copies of any age are written back without a lock.
THEOREM Coherence == Spec => []Coherent
<1>1. IInv => Coherent
  BY DEF IInv
<1> QED BY <1>1, Invariance, PTL

\* A prompt is answered with a password of the credential that was asked for.
THEOREM OwnPassword == Spec => []InjectsOwn
<1>1. IInv => InjectsOwn
  BY DEF IInv, InjectedInv, InjectsOwn
<1> QED BY <1>1, Invariance, PTL

-----------------------------------------------------------------------------
\* An alias that has no record gets one from a create, which has a new id.
FillsByCreate == \A a \in Aliases :
  vault[a] = NoRecord /\ vault'[a] # NoRecord
    <=> vault'[a] # NoRecord /\ vault'[a].id \notin BornIds

LEMMA UnchangedFills ==
  ASSUME IInv, UNCHANGED vault
  PROVE  FillsByCreate
BY VaultGenuine DEF IInv, FillsByCreate

LEMMA PutFills ==
  ASSUME IInv, NEW c \in Clients, NEW r \in Record, alias[c] \in Aliases,
         Genuine(r, alias[c]), Put(c, r) \/ UNCHANGED vault
  PROVE  FillsByCreate
<1>1. CASE UNCHANGED vault
  BY <1>1, UnchangedFills
<1>2. CASE Update(alias[c], r)
  <2>1. r.id \in BornIds
    BY DEF Genuine, BornIds
  <2> QED BY <1>2, <2>1, VaultGenuine
        DEF IInv, TypeOK, VaultTypeOK, Update, FillsByCreate
<1> QED BY <1>1, <1>2 DEF Put

LEMMA StepFills == IInv /\ [Next]_vars => [FillsByCreate]_vars
<1> SUFFICES ASSUME IInv, Next PROVE FillsByCreate
  OBVIOUS
<1>1. ASSUME UNCHANGED vault PROVE FillsByCreate
  BY <1>1, UnchangedFills
<1>2. ASSUME NEW c \in Clients, ExecDone(c) \/ MetaWrite(c)
      PROVE  FillsByCreate
  BY <1>2, PutFills DEF IInv, HandInv, ExecDone, MetaWrite
<1>3. ASSUME NEW c \in Clients, RotateWrite(c) PROVE FillsByCreate
  <2>1. hand[c] \in Record /\ alias[c] \in Aliases /\ Genuine(hand[c], alias[c])
    BY <1>3 DEF IInv, RotateWrite, HandInv
  <2>2. Rotated(hand[c]) \in Record /\ Genuine(Rotated(hand[c]), alias[c])
    BY <1>3, <2>1, RotatedGenuine DEF RotateWrite
  <2> QED BY <1>3, <2>1, <2>2, PutFills DEF RotateWrite
<1>4. ASSUME NEW c \in Clients, Delete(alias[c]) PROVE FillsByCreate
  BY <1>4, VaultGenuine DEF IInv, TypeOK, VaultTypeOK, Delete, FillsByCreate
<1>5. ASSUME NEW c \in Clients, NEW phrase \in Phrases \cup {Yes},
             Create(c, phrase), ~UNCHANGED vault
      PROVE  FillsByCreate
  <2>1. PICK id \in Ids \ BornIds : Insert(alias[c], NewRecord(id, phrase))
    BY <1>5 DEF Create
  <2>2. NewRecord(id, phrase).id \notin BornIds
    BY DEF NewRecord
  <2>3. alias[c] \in Aliases
    BY <1>5 DEF IInv, HandInv, Create
  <2> QED BY <2>1, <2>2, <2>3, VaultGenuine
        DEF IInv, TypeOK, VaultTypeOK, Insert, FillsByCreate
<1>6. PICK c \in Clients :
        \/ UNCHANGED vault
        \/ ExecDone(c) \/ MetaWrite(c) \/ RotateWrite(c) \/ Delete(alias[c])
        \/ \E phrase \in Phrases \cup {Yes} : Create(c, phrase)
  BY DEF Next, Get, CheckFree, Authenticate, Inject, GiveUp, Remove
<1> QED BY <1>1, <1>2, <1>3, <1>4, <1>5, <1>6

\* No create replaces a record that came after its check, and no write-back
\* brings a removed alias back.
THEOREM CreatesOnly == Spec => OnlyCreateFills
<1>1. IInv /\ [Next]_vars => [FillsByCreate]_vars
  BY StepFills
<1>2. [][FillsByCreate]_vars => OnlyCreateFills
  BY PTL DEF FillsByCreate, OnlyCreateFills
<1> QED BY <1>1, <1>2, Invariance, PTL DEF Spec

=============================================================================
