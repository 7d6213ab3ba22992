--------------------------- MODULE Runtime_proofs ---------------------------
(***************************************************************************)
(* Proofs about the two runtimes.                                          *)
(*                                                                         *)
(* ExecRuntime: types, that no ssh outlives its exec but in the window     *)
(* between its fork and its registration or by a signal nobody handles,    *)
(* and that the askpass helper answers with the fields of the record in    *)
(* their order.                                                            *)
(*                                                                         *)
(* PtyInject: types, what ends the scanner, what holds the standard input  *)
(* back, that a secret is typed at the prompt that asks for it (a record's *)
(* only secret: at any), that the password saved after a login is the one  *)
(* it took, that no prompt is overlooked, and that each whose secret is in *)
(* hand is served.                                                         *)
(***************************************************************************)
EXTENDS ExecRuntime, PtyInject, SequenceTheorems, TLAPS

\* ssh has been forked and not reaped.
Forked == ssh \in Live \cup {"zombie"}
Running == {"register", "registering", "wait"}

\* Where the main thread may be while ssh and the handler are where they are.
\* The handler freezes the main thread, so it finds the groups as they were
\* where SIGTERM struck.
Guarded ==
  /\ handler # "none" => handlers /\ ~Dead /\ struck = pc
  /\ ~handlers => ssh = "none"
  /\ caller = "polls" /\ handler = "none" => Dead
  /\ ~Dead => (holder <=> pc \in {"registering", "unregistering"})
  /\ ~Dead /\ Forked => pc \in Running
  /\ pc = "wait" /\ handler \in {"none", "lock", "term"} => groups
  /\ handler = "poll" => ssh # "runs"
  /\ handler = "prune" /\ ssh = "runs" => pc = "register"

\* A helper runs under an ssh that runs, or that the handler is ending.
HelperPlaced ==
  /\ helper.at # "idle" => mode = "pipe"
  /\ helper.at = "idle" => helper = Idle
  /\ ~Dead /\ helper # Idle =>
       ssh = "runs" \/ (handler # "none" /\ ssh \in {"dying", "zombie"})

\* The state file and a number that was read from it are how many secrets
\* were answered, unless another brokre removed the file of a living exec.
Counted ==
  /\ other = "dead" => Dead
  /\ pc \in {"master_check", "master_try", "master_again"} => mode = "mux"
  /\ other # "misled" =>
       /\ helper.at = "read" => helper.n = Len(asked)
       /\ ~Dead /\ mode = "pipe" =>
            /\ pc \in {"askpass_owner", "askpass_pid", "spawn"} => state = 0
            /\ pc \in Running => state = Len(asked)

Answers == {FieldAt(n) : n \in Nat}

IInv ==
  /\ TypeOK
  /\ asked \in Seq(Answers)
  /\ Guarded /\ HelperPlaced /\ Counted
  /\ NoOrphan /\ AskpassInTurn

-----------------------------------------------------------------------------
LEMMA InitInv == Init => IInv
<1> SUFFICES ASSUME Init PROVE IInv
  OBVIOUS
<1>1. Flags /\ Places /\ Guarded /\ HelperPlaced /\ Counted /\ NoOrphan
  BY DEF Init, Flags, Places, Guarded, HelperPlaced, Counted, NoOrphan, Dead, Forked,
         Live, Idle
<1>2. asked \in Seq(Answers) /\ AskpassInTurn
  BY DEF Init, AskpassInTurn
<1> QED BY <1>1, <1>2 DEF IInv, TypeOK

-----------------------------------------------------------------------------
(* What every step keeps. *)

LEMMA FlagsKept ==
  ASSUME TypeOK, [Next]_vars
  PROVE  Flags'
<1> USE DEF TypeOK, Flags, procVars, sigVars, sshVars, fileVars, outVars, Goto, Sigterm
<1>1. CASE Start \/ Route \/ Compose \/ PruneMux \/ Identity \/ Choose
  BY <1>1, Zenon
  DEF Start, Route, Compose, PruneMux, Identity, Choose
<1>2. CASE AskpassState \/ AskpassOwner \/ MasterCheck \/ MasterTry \/ MasterAgain
  BY <1>2, Zenon
  DEF AskpassState, AskpassOwner, MasterCheck, MasterTry, MasterAgain
<1>3. CASE Spawn \/ Register
  BY <1>3, Zenon
  DEF Spawn, Register
<1>4. CASE Wait \/ Unregister \/ DropAskpass \/ Audit
  BY <1>4, Zenon
  DEF Wait, Unregister, DropAskpass, Audit
<1>5. CASE SshAsks \/ HelperReads \/ HelperAnswers
  BY <1>5, Zenon
  DEF SshAsks, HelperReads, HelperAnswers
<1>6. CASE SshExits \/ MasterEnds
  BY <1>6, Zenon
  DEF SshExits, MasterEnds
<1>7. CASE HandlerLock \/ HandlerTerm \/ HandlerKill \/ HandlerPrune
  BY <1>7, Zenon
  DEF HandlerLock, HandlerTerm, HandlerKill, HandlerPrune
<1>8. CASE Interrupt \/ Unhandled \/ CallerExpires \/ CallerKills \/ CallerReaps \/ CallerReturns
  BY <1>8, Zenon
  DEF Interrupt, Unhandled, CallerExpires, CallerKills, CallerReaps, CallerReturns
<1>9. CASE Judge \/ Sweep
  BY <1>9, Zenon
  DEF Judge, Sweep
<1>10. CASE UNCHANGED vars
  BY <1>10 DEF vars
<1> QED
  BY <1>1, <1>2, <1>3, <1>4, <1>5, <1>6, <1>7, <1>8, <1>9, <1>10
  DEF Next, Exec, Handler, Caller, Over

LEMMA PlacesKept ==
  ASSUME TypeOK, [Next]_vars
  PROVE  Places'
<1> USE DEF TypeOK, Places, procVars, sigVars, sshVars, fileVars, outVars, Goto, Sigterm,
            Idle
<1>1. CASE Start \/ Route \/ Compose \/ PruneMux \/ Identity \/ Choose
  BY <1>1
  DEF Start, Route, Compose, PruneMux, Identity, Choose
<1>2. CASE AskpassState \/ AskpassOwner \/ MasterCheck \/ MasterTry \/ MasterAgain
  BY <1>2
  DEF AskpassState, AskpassOwner, MasterCheck, MasterTry, MasterAgain
<1>3. CASE Spawn \/ Register
  BY <1>3
  DEF Spawn, Register
<1>4. CASE Wait \/ Unregister \/ DropAskpass \/ Audit
  BY <1>4
  DEF Wait, Unregister, DropAskpass, Audit
<1>5. CASE SshAsks \/ HelperReads \/ HelperAnswers
  BY <1>5
  DEF SshAsks, HelperReads, HelperAnswers
<1>6. CASE SshExits \/ MasterEnds
  BY <1>6
  DEF SshExits, MasterEnds
<1>7. CASE HandlerLock \/ HandlerTerm \/ HandlerKill \/ HandlerPrune
  BY <1>7
  DEF HandlerLock, HandlerTerm, HandlerKill, HandlerPrune
<1>8. CASE Interrupt \/ Unhandled \/ CallerExpires \/ CallerKills \/ CallerReaps \/ CallerReturns
  BY <1>8
  DEF Interrupt, Unhandled, CallerExpires, CallerKills, CallerReaps, CallerReturns
<1>9. CASE Judge \/ Sweep
  BY <1>9
  DEF Judge, Sweep
<1>10. CASE UNCHANGED vars
  BY <1>10 DEF vars
<1> QED
  BY <1>1, <1>2, <1>3, <1>4, <1>5, <1>6, <1>7, <1>8, <1>9, <1>10
  DEF Next, Exec, Handler, Caller, Over

LEMMA GuardedKept ==
  ASSUME IInv, [Next]_vars
  PROVE  Guarded'
<1> USE ExecAssumption
    DEF IInv, TypeOK, Flags, Places, procVars, sigVars, sshVars, fileVars, outVars,
        Dead, Forked, Live, Idle, Running, Goto, Sigterm, Stuck
<1>1. CASE Start \/ Route \/ Compose \/ PruneMux \/ Identity \/ Choose
  BY <1>1
  DEF Start, Route, Compose, PruneMux, Identity, Choose,
      Guarded
<1>2. CASE AskpassState \/ AskpassOwner \/ MasterCheck \/ MasterTry \/ MasterAgain
  BY <1>2
  DEF AskpassState, AskpassOwner, MasterCheck, MasterTry, MasterAgain,
      Guarded
<1>3. CASE Spawn \/ Register
  BY <1>3
  DEF Spawn, Register,
      Guarded
<1>4. CASE Wait \/ Unregister \/ DropAskpass \/ Audit
  BY <1>4
  DEF Wait, Unregister, DropAskpass, Audit,
      Guarded
<1>5. CASE SshAsks \/ HelperReads \/ HelperAnswers
  BY <1>5
  DEF SshAsks, HelperReads, HelperAnswers,
      Guarded
<1>6. CASE SshExits \/ MasterEnds
  BY <1>6
  DEF SshExits, MasterEnds,
      Guarded
<1>7. CASE HandlerLock \/ HandlerTerm \/ HandlerKill \/ HandlerPrune
  BY <1>7
  DEF HandlerLock, HandlerTerm, HandlerKill, HandlerPrune,
      Guarded
<1>8. CASE Interrupt \/ Unhandled \/ CallerExpires \/ CallerKills \/ CallerReaps \/ CallerReturns
  BY <1>8
  DEF Interrupt, Unhandled, CallerExpires, CallerKills, CallerReaps, CallerReturns,
      Guarded
<1>9. CASE Judge \/ Sweep
  BY <1>9
  DEF Judge, Sweep,
      Guarded
<1>10. CASE UNCHANGED vars
  BY <1>10 DEF vars, Guarded
<1> QED
  BY <1>1, <1>2, <1>3, <1>4, <1>5, <1>6, <1>7, <1>8, <1>9, <1>10
  DEF Next, Exec, Handler, Caller, Over

LEMMA HelperPlacedKept ==
  ASSUME IInv, [Next]_vars
  PROVE  HelperPlaced'
<1> USE ExecAssumption
    DEF IInv, TypeOK, Flags, Places, procVars, sigVars, sshVars, fileVars, outVars,
        Dead, Forked, Live, Idle, Running, Goto, Sigterm, Stuck
<1>1. CASE Start \/ Route \/ Compose \/ PruneMux \/ Identity \/ Choose
  BY <1>1
  DEF Start, Route, Compose, PruneMux, Identity, Choose,
      Guarded, HelperPlaced
<1>2. CASE AskpassState \/ AskpassOwner \/ MasterCheck \/ MasterTry \/ MasterAgain
  BY <1>2
  DEF AskpassState, AskpassOwner, MasterCheck, MasterTry, MasterAgain,
      Guarded, HelperPlaced
<1>3. CASE Spawn \/ Register
  BY <1>3
  DEF Spawn, Register,
      Guarded, HelperPlaced
<1>4. CASE Wait \/ Unregister \/ DropAskpass \/ Audit
  BY <1>4
  DEF Wait, Unregister, DropAskpass, Audit,
      Guarded, HelperPlaced
<1>5. CASE SshAsks \/ HelperReads \/ HelperAnswers
  BY <1>5
  DEF SshAsks, HelperReads, HelperAnswers,
      Guarded, HelperPlaced
<1>6. CASE SshExits \/ MasterEnds
  BY <1>6
  DEF SshExits, MasterEnds,
      Guarded, HelperPlaced
<1>7. CASE HandlerLock \/ HandlerTerm \/ HandlerKill \/ HandlerPrune
  BY <1>7
  DEF HandlerLock, HandlerTerm, HandlerKill, HandlerPrune,
      Guarded, HelperPlaced
<1>8. CASE Interrupt \/ Unhandled \/ CallerExpires \/ CallerKills \/ CallerReaps \/ CallerReturns
  BY <1>8
  DEF Interrupt, Unhandled, CallerExpires, CallerKills, CallerReaps, CallerReturns,
      Guarded, HelperPlaced
<1>9. CASE Judge \/ Sweep
  BY <1>9
  DEF Judge, Sweep,
      Guarded, HelperPlaced
<1>10. CASE UNCHANGED vars
  BY <1>10 DEF vars, Guarded, HelperPlaced
<1> QED
  BY <1>1, <1>2, <1>3, <1>4, <1>5, <1>6, <1>7, <1>8, <1>9, <1>10
  DEF Next, Exec, Handler, Caller, Over

LEMMA CountedKept ==
  ASSUME IInv, [Next]_vars
  PROVE  Counted'
<1> USE ExecAssumption
    DEF IInv, TypeOK, Flags, Places, procVars, sigVars, sshVars, fileVars, outVars,
        Dead, Forked, Live, Idle, Running, Goto, Sigterm, Stuck
<1>1. CASE Start \/ Route \/ Compose \/ PruneMux \/ Identity \/ Choose
  BY <1>1
  DEF Start, Route, Compose, PruneMux, Identity, Choose,
      Guarded, HelperPlaced, Counted
<1>2. CASE AskpassState \/ AskpassOwner \/ MasterCheck \/ MasterTry \/ MasterAgain
  BY <1>2
  DEF AskpassState, AskpassOwner, MasterCheck, MasterTry, MasterAgain,
      Guarded, HelperPlaced, Counted
<1>3. CASE Spawn \/ Register
  BY <1>3
  DEF Spawn, Register,
      Guarded, HelperPlaced, Counted
<1>4. CASE Wait \/ Unregister \/ DropAskpass \/ Audit
  BY <1>4
  DEF Wait, Unregister, DropAskpass, Audit,
      Guarded, HelperPlaced, Counted
<1>5. CASE SshAsks \/ HelperReads \/ HelperAnswers
  BY <1>5
  DEF SshAsks, HelperReads, HelperAnswers,
      Guarded, HelperPlaced, Counted
<1>6. CASE SshExits \/ MasterEnds
  BY <1>6
  DEF SshExits, MasterEnds,
      Guarded, HelperPlaced, Counted
<1>7. CASE HandlerLock \/ HandlerTerm \/ HandlerKill \/ HandlerPrune
  BY <1>7
  DEF HandlerLock, HandlerTerm, HandlerKill, HandlerPrune,
      Guarded, HelperPlaced, Counted
<1>8. CASE Interrupt \/ Unhandled \/ CallerExpires \/ CallerKills \/ CallerReaps \/ CallerReturns
  BY <1>8
  DEF Interrupt, Unhandled, CallerExpires, CallerKills, CallerReaps, CallerReturns,
      Guarded, HelperPlaced, Counted
<1>9. CASE Judge \/ Sweep
  BY <1>9
  DEF Judge, Sweep,
      Guarded, HelperPlaced, Counted
<1>10. CASE UNCHANGED vars
  BY <1>10 DEF vars, Guarded, HelperPlaced, Counted
<1> QED
  BY <1>1, <1>2, <1>3, <1>4, <1>5, <1>6, <1>7, <1>8, <1>9, <1>10
  DEF Next, Exec, Handler, Caller, Over

\* Who dies with an ssh that runs was struck before the group was registered,
\* or by a signal it has no handler for.
LEMMA NoOrphanKept ==
  ASSUME IInv, [Next]_vars
  PROVE  NoOrphan'
<1> USE ExecAssumption
    DEF IInv, TypeOK, Flags, Places, procVars, sigVars, sshVars, fileVars, outVars,
        Dead, Forked, Live, Idle, Running, Goto, Sigterm, Stuck
<1>1. CASE Start \/ Route \/ Compose \/ PruneMux \/ Identity \/ Choose
  BY <1>1
  DEF Start, Route, Compose, PruneMux, Identity, Choose,
      Guarded, NoOrphan
<1>2. CASE AskpassState \/ AskpassOwner \/ MasterCheck \/ MasterTry \/ MasterAgain
  BY <1>2
  DEF AskpassState, AskpassOwner, MasterCheck, MasterTry, MasterAgain,
      Guarded, NoOrphan
<1>3. CASE Spawn \/ Register
  BY <1>3
  DEF Spawn, Register,
      Guarded, NoOrphan
<1>4. CASE Wait \/ Unregister \/ DropAskpass \/ Audit
  BY <1>4
  DEF Wait, Unregister, DropAskpass, Audit,
      Guarded, NoOrphan
<1>5. CASE SshAsks \/ HelperReads \/ HelperAnswers
  BY <1>5
  DEF SshAsks, HelperReads, HelperAnswers,
      Guarded, NoOrphan
<1>6. CASE SshExits \/ MasterEnds
  BY <1>6
  DEF SshExits, MasterEnds,
      Guarded, NoOrphan
<1>7. CASE HandlerLock \/ HandlerTerm \/ HandlerKill \/ HandlerPrune
  BY <1>7
  DEF HandlerLock, HandlerTerm, HandlerKill, HandlerPrune,
      Guarded, NoOrphan
<1>8. CASE Interrupt \/ Unhandled \/ CallerExpires \/ CallerKills \/ CallerReaps \/ CallerReturns
  BY <1>8
  DEF Interrupt, Unhandled, CallerExpires, CallerKills, CallerReaps, CallerReturns,
      Guarded, NoOrphan
<1>9. CASE Judge \/ Sweep
  BY <1>9
  DEF Judge, Sweep,
      Guarded, NoOrphan
<1>10. CASE UNCHANGED vars
  BY <1>10 DEF vars, Guarded, NoOrphan
<1> QED
  BY <1>1, <1>2, <1>3, <1>4, <1>5, <1>6, <1>7, <1>8, <1>9, <1>10
  DEF Next, Exec, Handler, Caller, Over

LEMMA AskpassKept ==
  ASSUME IInv, [Next]_vars
  PROVE  asked' \in Seq(Answers) /\ AskpassInTurn'
<1>1. CASE UNCHANGED asked /\ (other' # "misled" => other # "misled")
  BY <1>1 DEF IInv, AskpassInTurn
<1>2. CASE asked' = <<>>
  BY <1>2 DEF AskpassInTurn
<1>3. CASE HelperAnswers
  <2>1. /\ helper.n \in Nat /\ asked \in Seq(Answers) /\ UNCHANGED other
        /\ asked' = Append(asked, FieldAt(helper.n))
        /\ FieldAt(helper.n) \in Answers
        /\ other # "misled" => helper.n = Len(asked)
    BY <1>3 DEF HelperAnswers, IInv, TypeOK, Places, Counted, Answers, outVars
  <2>2. /\ asked' \in Seq(Answers)
        /\ Len(asked') = Len(asked) + 1
        /\ \A n \in 1..Len(asked) : asked'[n] = asked[n]
        /\ asked'[Len(asked) + 1] = FieldAt(helper.n)
    BY <2>1, AppendProperties
  <2>3. ASSUME other # "misled", NEW n \in 1..Len(asked')
        PROVE  asked'[n] = FieldAt(n - 1)
    <3>1. Len(asked) \in Nat /\ (n \in 1..Len(asked) \/ n = Len(asked) + 1)
      BY <2>1, <2>2, LenProperties
    <3>2. CASE n \in 1..Len(asked)
      BY <2>2, <2>3, <3>2 DEF IInv, AskpassInTurn
    <3>3. CASE n = Len(asked) + 1
      <4>1. n - 1 = helper.n
        BY <2>1, <2>3, <3>1, <3>3
      <4> QED BY <2>2, <3>3, <4>1
    <3> QED BY <3>1, <3>2, <3>3
  <2> QED BY <2>1, <2>2, <2>3 DEF AskpassInTurn
<1> QED
  BY <1>1, <1>2, <1>3
  DEF Next, Exec, Handler, Caller, Over, Start, Route, Compose, PruneMux, Identity, Choose,
      AskpassState, AskpassOwner, MasterCheck, MasterTry, MasterAgain, Spawn, Register, Wait,
      Unregister, DropAskpass, Audit, SshAsks, HelperReads, SshExits, MasterEnds,
      HandlerLock, HandlerTerm, HandlerKill, HandlerPrune, Interrupt, Unhandled, CallerExpires,
      CallerKills, CallerReaps, CallerReturns, Judge, Sweep, vars, procVars, sigVars,
      sshVars, fileVars, outVars

-----------------------------------------------------------------------------
(* Theorems. *)

\* The invariant, which the other theorems rest on.
THEOREM Invariance == Spec => []IInv
<1>1. IInv /\ [Next]_vars => IInv'
  BY FlagsKept, PlacesKept, GuardedKept, HelperPlacedKept, CountedKept, NoOrphanKept,
     AskpassKept
  DEF IInv, TypeOK
<1> QED BY InitInv, <1>1, PTL DEF Spec

\* Every variable but the invocation and its vector stays in its range.
THEOREM TypeCorrect == Spec => []TypeOK
BY Invariance, PTL DEF IInv

\* Whatever command line, environment and moment SIGTERM, a deadline, ^C or a
\* hangup comes at: an ssh outlives its exec only when SIGTERM came before its
\* group was registered, or when the exec died of ^C or the hangup, for which
\* brokre has no handler.
THEOREM Registered == Spec => []NoOrphan
BY Invariance, PTL DEF IInv

\* For any number of fields and prompts the helper answers in the record's
\* order, as long as no other brokre took the owner file for a dead one's.
THEOREM InTurn == Spec => []AskpassInTurn
BY Invariance, PTL DEF IInv


-----------------------------------------------------------------------------
\* The terminal

USE DEF peerVars, scanVars, injVars, mainVars, histVars, Pending, Records, InjectorStates

\* A run begins with its state in its types.
LEMMA PtyTypeInit ==
  ASSUME PtyAssumption, RunAssumption, PtyInit PROVE PtyTypeOK
<1> USE DEF PtyInit, RunAssumption, RunType
<1>1. PeerTypeOK
  <2>1. run \in Runs /\ run.asks \in Seq(Prompts) /\ run.preBanner \in BOOLEAN
    BY RunAssumption
  <2>2. peer \in Peers /\ peer.st # "asking"
    BY <2>1, PtyAssumption DEF PtyAssumption, Peers
  <2>3. out \in Seq(Tokens)
    <3>1. <<"banner">> \in Seq(Tokens) /\ <<>> \in Seq(Tokens)
      BY DEF Tokens
    <3> QED BY <3>1
  <2> QED BY <2>1, <2>2, <2>3 DEF PeerTypeOK
<1>2. ScanTypeOK
  <2>1. <<>> \in Seq(Tokens)
    OBVIOUS
  <2> QED BY <2>1 DEF ScanTypeOK
<1>3. InjTypeOK
  BY DEF InjTypeOK
<1>4. MainTypeOK
  <2>1. <<>> \in Seq(Press)
    OBVIOUS
  <2>2. gate \in BOOLEAN
    BY RunAssumption DEF InitialGate
  <2> QED BY <2>1, <2>2 DEF MainTypeOK
<1> QED BY <1>1, <1>2, <1>3, <1>4 DEF PtyTypeOK

LEMMA PeerSame == ASSUME PeerTypeOK, UNCHANGED <<run, peerVars>> PROVE PeerTypeOK'
BY DEF PeerTypeOK, Peers
LEMMA ScanSame == ASSUME ScanTypeOK, UNCHANGED <<scanVars, done, clean>> PROVE ScanTypeOK'
BY DEF ScanTypeOK
LEMMA InjSame == ASSUME InjTypeOK, UNCHANGED <<injVars, typed, served, lost>> PROVE InjTypeOK'
BY DEF InjTypeOK
LEMMA MainSame == ASSUME MainTypeOK, UNCHANGED <<mainVars, capture, saved, byHand, fed>>
                  PROVE MainTypeOK'
BY DEF MainTypeOK

LEMMA InjType1 ==
  ASSUME InjTypeOK,
         InjStart \/ InjSpawn \/ InjFail \/ InjNonblock \/ InjDrain \/ InjBlocking \/ InjRecord
           \/ InjOpen \/ InjEnd
  PROVE InjTypeOK'
<1>1. CASE InjStart
  BY <1>1 DEF InjStart, InjTypeOK
<1>2. CASE InjSpawn
  BY <1>2, PtyAssumption DEF InjSpawn, InjTypeOK, FieldNames, PtyAssumption
<1>3. CASE InjFail
  BY <1>3 DEF InjFail, InjTypeOK
<1>4. CASE InjNonblock
  BY <1>4 DEF InjNonblock, InjTypeOK
<1>5. CASE InjDrain
  BY <1>5 DEF InjDrain, InjTypeOK
<1>6. CASE InjBlocking
  BY <1>6 DEF InjBlocking, InjTypeOK
<1>7. CASE InjRecord
  BY <1>7 DEF InjRecord, InjTypeOK
<1>8. CASE InjOpen
  BY <1>8 DEF InjOpen, InjTypeOK
<1>9. CASE InjEnd
  BY <1>9 DEF InjEnd, InjTypeOK
<1> QED BY <1>1, <1>2, <1>3, <1>4, <1>5, <1>6, <1>7, <1>8, <1>9

LEMMA RunFacts ==
  ASSUME RunAssumption, PeerTypeOK
  PROVE  /\ run \in RunType /\ run.asks \in Seq(Prompts) /\ run.fields \in Seq(FieldNames)
         /\ run.keys \in Nat
         /\ peer.st = "asking" => peer.at \in 1..Len(run.asks) /\ Ask \in Prompts
<1>1. run \in RunType
  BY DEF RunAssumption, PeerTypeOK
<1>2. run.asks \in Seq(Prompts) /\ run.fields \in Seq(FieldNames) /\ run.keys \in Nat
  BY <1>1 DEF RunType
<1>3. peer.st = "asking" => peer.at \in 1..Len(run.asks)
  BY DEF PeerTypeOK, Peers
<1> QED BY <1>1, <1>2, <1>3 DEF Ask


LEMMA Words ==
  /\ <<>> \in Seq(Tokens) /\ Prompts \subseteq Tokens
  /\ \A x \in Tokens : <<x>> \in Seq(Tokens)
  /\ \A x, y \in Tokens : <<x, y>> \in Seq(Tokens)
  /\ \A u, v \in Seq(Tokens) : u \o v \in Seq(Tokens)
  /\ {"banner", "closed", "sorry", "denied"} \subseteq Tokens
  /\ "key" \in Tokens
<1>1. \A x \in Tokens : <<x>> \in Seq(Tokens)
  OBVIOUS
<1>2. \A x, y \in Tokens : <<x, y>> \in Seq(Tokens)
  OBVIOUS
<1>3. \A u, v \in Seq(Tokens) : u \o v \in Seq(Tokens)
  OBVIOUS
<1>4. "key" \in Prompts
  BY DEF Prompts, Secrets
<1> QED BY <1>1, <1>2, <1>3, <1>4 DEF Tokens

LEMMA Texts ==
  ASSUME RunAssumption, PeerTypeOK
  PROVE  /\ Greeting \in Seq(Tokens)
         /\ peer.st = "asking" => Again \in Seq(Tokens) /\ <<Ask>> \in Seq(Tokens)
<1>1. Greeting \in Seq(Tokens)
  BY Words DEF Greeting
<1>2. ASSUME peer.st = "asking" PROVE Again \in Seq(Tokens) /\ <<Ask>> \in Seq(Tokens)
  <2>1. Ask \in Tokens
    BY <1>2, RunFacts, Words
  <2> QED BY <2>1, Words DEF Again
<1> QED BY <1>1, <1>2

LEMMA PeerMoves ==
  ASSUME RunAssumption, PtyAssumption, PeerTypeOK
  PROVE  /\ peer.st = "asking" => NextAsk \in Peers
         /\ [peer EXCEPT !.st = "gone", !.line = <<>>] \in Peers
         /\ peer.tries + 1 < MaxTries => [peer EXCEPT !.tries = @ + 1, !.line = <<>>] \in Peers
         /\ peer.at <= Len(run.asks) => [peer EXCEPT !.st = "asking"] \in Peers
         /\ [peer EXCEPT !.st = "shell"] \in Peers
<1>1. peer \in Peers /\ Len(run.asks) \in Nat /\ MaxTries \in Nat \ {0}
      /\ (peer.st = "asking" => peer.at \in 1..Len(run.asks))
  BY RunFacts DEF PeerTypeOK, PtyAssumption
<1>2. peer.st = "asking" => NextAsk \in Peers
  BY <1>1 DEF NextAsk, Peers
<1> DEFINE none == <<>>
<1>0. none \in Seq(Press)
  OBVIOUS
<1> HIDE DEF none
<1>3. [peer EXCEPT !.st = "gone", !.line = none] \in Peers
  BY <1>0, <1>1 DEF Peers
<1>4. ASSUME peer.tries + 1 < MaxTries
      PROVE  [peer EXCEPT !.tries = peer.tries + 1, !.line = none] \in Peers
  <2>1. peer.tries + 1 \in 0..MaxTries - 1
    BY <1>1, <1>4 DEF Peers
  <2> QED BY <1>0, <1>1, <2>1 DEF Peers
<1>5. [peer EXCEPT !.st = "asking"] \in Peers /\ [peer EXCEPT !.st = "shell"] \in Peers
  BY <1>1 DEF Peers
<1> QED BY <1>2, <1>3, <1>4, <1>5 DEF none

\* A peer that moves as the program does.
LEMMA PeerStep ==
  ASSUME PeerTypeOK, run' = run, peer' \in Peers, peer'.st = "asking" => peer'.at <= Len(run.asks),
         out' \in Seq(Tokens), accepted' \in Seq(Press) \cup {Nil}
  PROVE  PeerTypeOK'
BY DEF PeerTypeOK, Peers

LEMMA AnswerTyped ==
  ASSUME RunAssumption, PtyAssumption, PeerTypeOK, run' = run,
         NEW line \in Seq(Press), NEW ok, Answer(line, ok)
  PROVE  PeerTypeOK'
<1>0. peer \in Peers /\ out \in Seq(Tokens) /\ accepted \in Seq(Press) \cup {Nil}
      /\ (peer.st = "asking" => peer.at <= Len(run.asks))
  BY DEF PeerTypeOK
<1>1. CASE peer.st # "asking"
  BY <1>1, PeerSame DEF Answer
<1>2. CASE peer.st = "asking" /\ Right(line)
  <2>1. out' \in Seq(Tokens) /\ accepted' \in Seq(Press) \cup {Nil}
    BY <1>0, <1>2, Texts, Words DEF Right
  <2>2. peer' \in Peers /\ peer'.st # "asking"
    BY <1>2, PeerMoves DEF Right, NextAsk
  <2> QED BY <2>1, <2>2, PeerStep
<1>3. CASE peer.st = "asking" /\ Wrong
  <2>1. out' \in Seq(Tokens) /\ accepted' \in Seq(Press) \cup {Nil}
    <3>1. out' = out \/ out' = out \o Again
      BY <1>3 DEF Wrong
    <3>2. Again \in Seq(Tokens)
      BY <1>3, Texts
    <3>3. out \o Again \in Seq(Tokens)
      BY <1>0, <3>2, Words
    <3> QED BY <1>0, <1>3, <3>1, <3>3 DEF Wrong
  <2>2. peer' \in Peers
    BY <1>3, PeerMoves DEF Wrong
  <2>3. peer'.st = "asking" => peer'.at <= Len(run.asks)
    <3>1. CASE peer' = [peer EXCEPT !.tries = @ + 1, !.line = <<>>]
      BY <1>0, <1>3, <3>1 DEF Peers
    <3>2. CASE peer' = NextAsk
      BY <3>2 DEF NextAsk
    <3>3. CASE peer' = [peer EXCEPT !.st = "gone", !.line = <<>>]
      BY <1>0, <3>3 DEF Peers
    <3> QED BY <1>3, <3>1, <3>2, <3>3 DEF Wrong
  <2> QED BY <2>1, <2>2, <2>3, PeerStep
<1> QED BY <1>1, <1>2, <1>3 DEF Answer

LEMMA InterruptTyped ==
  ASSUME RunAssumption, PtyAssumption, PeerTypeOK, run' = run, InterruptPeer
  PROVE  PeerTypeOK'
<1>0. peer \in Peers /\ out' \in Seq(Tokens) /\ accepted' \in Seq(Press) \cup {Nil}
      /\ (peer.st = "asking" => peer.at <= Len(run.asks))
  BY DEF PeerTypeOK, InterruptPeer
<1>1. CASE peer' = NextAsk /\ peer.st = "asking"
  BY <1>0, <1>1, PeerMoves, PeerStep DEF NextAsk
<1>2. CASE peer' = [peer EXCEPT !.st = "gone", !.line = <<>>]
  <2>1. peer'.st = "gone"
    BY <1>0, <1>2 DEF Peers
  <2> QED BY <1>0, <1>2, <2>1, PeerMoves, PeerStep
<1>3. CASE peer' = peer
  BY <1>0, <1>3, PeerStep
<1> QED BY <1>1, <1>2, <1>3 DEF InterruptPeer

LEMMA PeerActsTyped ==
  ASSUME RunAssumption, PtyAssumption, PeerTypeOK, PeerAsks \/ PeerExits \/ MainKill
  PROVE  PeerTypeOK'
<1>0. /\ peer \in Peers /\ out \in Seq(Tokens) /\ accepted \in Seq(Press) \cup {Nil}
      /\ (peer.st = "asking" => peer.at <= Len(run.asks))
  BY DEF PeerTypeOK
<1>1. CASE PeerAsks
  <2>1. CASE peer.at <= Len(run.asks)
    <3>1. Ask \in Tokens
      <4>1. peer.at \in 1..Len(run.asks) /\ run.asks \in Seq(Prompts)
        BY <1>0, <2>1, RunFacts DEF Peers
      <4> QED BY <4>1, Words DEF Ask
    <3>2. out' \in Seq(Tokens)
      <4>1. out' = Append(out, Ask)
        BY <1>1, <2>1 DEF PeerAsks
      <4> QED BY <1>0, <3>1, <4>1
    <3>3. peer' \in Peers /\ peer'.at = peer.at
      BY <1>0, <1>1, <2>1, PeerMoves DEF PeerAsks, Peers
    <3> QED BY <1>0, <1>1, <2>1, <3>2, <3>3, PeerStep DEF PeerAsks
  <2>2. CASE ~(peer.at <= Len(run.asks))
    <3>1. peer' \in Peers /\ peer'.st = "shell"
      BY <1>0, <1>1, <2>2, PeerMoves DEF PeerAsks, Peers
    <3> QED BY <1>0, <1>1, <2>2, <3>1, PeerStep DEF PeerAsks
  <2> QED BY <2>1, <2>2
<1>2. CASE PeerExits \/ MainKill
  <2>1. out' \in Seq(Tokens)
    <3>1. "closed" \in Tokens
      BY Words
    <3> QED BY <1>0, <1>2, <3>1 DEF PeerExits, MainKill
  <2>2. peer' \in Peers /\ peer'.st = "gone"
    BY <1>0, <1>2, PeerMoves DEF PeerExits, MainKill, Peers
  <2> QED BY <1>0, <1>2, <2>1, <2>2, PeerStep DEF PeerExits, MainKill
<1> QED BY <1>1, <1>2

LEMMA ArmTyped ==
  ASSUME RunAssumption, PtyAssumption, PeerTypeOK, MainTypeOK, ScanTypeOK, InjTypeOK, Arm(window)
  PROVE  /\ window' \in Seq(Tokens) /\ clean' \in BOOLEAN
         /\ pend' \in Pending
         /\ capture' \in [on : BOOLEAN, text : Seq(Press) \cup {Nil}]
         /\ capture'.on => capture'.text \in Seq(Press)
<1>1. window' \in Seq(Tokens)
  BY Words DEF Arm, ScanTypeOK
<1>2. clean' \in BOOLEAN
  BY DEF Arm, ScanTypeOK
<1>3. capture' = capture \/ capture' = [on |-> TRUE, text |-> <<>>]
  BY DEF Arm
<1>4. <<>> \in Seq(Press)
  OBVIOUS
<1>5. FieldForPrompt(window) \in FieldNames \cup {Nil}
  <2>1. Len(run.fields) = 1 => run.fields[1] \in FieldNames
    BY RunFacts
  <2> QED BY <2>1 DEF FieldForPrompt, FieldNames
<1>6. IsElevation(window) \in BOOLEAN
  BY DEF IsElevation
<1>7. \/ pend' = pend
      \/ pend' = [pend EXCEPT !.inj = TRUE]
      \/ \E rid \in {"inner", Nil} :
           pend' = [inj |-> TRUE, field |-> FieldForPrompt(window), rid |-> rid,
                    elev |-> IsElevation(window)]
  BY DEF Arm
<1>8. pend' \in Pending
  <2>1. pend \in Pending
    BY DEF InjTypeOK
  <2>2. CASE pend' = pend \/ pend' = [pend EXCEPT !.inj = TRUE]
    BY <2>1, <2>2
  <2>3. ASSUME NEW rid \in {"inner", Nil},
               pend' = [inj |-> TRUE, field |-> FieldForPrompt(window), rid |-> rid,
                        elev |-> IsElevation(window)]
        PROVE  pend' \in Pending
    BY <1>5, <1>6, <2>3
  <2> QED BY <1>7, <2>2, <2>3
<1>9. /\ capture' \in [on : BOOLEAN, text : Seq(Press) \cup {Nil}]
      /\ capture'.on => capture'.text \in Seq(Press)
  <2>1. CASE capture' = capture
    BY <2>1 DEF MainTypeOK
  <2>2. CASE capture' = [on |-> TRUE, text |-> <<>>]
    BY <1>4, <2>2
  <2> QED BY <1>3, <2>1, <2>2
<1> QED BY <1>1, <1>2, <1>8, <1>9


LEMMA ScannerTyped ==
  ASSUME RunAssumption, PtyAssumption, PtyTypeOK, Scanner
  PROVE  PtyTypeOK'
<1>0. PeerTypeOK /\ ScanTypeOK /\ InjTypeOK /\ MainTypeOK
  BY DEF PtyTypeOK
<1>1. CASE ScanRescan
  <2>1. ScanTypeOK'
    BY <1>0, <1>1, ArmTyped DEF ScanRescan, ScanTypeOK
  <2>2. InjTypeOK'
    <3>1. pend' \in Pending
      BY <1>0, <1>1, ArmTyped DEF ScanRescan
    <3>2. rescan' \in BOOLEAN /\ UNCHANGED <<inj, recorded, typed, served, nonblock, lost>>
      BY <1>1 DEF ScanRescan
    <3> QED BY <1>0, <3>1, <3>2 DEF InjTypeOK
  <2>3. MainTypeOK'
    BY <1>0, <1>1, ArmTyped DEF ScanRescan, MainTypeOK
  <2> QED BY <1>0, <1>1, <2>1, <2>2, <2>3, PeerSame DEF ScanRescan, PtyTypeOK
<1>2. CASE ScanReady
  <2>1. ScanTypeOK'
    BY <1>0, <1>2 DEF ScanReady, ScanTypeOK
  <2> QED BY <1>0, <1>2, <2>1, PeerSame, InjSame, MainSame DEF ScanReady, PtyTypeOK
<1>3. CASE ScanRead
  <2>0. out \in Seq(Tokens) /\ window \in Seq(Tokens) /\ out # <<>>
    BY <1>0, <1>3 DEF PeerTypeOK, ScanTypeOK, ScanRead
  <2>1. PICK n \in {1, Len(out)} :
          /\ out' = SubSeq(out, n + 1, Len(out))
          /\ window' = window \o SubSeq(out, 1, n)
          /\ shown' = (IF Scans THEN shown ELSE out[n])
          /\ recorded' \in {recorded, [recorded EXCEPT !.login = TRUE]}
          /\ scan' = IF Scans THEN "arm" ELSE "poll"
    BY <1>3 DEF ScanRead
  <2>2. n \in 1..Len(out)
    BY <2>0, <2>1
  <2>3. out' \in Seq(Tokens) /\ SubSeq(out, 1, n) \in Seq(Tokens) /\ SubSeq(out, 1, n) # <<>>
        /\ out[n] \in Tokens
    <3>1. SubSeq(out, n + 1, Len(out)) \in Seq(Tokens)
      BY <2>0, <2>2
    <3>2. SubSeq(out, 1, n) \in Seq(Tokens) /\ Len(SubSeq(out, 1, n)) = n
      BY <2>0, <2>2
    <3>3. out[n] \in Tokens
      BY <2>0, <2>2
    <3>4. SubSeq(out, 1, n) # <<>>
      BY <2>2, <3>2
    <3> QED BY <2>1, <3>1, <3>2, <3>3, <3>4
  <2>4. window' \in Seq(Tokens) /\ window' # <<>>
    BY <2>0, <2>1, <2>3
  <2>5. postAuth' \in BOOLEAN /\ closed' \in BOOLEAN /\ gate' \in BOOLEAN
    BY <1>3 DEF ScanRead
  <2>6. PeerTypeOK'
    BY <1>0, <1>3, <2>3, PeerStep DEF ScanRead, PeerTypeOK
  <2>7. ScanTypeOK'
    BY <1>0, <1>3, <2>1, <2>3, <2>4, <2>5 DEF ScanRead, ScanTypeOK
  <2>8. InjTypeOK'
    <3>1. recorded' \in Records
      BY <1>0, <2>1 DEF InjTypeOK
    <3>2. UNCHANGED <<pend, inj, typed, served, nonblock, rescan, lost>>
      BY <1>3 DEF ScanRead
    <3> QED BY <1>0, <3>1, <3>2 DEF InjTypeOK
  <2>9. MainTypeOK'
    BY <1>0, <1>3, <2>5 DEF ScanRead, MainTypeOK
  <2> QED BY <2>6, <2>7, <2>8, <2>9 DEF PtyTypeOK
<1>4. CASE ScanArm
  <2>1. ScanTypeOK'
    <3>1. Last(window) \in Tokens
      BY <1>0, <1>4 DEF ScanArm, ScanTypeOK, Last
    <3> QED BY <1>0, <1>4, <3>1, ArmTyped DEF ScanArm, ScanTypeOK
  <2>2. InjTypeOK'
    BY <1>0, <1>4, ArmTyped DEF ScanArm, InjTypeOK
  <2>3. MainTypeOK'
    BY <1>0, <1>4, ArmTyped DEF ScanArm, MainTypeOK
  <2> QED BY <1>0, <1>4, <2>1, <2>2, <2>3, PeerSame DEF ScanArm, PtyTypeOK
<1>5. CASE ScanEnds
  <2>1. ScanTypeOK'
    BY <1>0, <1>5 DEF ScanEnds, ScanTypeOK
  <2> QED BY <1>0, <1>5, <2>1, PeerSame, InjSame, MainSame DEF ScanEnds, PtyTypeOK
<1> QED BY <1>1, <1>2, <1>3, <1>4, <1>5 DEF Scanner

LEMMA InjectorTyped ==
  ASSUME RunAssumption, PtyAssumption, PtyTypeOK, Injector
  PROVE  PtyTypeOK'
<1>0. PeerTypeOK /\ ScanTypeOK /\ InjTypeOK /\ MainTypeOK
  BY DEF PtyTypeOK
<1>1. CASE InjStart
  <2>1. InjTypeOK'
    BY <1>0, <1>1 DEF InjStart, InjTypeOK
  <2> QED BY <1>0, <1>1, <2>1, PeerSame, ScanSame, MainSame DEF InjStart, PtyTypeOK
<1>2. CASE InjSpawn
  <2>1. InjTypeOK'
    BY <1>0, <1>2, PtyAssumption DEF InjSpawn, InjTypeOK, FieldNames, PtyAssumption
  <2> QED BY <1>0, <1>2, <2>1, PeerSame, ScanSame, MainSame DEF InjSpawn, PtyTypeOK
<1>3. CASE InjType
  <2>1. \E ok : Answer(<<>>, ok)
    BY <1>3 DEF InjType
  <2>2. <<>> \in Seq(Press)
    OBVIOUS
  <2>3. PeerTypeOK'
    BY <1>0, <1>3, <2>1, <2>2, AnswerTyped DEF InjType
  <2>4. InjTypeOK'
    <3> DEFINE ask == IF peer.st = "asking" THEN Ask ELSE "none"
    <3>1. ask \in Prompts \cup {"none"}
      BY <1>0, RunFacts
    <3>2. inj \in [pc : {"child"}, field : FieldNames, rid : {"outer", "inner"},
                   elev : BOOLEAN, ok : BOOLEAN]
      BY <1>0, <1>3 DEF InjTypeOK, InjType
    <3>3. typed' = [rid |-> inj.rid, field |-> inj.field, ask |-> ask]
          /\ served' = served \cup {ask}
      BY <1>3 DEF InjType
    <3> HIDE DEF ask
    <3>4. typed' \in [rid : {"outer", "inner"}, field : FieldNames, ask : Prompts \cup {"none"}]
      BY <3>1, <3>2, <3>3
    <3>5. inj' = [inj EXCEPT !.pc = "typed", !.ok = TRUE]
      BY <1>3 DEF InjType
    <3>6. UNCHANGED <<pend, recorded, nonblock, rescan, lost>>
      BY <1>3 DEF InjType
    <3> QED BY <1>0, <3>1, <3>2, <3>3, <3>4, <3>5, <3>6 DEF InjTypeOK
  <2> QED BY <1>0, <1>3, <2>3, <2>4, ScanSame, MainSame DEF InjType, PtyTypeOK
<1>4. CASE InjFail
  <2>1. InjTypeOK'
    BY <1>0, <1>4 DEF InjFail, InjTypeOK
  <2> QED BY <1>0, <1>4, <2>1, PeerSame, ScanSame, MainSame DEF InjFail, PtyTypeOK
<1>5. CASE InjNonblock
  <2>1. InjTypeOK'
    BY <1>0, <1>5 DEF InjNonblock, InjTypeOK
  <2> QED BY <1>0, <1>5, <2>1, PeerSame, ScanSame, MainSame DEF InjNonblock, PtyTypeOK
<1>6. CASE InjDrain
  <2>1. InjTypeOK'
    BY <1>0, <1>6 DEF InjDrain, InjTypeOK
  <2>2. PeerTypeOK'
    BY <1>0, <1>6, PeerStep, Words DEF InjDrain, PeerTypeOK
  <2> QED BY <1>0, <1>6, <2>1, <2>2, ScanSame, MainSame DEF InjDrain, PtyTypeOK
<1>7. CASE InjBlocking
  <2>1. InjTypeOK'
    BY <1>0, <1>7 DEF InjBlocking, InjTypeOK
  <2> QED BY <1>0, <1>7, <2>1, PeerSame, ScanSame, MainSame DEF InjBlocking, PtyTypeOK
<1>8. CASE InjRecord
  <2>1. InjTypeOK'
    BY <1>0, <1>8 DEF InjRecord, InjTypeOK
  <2> QED BY <1>0, <1>8, <2>1, PeerSame, ScanSame, MainSame DEF InjRecord, PtyTypeOK
<1>9. CASE InjOpen
  <2>1. InjTypeOK'
    BY <1>0, <1>9 DEF InjOpen, InjTypeOK
  <2>2. MainTypeOK'
    BY <1>0, <1>9 DEF InjOpen, MainTypeOK
  <2> QED BY <1>0, <1>9, <2>1, <2>2, PeerSame, ScanSame DEF InjOpen, PtyTypeOK
<1>10. CASE InjEnd
  <2>1. InjTypeOK'
    BY <1>0, <1>10 DEF InjEnd, InjTypeOK
  <2> QED BY <1>0, <1>10, <2>1, PeerSame, ScanSame, MainSame DEF InjEnd, PtyTypeOK
<1> QED BY <1>1, <1>2, <1>3, <1>4, <1>5, <1>6, <1>7, <1>8, <1>9, <1>10 DEF Injector

LEMMA UserTyped ==
  ASSUME RunAssumption, PtyAssumption, PtyTypeOK, User
  PROVE  PtyTypeOK'
<1>0. PeerTypeOK /\ ScanTypeOK /\ InjTypeOK /\ MainTypeOK
  BY DEF PtyTypeOK
<1>1. stdin \in Seq(Press) /\ keys \in Nat
  BY <1>0 DEF MainTypeOK
<1>2. \A part \in {"first", "enter", "int", "eof"} : Key(part) \in Press
  BY <1>1 DEF Key, Press
<1>3. \A a, b \in Press : Append(stdin, a) \in Seq(Press) /\ stdin \o <<a, b>> \in Seq(Press)
  BY <1>1
<1>4. CASE UserTypes
  <2>1. stdin' \in Seq(Press) /\ keys' \in Nat
    <3>1. Key("first") \in Press /\ Key("enter") \in Press
      BY <1>2
    <3>2. stdin \o <<Key("first"), Key("enter")>> \in Seq(Press)
          /\ Append(stdin, Key("enter")) \in Seq(Press)
      BY <1>3, <3>1, Zenon
    <3>3. stdin' \in Seq(Press)
      BY <1>4, <3>2, Zenon DEF UserTypes
    <3>4. keys' = keys + 1
      BY <1>4 DEF UserTypes
    <3> QED BY <1>1, <3>3, <3>4
  <2>2. shown' \in Tokens \cup {"nothing", "typed"}
    BY <1>0, <1>4 DEF UserTypes, ScanTypeOK
  <2>3. ScanTypeOK' /\ MainTypeOK'
    BY <1>0, <1>4, <2>1, <2>2 DEF UserTypes, ScanTypeOK, MainTypeOK
  <2> QED BY <1>0, <1>4, <2>3, PeerSame, InjSame DEF UserTypes, PtyTypeOK
<1>5. CASE UserInterrupts \/ PipeWrites
  <2>1. stdin' \in Seq(Press) /\ keys' \in Nat /\ sigint' \in BOOLEAN
    <3>1. \A part \in {"first", "enter", "int", "eof"} : Append(stdin, Key(part)) \in Seq(Press)
      BY <1>2, <1>3
    <3>2. sigint \in BOOLEAN
      BY <1>0 DEF MainTypeOK
    <3>3. \/ stdin' = stdin
          \/ \E part \in {"first", "enter", "int", "eof"} : stdin' = Append(stdin, Key(part))
      BY <1>5 DEF UserInterrupts, PipeWrites
    <3>4. keys' = keys + 1 /\ (sigint' = sigint \/ sigint' = TRUE)
      BY <1>5 DEF UserInterrupts, PipeWrites
    <3>5. stdin' \in Seq(Press)
      BY <1>1, <3>1, <3>3, Zenon
    <3>6. keys' \in Nat
      BY <1>1, <3>4
    <3>7. sigint' \in BOOLEAN
      BY <3>2, <3>4, Zenon
    <3> QED BY <3>5, <3>6, <3>7
  <2>2. MainTypeOK'
    BY <1>0, <1>5, <2>1 DEF UserInterrupts, PipeWrites, MainTypeOK
  <2> QED BY <1>0, <1>5, <2>2, PeerSame, ScanSame, InjSame DEF UserInterrupts, PipeWrites, PtyTypeOK
<1> QED BY <1>4, <1>5 DEF User

LEMMA ForwardTyped ==
  ASSUME RunAssumption, PtyAssumption, PtyTypeOK, MainForward
  PROVE  PtyTypeOK'
<1>0. PeerTypeOK /\ ScanTypeOK /\ InjTypeOK /\ MainTypeOK
  BY DEF PtyTypeOK
<1> DEFINE press == Head(stdin)
<1>1. press \in Press /\ stdin' \in Seq(Press)
  BY <1>0 DEF MainForward, MainTypeOK
<1>2. PeerTypeOK'
  <2>0. peer \in Peers
    BY <1>0 DEF PeerTypeOK
  <2>1. CASE press.part = "first"
    <3>1. Append(peer.line, press) \in Seq(Press)
      BY <1>1, <2>0 DEF Peers
    <3>2. peer' \in Peers /\ peer'.st = peer.st /\ peer'.at = peer.at
      BY <2>0, <2>1, <3>1 DEF MainForward, Peers
    <3>3. UNCHANGED <<run, out, accepted>>
      BY <2>1 DEF MainForward
    <3> QED BY <1>0, <3>2, <3>3, PeerStep DEF PeerTypeOK
  <2>2. CASE press.part = "enter"
    <3>1. \E ok : Answer(Append(peer.line, press), ok)
      BY <2>2 DEF MainForward
    <3>2. Append(peer.line, press) \in Seq(Press)
      BY <1>1, <2>0 DEF Peers
    <3>3. run' = run
      BY DEF MainForward
    <3> QED BY <1>0, <3>1, <3>2, <3>3, AnswerTyped
  <2>3. CASE press.part = "int"
    BY <1>0, <2>3, InterruptTyped DEF MainForward
  <2>4. CASE press.part = "eof"
    BY <1>0, <2>4, PeerSame DEF MainForward
  <2>5. press.part \in {"first", "enter", "int", "eof"}
    BY <1>1 DEF Press
  <2> QED BY <2>1, <2>2, <2>3, <2>4, <2>5
<1>3. capture' \in [on : BOOLEAN, text : Seq(Press) \cup {Nil}]
      /\ (capture'.on => capture'.text \in Seq(Press))
  <2>1. capture' = Captured(press)
    BY DEF MainForward
  <2>2. capture \in [on : BOOLEAN, text : Seq(Press) \cup {Nil}]
        /\ (capture.on => capture.text \in Seq(Press))
    BY <1>0 DEF MainTypeOK
  <2>3. CASE capture' = capture
    BY <2>2, <2>3
  <2>4. CASE capture.on /\ capture' # capture
    <3>1. AsChar(press) \in Press
      BY <1>1 DEF AsChar, Press
    <3>2. Append(capture.text, AsChar(press)) \in Seq(Press)
      BY <2>2, <2>4, <3>1
    <3>3. PICK text \in Seq(Press) :
            capture' = [on |-> press.part # "enter", text |-> text]
      BY <2>1, <2>2, <2>4, <3>2 DEF Captured
    <3> QED BY <3>3
  <2> QED BY <2>1, <2>3, <2>4 DEF Captured
<1>4. byHand' \in BOOLEAN /\ fed' \in BOOLEAN
  BY DEF MainForward, Touch, Touched
<1>5. MainTypeOK'
  BY <1>0, <1>1, <1>3, <1>4 DEF MainForward, MainTypeOK
<1> QED BY <1>0, <1>2, <1>5, ScanSame, InjSame DEF MainForward, PtyTypeOK

LEMMA MainTyped ==
  ASSUME RunAssumption, PtyAssumption, PtyTypeOK, Main \/ Tick
  PROVE  PtyTypeOK'
<1>0. PeerTypeOK /\ ScanTypeOK /\ InjTypeOK /\ MainTypeOK
  BY DEF PtyTypeOK
<1>1. CASE MainSigint
  <2>1. capture' \in [on : BOOLEAN, text : Seq(Press) \cup {Nil}]
        /\ (capture'.on => capture'.text \in Seq(Press))
    <3>1. CASE capture' = capture
      BY <1>0, <3>1 DEF MainTypeOK
    <3>2. CASE capture' = [on |-> FALSE, text |-> Nil]
      BY <3>2
    <3> QED BY <1>1, <3>1, <3>2 DEF MainSigint
  <2>2. byHand' \in BOOLEAN
    BY <1>1 DEF MainSigint, Touched
  <2>3. MainTypeOK'
    BY <1>0, <1>1, <2>1, <2>2 DEF MainSigint, MainTypeOK
  <2> QED BY <1>0, <1>1, <2>3, InterruptTyped, ScanSame, InjSame DEF MainSigint, PtyTypeOK
<1>2. CASE MainOpen \/ MainEnds \/ MainExit \/ MainGraceOver \/ MainJoin \/ Tick
  <2>1. MainTypeOK'
    BY <1>0, <1>2 DEF MainOpen, MainEnds, MainExit, MainGraceOver, MainJoin, Tick, MainTypeOK
  <2> QED BY <1>0, <1>2, <2>1, PeerSame, ScanSame, InjSame
          DEF MainOpen, MainEnds, MainExit, MainGraceOver, MainJoin, Tick, PtyTypeOK
<1>3. CASE MainDown
  <2>1. ScanTypeOK'
    BY <1>0, <1>3 DEF MainDown, ScanTypeOK
  <2>2. MainTypeOK'
    <3>1. <<>> \in Seq(Press)
      OBVIOUS
    <3> QED BY <1>0, <1>3, <3>1 DEF MainDown, MainTypeOK
  <2> QED BY <1>0, <1>3, <2>1, <2>2, PeerSame, InjSame DEF MainDown, PtyTypeOK
<1>4. CASE MainKill
  <2>1. MainTypeOK'
    BY <1>0, <1>4 DEF MainKill, MainTypeOK
  <2> QED BY <1>0, <1>4, <2>1, PeerActsTyped, ScanSame, InjSame DEF MainKill, PtyTypeOK
<1>5. CASE ExecSaves
  <2>1. saved' \in Seq(Press) \cup {Nil}
    BY <1>0, <1>5 DEF ExecSaves, MainTypeOK
  <2>2. MainTypeOK'
    BY <1>0, <1>5, <2>1 DEF ExecSaves, MainTypeOK
  <2> QED BY <1>0, <1>5, <2>2, PeerSame, ScanSame, InjSame DEF ExecSaves, PtyTypeOK
<1> QED BY <1>1, <1>2, <1>3, <1>4, <1>5, ForwardTyped DEF Main

LEMMA PtyTypeStep ==
  ASSUME RunAssumption, PtyAssumption, PtyTypeOK, [PtyNext]_ptyVars
  PROVE  PtyTypeOK'
<1>0. PeerTypeOK /\ ScanTypeOK /\ InjTypeOK /\ MainTypeOK
  BY DEF PtyTypeOK
<1>1. CASE UNCHANGED ptyVars
  BY <1>0, <1>1, PeerSame, ScanSame, InjSame, MainSame DEF ptyVars, PtyTypeOK
<1>2. CASE PeerAsks \/ PeerExits
  BY <1>0, <1>2, PeerActsTyped, ScanSame, InjSame, MainSame DEF PeerAsks, PeerExits, PtyTypeOK
<1> QED BY <1>1, <1>2, ScannerTyped, InjectorTyped, UserTyped, MainTyped DEF PtyNext, RunOver

\* The types of the run's state.
THEOREM PtyTypeCorrect == PtySpec => []PtyTypeOK
<1>1. PtyInit => PtyTypeOK
  BY PtyAssumption, RunAssumption, PtyTypeInit
<1>2. PtyTypeOK /\ [PtyNext]_ptyVars => PtyTypeOK'
  BY PtyAssumption, RunAssumption, PtyTypeStep
<1> QED BY <1>1, <1>2, PTL DEF PtySpec

-----------------------------------------------------------------------------
\* The end of the scanner

\* What poll has promised to the scanner is there, or the injector took it.
EndInv == /\ scan = "read" => out # <<>> \/ HungUp \/ lost
          /\ ScannerEndsWithTerminal

LEMMA EndStep ==
  ASSUME RunAssumption, PtyAssumption, PtyTypeOK, EndInv, [PtyNext]_ptyVars
  PROVE  EndInv'
<1> USE DEF EndInv, ScannerEndsWithTerminal, HungUp
<1>0. /\ peer \in Peers /\ out \in Seq(Tokens) /\ lost \in BOOLEAN
      /\ (peer.st = "asking" => peer.at \in 1..Len(run.asks) /\ Ask \in Prompts)
  BY RunFacts DEF PtyTypeOK, PeerTypeOK, InjTypeOK
\* A program that has gone stays so, and what it has printed stays, until the
\* scanner reads it or the injector drains it.
<1>1. ASSUME run' = run, peer.st = "gone" => peer'.st = "gone", out # <<>> => out' # <<>>,
             lost' = lost, scan' = scan, done' = done, main' = "loop" => main = "loop"
      PROVE  EndInv'
  BY <1>1
<1>2. ASSUME NEW line, NEW ok, Answer(line, ok)
      PROVE  (peer.st = "gone" => peer'.st = "gone") /\ (out # <<>> => out' # <<>>)
  <2>1. peer.st = "gone" => UNCHANGED peerVars
    BY <1>2 DEF Answer
  <2>2. out' = out \/ out' = out \o Greeting \/ (peer.st = "asking" /\ out' = out \o Again)
    BY <1>2 DEF Answer, Right, Wrong
  <2>3. Greeting \in Seq(Tokens) /\ (peer.st = "asking" => Again \in Seq(Tokens))
    BY Texts DEF PtyTypeOK
  <2>4. \A t \in Seq(Tokens) : out # <<>> => out \o t # <<>>
    BY <1>0
  <2> QED BY <2>1, <2>2, <2>3, <2>4
<1>3. InterruptPeer => (peer.st = "gone" => peer'.st = "gone") /\ out' = out
  BY <1>0 DEF InterruptPeer
<1>4. CASE PeerAsks \/ PeerExits
  <2>1. \A x : Append(out, x) # <<>>
    BY <1>0
  <2> QED BY <1>0, <1>1, <1>4, <2>1 DEF PeerAsks, PeerExits, Peers
<1>5. CASE Scanner
  <2>1. CASE ScanRescan
    BY <1>1, <2>1 DEF ScanRescan
  <2>2. CASE ScanReady
    BY <2>2 DEF ScanReady
  <2>3. CASE ScanRead
    BY <2>3 DEF ScanRead
  <2>4. CASE ScanArm
    BY <2>4 DEF ScanArm
  <2>5. CASE ScanEnds
    BY <2>5 DEF ScanEnds
  <2> QED BY <1>5, <2>1, <2>2, <2>3, <2>4, <2>5 DEF Scanner
<1>6. CASE Injector
  <2>1. CASE InjType
    <3>1. \E ok : Answer(<<>>, ok)
      BY <2>1 DEF InjType
    <3> QED BY <1>1, <1>2, <2>1, <3>1 DEF InjType
  <2>2. CASE InjDrain
    BY <2>2 DEF InjDrain
  <2>3. CASE InjStart \/ InjSpawn \/ InjFail \/ InjNonblock
    BY <1>1, <2>3 DEF InjStart, InjSpawn, InjFail, InjNonblock
  <2>4. CASE InjBlocking \/ InjRecord \/ InjOpen \/ InjEnd
    BY <1>1, <2>4 DEF InjBlocking, InjRecord, InjOpen, InjEnd
  <2> QED BY <1>6, <2>1, <2>2, <2>3, <2>4 DEF Injector
<1>7. CASE User
  BY <1>1, <1>7 DEF User, UserTypes, UserInterrupts, PipeWrites
<1>8. CASE Main \/ Tick
  <2>1. CASE MainForward
    <3> DEFINE press == Head(stdin)
    <3>1. CASE press.part = "first"
      BY <1>0, <1>1, <2>1, <3>1 DEF MainForward, Peers
    <3>2. CASE press.part = "enter"
      <4>1. \E ok : Answer(Append(peer.line, press), ok)
        BY <2>1, <3>2 DEF MainForward
      <4> QED BY <1>1, <1>2, <2>1, <4>1 DEF MainForward
    <3>3. CASE press.part = "int"
      BY <1>1, <1>3, <2>1, <3>3 DEF MainForward
    <3>4. CASE press.part = "eof"
      BY <1>1, <2>1, <3>4 DEF MainForward
    <3>5. press.part \in {"first", "enter", "int", "eof"}
      <4>1. stdin \in Seq(Press) /\ stdin # <<>>
        BY <2>1 DEF PtyTypeOK, MainTypeOK, MainForward
      <4>2. press \in Press
        BY <4>1
      <4> QED BY <4>2 DEF Press
    <3> QED BY <3>1, <3>2, <3>3, <3>4, <3>5
  <2>2. CASE MainSigint
    BY <1>1, <1>3, <2>2 DEF MainSigint
  <2>3. CASE MainOpen \/ MainEnds \/ MainExit \/ MainGraceOver \/ MainJoin \/ ExecSaves \/ Tick
    BY <1>1, <2>3 DEF MainOpen, MainEnds, MainExit, MainGraceOver, MainJoin, ExecSaves, Tick
  <2>4. CASE MainDown
    BY <2>4 DEF MainDown
  <2>5. CASE MainKill
    <3>1. peer'.st = "gone"
      BY <1>0, <2>5 DEF MainKill, Peers
    <3> QED BY <1>1, <2>5, <3>1 DEF MainKill
  <2> QED BY <1>8, <2>1, <2>2, <2>3, <2>4, <2>5 DEF Main
<1>9. CASE UNCHANGED ptyVars
  BY <1>1, <1>9 DEF ptyVars
<1> QED BY <1>4, <1>5, <1>6, <1>7, <1>8, <1>9 DEF PtyNext, RunOver

\* The scanner ends with its terminal only, or after a read that the injector
\* had drained.
THEOREM ScannerEnds == PtySpec => []ScannerEndsWithTerminal
<1>1. PtyInit => EndInv
  BY DEF PtyInit, EndInv, ScannerEndsWithTerminal
<1>2. PtyTypeOK /\ EndInv /\ [PtyNext]_ptyVars => EndInv'
  BY PtyAssumption, RunAssumption, EndStep
<1>3. EndInv => ScannerEndsWithTerminal
  BY DEF EndInv
<1> QED BY <1>1, <1>2, <1>3, PtyTypeCorrect, PTL DEF PtySpec

-----------------------------------------------------------------------------
\* The gate of the standard input

\* A secret was typed.
SecretTyped == ~(served \subseteq {"failed"})

\* The gate is opened by an injection that was typed, by the banner, or by the
\* time; and by an elevation for a run that waits for one.
GateInv == /\ inj.pc \in {"record", "open"} => SecretTyped
           /\ inj.pc \in {"typed", "drain"} /\ inj.ok => SecretTyped
           /\ recorded.elev >= 1 => SecretTyped
           /\ gate /\ Preset /\ ~Passive => SecretTyped \/ (~Defer /\ (postAuth \/ waited))
           /\ HeldUntilInjected

LEMMA GateStep ==
  ASSUME RunAssumption, PtyAssumption, PtyTypeOK, GateInv, [PtyNext]_ptyVars
  PROVE  GateInv'
<1> USE DEF GateInv, HeldUntilInjected, SecretTyped, Preset, Passive, Defer
<1>0. /\ inj \in InjectorStates
      /\ recorded \in Records
      /\ postAuth \in BOOLEAN /\ waited \in BOOLEAN /\ gate \in BOOLEAN /\ fed \in BOOLEAN
  BY DEF PtyTypeOK, InjTypeOK, ScanTypeOK, MainTypeOK
<1>1. ASSUME UNCHANGED <<run, inj, recorded, served, gate, fed>>, postAuth => postAuth',
             waited => waited'
      PROVE  GateInv'
  BY <1>1
<1>2. CASE Scanner
  <2>1. CASE ScanRead
    <3>1. /\ UNCHANGED <<run, inj, served, fed, waited>>
          /\ recorded'.elev = recorded.elev
          /\ postAuth => postAuth'
          /\ gate' => gate \/ (postAuth' /\ ~Defer)
      BY <1>0, <2>1 DEF ScanRead
    <3> QED BY <3>1
  <2>2. CASE ScanRescan \/ ScanReady \/ ScanArm \/ ScanEnds
    BY <1>1, <2>2 DEF ScanRescan, ScanReady, ScanArm, ScanEnds
  <2> QED BY <1>2, <2>1, <2>2 DEF Scanner
<1>3. CASE Injector
  <2>0. UNCHANGED <<run, postAuth, waited, fed>>
    BY <1>3 DEF Injector, InjStart, InjSpawn, InjType, InjFail, InjNonblock, InjDrain,
                InjBlocking, InjRecord, InjOpen, InjEnd
  <2>1. CASE InjType
    <3>1. PICK ask : served' = served \cup {ask} /\ ask \in Prompts \cup {"none"}
      BY <2>1, RunFacts DEF InjType, PtyTypeOK
    <3>2. ask # "failed"
      BY <3>1 DEF Prompts, Secrets, Logins, Sus
    <3> QED BY <2>0, <2>1, <3>1, <3>2 DEF InjType
  <2>2. CASE InjFail
    BY <1>0, <2>0, <2>2 DEF InjFail
  <2>3. CASE InjDrain
    BY <1>1, <2>3 DEF InjDrain
  <2>4. CASE InjStart \/ InjSpawn \/ InjNonblock \/ InjEnd
    <3>1. UNCHANGED <<recorded, served, gate>>
      BY <2>4 DEF InjStart, InjSpawn, InjNonblock, InjEnd
    <3>2. \/ inj'.pc \in {"settle", "child", "ended"}
          \/ inj'.pc = "drain" /\ inj.pc = "typed" /\ inj'.ok = inj.ok
      BY <1>0, <2>4 DEF InjStart, InjSpawn, InjNonblock, InjEnd
    <3> QED BY <1>0, <2>0, <3>1, <3>2
  <2>5. CASE InjBlocking
    BY <1>0, <2>0, <2>5 DEF InjBlocking
  <2>6. CASE InjRecord
    BY <1>0, <2>0, <2>6 DEF InjRecord
  <2>7. CASE InjOpen
    BY <1>0, <2>0, <2>7 DEF InjOpen
  <2> QED BY <1>3, <2>1, <2>2, <2>3, <2>4, <2>5, <2>6, <2>7 DEF Injector
<1>4. CASE User
  BY <1>1, <1>4 DEF User, UserTypes, UserInterrupts, PipeWrites
<1>5. CASE Main \/ Tick
  <2>1. CASE MainForward
    BY <1>0, <2>1 DEF MainForward, Touch
  <2>2. CASE MainOpen
    BY <1>0, <2>2 DEF MainOpen, GateOpens
  <2>3. CASE MainSigint \/ MainEnds \/ MainExit \/ MainGraceOver \/ MainDown \/ MainKill
             \/ MainJoin \/ ExecSaves \/ Tick
    BY <1>1, <2>3 DEF MainSigint, MainEnds, MainExit, MainGraceOver, MainDown, MainKill,
                      MainJoin, ExecSaves, Tick
  <2> QED BY <1>5, <2>1, <2>2, <2>3 DEF Main
<1>6. CASE PeerAsks \/ PeerExits
  BY <1>1, <1>6 DEF PeerAsks, PeerExits
<1>7. CASE UNCHANGED ptyVars
  BY <1>1, <1>7 DEF ptyVars
<1> QED BY <1>2, <1>3, <1>4, <1>5, <1>6, <1>7 DEF PtyNext, RunOver

\* With a record, nothing of the standard input reaches the program before a
\* secret has, but by the banner and the two seconds - and not so when the run
\* waits for an elevation.
THEOREM StdinHeld == PtySpec => []HeldUntilInjected
<1>1. PtyInit => GateInv
  <2>1. ASSUME PtyInit
        PROVE  /\ inj.pc = "idle" /\ recorded.elev = 0 /\ ~fed
               /\ ~(gate /\ Preset /\ ~Passive)
    BY <2>1 DEF PtyInit, InitialGate, Defer
  <2> QED BY <2>1 DEF GateInv, HeldUntilInjected
<1>2. PtyTypeOK /\ GateInv /\ [PtyNext]_ptyVars => GateInv'
  BY PtyAssumption, RunAssumption, GateStep
<1>3. GateInv => HeldUntilInjected
  BY DEF GateInv
<1> QED BY <1>1, <1>2, <1>3, PtyTypeCorrect, PTL DEF PtySpec

\* The prompts that nobody answers by hand unnoticed.
Held == IF Preset /\ (run.keys = 0 \/ Len(run.fields) = 1) THEN Prompts ELSE Secrets

Waits(p) == peer.st = "gone" \/ (peer.st = "asking" /\ Ask = p)
Passed(p) == \E i \in 1..(peer.at - 1) : run.asks[i] = p

\* A prompt that is still to be read or to be dealt with is the last thing
\* printed, and the program waits at it.
OutWaits == \A i \in DOMAIN out : out[i] \in Held => i = Len(out) /\ Waits(out[i])
WindowWaits == \A i \in DOMAIN window :
                 window[i] \in Held => i = Len(window) /\ out = <<>> /\ Waits(window[i])

\* The injection asked for and not yet typed.
Asked == pend.inj \/ inj.pc \in {"settle", "child"}
AskedField == IF inj.pc = "child" THEN inj.field
              ELSE IF pend.field = Nil THEN "password" ELSE pend.field
AskedRid == IF inj.pc = "child" THEN inj.rid
            ELSE IF pend.rid = Nil THEN "outer" ELSE pend.rid
AskedElev == IF inj.pc \in {"settle", "child"} THEN inj.elev ELSE pend.elev

\* It fits the prompt the program waits at.
Suits(f, rid, p) == rid = Owner(p) /\ Suited(rid, f, p)
Fits(f, rid, elev, p) ==
  /\ p \in Held
  /\ elev => p \in Sus
  /\ HasField(rid, f) =>
       /\ TellsHops => Suits(f, rid, p)
       /\ Dual /\ f = "password" => p \in Logins \cup Sus
       /\ f = "password" => HasField("outer", "password")

AskedFits ==
  Asked => /\ Preset /\ window = <<>> /\ out = <<>>
           /\ ~(pend.inj /\ inj.pc \in {"settle", "child"})
           /\ \/ peer.st = "gone"
              \/ peer.st = "asking" /\ Fits(AskedField, AskedRid, AskedElev, Ask)

\* What was typed and is not yet recorded.
InFlight == inj.pc = "record" \/ (inj.pc \in {"typed", "drain"} /\ inj.ok)

\* The outer hop of a route counts as logged in once its password was typed.
OuterDone ==
  run.kind = "outer" /\ Passed("login") =>
    /\ HasField("outer", "password")
    /\ recorded.login \/ (InFlight /\ ~inj.elev /\ inj.field = "password")

\* With both records of a route: what counts as a login was the outer hop's, and
\* no other prompt of that hop's login is still to come.
DualDone ==
  Dual /\ TellsHops =>
    /\ \/ recorded.login \/ recorded.inner \/ "password" \in recorded.fields
       \/ InFlight /\ inj.field = "password"
       => \A i \in peer.at..Len(run.asks) : run.asks[i] # "login"
    /\ Passed("inner") => HasField("outer", "password")

\* Nothing is left to ask but what the session itself asks for.
SusLeft == \A i \in peer.at..Len(run.asks) : run.asks[i] \in Sus

\* A banner that is not the first thing printed comes after the last login.
BannerLate ==
  ~run.preBanner /\ (Has(window, {"banner"}) \/ Has(out, {"banner"})) => run.banner /\ SusLeft

\* Nobody types, and an empty record asks for no second one.
NoKeys == Preset /\ run.keys = 0 => ~sigint /\ \A i \in DOMAIN stdin : stdin[i].part = "eof"
NoFields == run.fields = <<>> => pend.rid = Nil /\ ~pend.elev

\* What holds as long as no prompt was answered by hand.
HandInv == OutWaits /\ WindowWaits /\ AskedFits /\ OuterDone /\ DualDone

LEMMA SameRun ==
  ASSUME run' = run
  PROVE  /\ Held' = Held /\ Preset' = Preset /\ Dual' = Dual
         /\ \A rid, f : HasField(rid, f)' = HasField(rid, f)
         /\ \A f, rid, p : Suits(f, rid, p)' = Suits(f, rid, p)
         /\ clean' = clean => TellsHops' = TellsHops
<1> USE DEF Preset, Dual, Outer, FieldsOf, HasField, Owner, Wanted, Suited, Suits
<1>1. Held' = Held
  BY DEF Held
<1>2. \A rid, f : HasField(rid, f)' = HasField(rid, f)
  OBVIOUS
<1>3. \A f, rid, p : Suits(f, rid, p)' = Suits(f, rid, p)
  OBVIOUS
<1>4. clean' = clean => TellsHops' = TellsHops
  BY DEF TellsHops
<1> QED BY <1>1, <1>2, <1>3, <1>4

LEMMA SameFits ==
  ASSUME run' = run, clean' = clean
  PROVE  \A f, rid, elev, p : Fits(f, rid, elev, p)' = Fits(f, rid, elev, p)
BY SameRun DEF Fits

\* The program only moves on, or ends.
LEMMA Kept ==
  ASSUME UNCHANGED <<run, pend, inj, clean, recorded, window, out>>,
         peer'.at = peer.at, peer'.st = peer.st \/ peer'.st = "gone", HandInv
  PROVE  HandInv'
<1>0. \A p : Waits(p) => Waits(p)'
  BY DEF Waits, Ask
<1>1. OutWaits'
  BY <1>0, SameRun DEF HandInv, OutWaits
<1>2. WindowWaits'
  BY <1>0, SameRun DEF HandInv, WindowWaits
<1>3. AskedFits'
  <2>1. Asked' = Asked /\ AskedField' = AskedField /\ AskedRid' = AskedRid
        /\ AskedElev' = AskedElev /\ Ask' = Ask
    BY DEF Asked, AskedField, AskedRid, AskedElev, Ask
  <2> QED BY <2>1, SameRun, SameFits DEF HandInv, AskedFits
<1>4. OuterDone'
  BY SameRun DEF HandInv, OuterDone, Passed, InFlight
<1>5. DualDone'
  BY SameRun DEF HandInv, DualDone, Passed, InFlight
<1> QED BY <1>1, <1>2, <1>3, <1>4, <1>5 DEF HandInv

LEMMA HeldFacts ==
  /\ Held \subseteq Prompts /\ Secrets \subseteq Held
  /\ {"banner", "closed", "sorry", "denied"} \cap Held = {}
  /\ "login" \in Held /\ "inner" \in Held /\ "key" \in Held /\ Sus \subseteq Held
  /\ "yesno" \in Held <=> Preset /\ (run.keys = 0 \/ Len(run.fields) = 1)
BY DEF Held, Prompts, Secrets, Logins, Sus

\* While the program is not waiting, nothing printed is a prompt to deal with.
LEMMA NotWaiting ==
  ASSUME PeerTypeOK, ScanTypeOK, HandInv, \A p \in Held : ~Waits(p)
  PROVE  /\ \A i \in DOMAIN out : out[i] \notin Held
         /\ \A i \in DOMAIN window : window[i] \notin Held
BY DEF HandInv, OutWaits, WindowWaits

LEMMA AsksKeeps ==
  ASSUME RunAssumption, PtyTypeOK, HandInv, PeerAsks
  PROVE  HandInv'
<1>0. /\ peer \in Peers /\ out \in Seq(Tokens) /\ run.asks \in Seq(Prompts) /\ peer.st = "busy"
      /\ UNCHANGED <<run, pend, inj, clean, recorded, window>> /\ peer'.at = peer.at
  <2>1. peer \in Peers /\ out \in Seq(Tokens) /\ run.asks \in Seq(Prompts)
    BY RunFacts DEF PtyTypeOK, PeerTypeOK
  <2>2. peer'.at = peer.at
    BY <2>1 DEF PeerAsks, Peers
  <2> QED BY <2>1, <2>2 DEF PeerAsks
<1>1. /\ \A i \in DOMAIN out : out[i] \notin Held
      /\ \A i \in DOMAIN window : window[i] \notin Held
  BY <1>0, NotWaiting DEF Waits, PtyTypeOK
<1>2. ~Asked /\ ~Asked'
  BY <1>0 DEF HandInv, AskedFits, Asked
<1>3. OutWaits'
  <2>1. CASE peer.at <= Len(run.asks)
    <3>1. out' = Append(out, Ask) /\ peer'.st = "asking" /\ Ask' = Ask
      BY <1>0, <2>1 DEF PeerAsks, Ask, Peers
    <3>2. ASSUME NEW i \in DOMAIN out', out'[i] \in Held
          PROVE  i = Len(out') /\ out'[i] = Ask
      BY <1>0, <1>1, <3>1, <3>2
    <3> QED BY <1>0, <3>1, <3>2, SameRun DEF OutWaits, Waits
  <2>2. CASE ~(peer.at <= Len(run.asks))
    BY <1>0, <1>1, <2>2, SameRun DEF OutWaits, PeerAsks
  <2> QED BY <2>1, <2>2
<1>4. WindowWaits'
  BY <1>0, <1>1, SameRun DEF WindowWaits
<1>5. OuterDone' /\ DualDone'
  BY <1>0, SameRun DEF HandInv, OuterDone, DualDone, Passed, InFlight
<1> QED BY <1>2, <1>3, <1>4, <1>5 DEF HandInv, AskedFits

LEMMA ExitsKeeps ==
  ASSUME RunAssumption, PtyTypeOK, HandInv, PeerExits
  PROVE  HandInv'
<1>0. /\ peer \in Peers /\ out \in Seq(Tokens) /\ peer'.st = "gone" /\ peer'.at = peer.at
      /\ UNCHANGED <<run, pend, inj, clean, recorded, window>>
  <2>1. peer \in Peers /\ out \in Seq(Tokens)
    BY DEF PtyTypeOK, PeerTypeOK
  <2>2. peer'.st = "gone" /\ peer'.at = peer.at
    BY <2>1 DEF PeerExits, Peers
  <2> QED BY <2>1, <2>2 DEF PeerExits
<1>1. CASE peer.st # "shell"
  BY <1>0, <1>1, Kept DEF PeerExits
<1>2. CASE peer.st = "shell"
  <2>1. /\ \A i \in DOMAIN out : out[i] \notin Held
        /\ \A i \in DOMAIN window : window[i] \notin Held
    BY <1>2, NotWaiting DEF Waits, PtyTypeOK
  <2>2. ~Asked /\ ~Asked'
    BY <1>0, <1>2 DEF HandInv, AskedFits, Asked
  <2>3. OutWaits'
    <3>1. out' = Append(out, "closed")
      BY <1>2 DEF PeerExits
    <3>2. \A i \in DOMAIN out' : out'[i] \notin Held
      BY <1>0, <2>1, <3>1, HeldFacts
    <3> QED BY <1>0, <3>2, SameRun DEF OutWaits
  <2>4. WindowWaits'
    BY <1>0, <2>1, SameRun DEF WindowWaits
  <2>5. OuterDone' /\ DualDone'
    BY <1>0, SameRun DEF HandInv, OuterDone, DualDone, Passed, InFlight
  <2> QED BY <2>2, <2>3, <2>4, <2>5 DEF HandInv, AskedFits
<1> QED BY <1>1, <1>2

\* The host-key question answered by hand.
LEMMA YesKeeps ==
  ASSUME RunAssumption, PtyTypeOK, HandInv, peer.st = "asking", Ask = "yesno", "yesno" \notin Held,
         NEW line, Right(line) \/ Wrong,
         UNCHANGED <<run, pend, inj, clean, recorded, window>>
  PROVE  HandInv'
<1>0. /\ peer \in Peers /\ out \in Seq(Tokens) /\ run.asks \in Seq(Prompts)
      /\ peer.at \in 1..Len(run.asks) /\ run.asks[peer.at] = "yesno"
  BY RunFacts DEF PtyTypeOK, PeerTypeOK, Ask
<1>1. /\ \A i \in DOMAIN out : out[i] \notin Held
      /\ \A i \in DOMAIN window : window[i] \notin Held
  BY NotWaiting DEF Waits, PtyTypeOK
<1>2. ~Asked /\ ~Asked'
  BY DEF HandInv, AskedFits, Asked, Fits
<1>3. peer'.at \in {peer.at, peer.at + 1}
  <2>1. peer' \in {NextAsk, [peer EXCEPT !.tries = @ + 1, !.line = <<>>],
                  [peer EXCEPT !.st = "gone", !.line = <<>>]}
    BY DEF Right, Wrong
  <2>2. CASE peer' = NextAsk
    BY <2>2 DEF NextAsk
  <2>3. CASE peer' # NextAsk
    BY <1>0, <2>1, <2>3 DEF Peers
  <2> QED BY <2>2, <2>3
<1>4. OutWaits'
  <2>1. "yesno" \notin Sus \cup Logins \cup {"key"}
    BY DEF Sus, Logins
  <2>2. out' \in {out, out \o <<>>, out \o <<"banner">>}
    BY <2>1 DEF Right, Wrong, Greeting, Again
  <2>3. \A i \in DOMAIN out' : out'[i] \notin Held
    <3>1. CASE out' = out \o <<"banner">>
      BY <1>0, <1>1, <3>1, HeldFacts
    <3>2. CASE out' # out \o <<"banner">>
      BY <1>0, <1>1, <2>2, <3>2
    <3> QED BY <3>1, <3>2
  <2> QED BY <2>3, SameRun DEF OutWaits
<1>5. WindowWaits'
  BY <1>1, SameRun DEF WindowWaits
<1>6. \A p : p # "yesno" /\ Passed(p)' => Passed(p)
  BY <1>0, <1>3 DEF Passed
<1>7. OuterDone'
  BY <1>6, SameRun DEF HandInv, OuterDone, InFlight
<1>8. DualDone'
  <2>1. \A i \in peer'.at..Len(run.asks) : i \in peer.at..Len(run.asks)
    BY <1>0, <1>3
  <2> QED BY <1>6, <2>1, SameRun DEF HandInv, DualDone, InFlight
<1> QED BY <1>2, <1>4, <1>5, <1>7, <1>8 DEF HandInv, AskedFits

\* What a read of n tokens leaves of s and puts behind w.
LEMMA Pieces ==
  ASSUME NEW s \in Seq(Tokens), NEW w \in Seq(Tokens), NEW n \in 1..Len(s), NEW s2, NEW w2,
         s2 = SubSeq(s, n + 1, Len(s)), w2 = w \o SubSeq(s, 1, n)
  PROVE  /\ s2 \in Seq(Tokens) /\ Len(s2) = Len(s) - n
         /\ \A i \in 1..Len(s2) : s2[i] = s[i + n]
         /\ w2 \in Seq(Tokens) /\ Len(w2) = Len(w) + n
         /\ \A i \in 1..Len(w) : w2[i] = w[i]
         /\ \A i \in 1..n : w2[Len(w) + i] = s[i]
<1>1. s2 \in Seq(Tokens) /\ Len(s2) = Len(s) - n /\ \A i \in 1..Len(s2) : s2[i] = s[i + n]
  OBVIOUS
<1> DEFINE t == SubSeq(s, 1, n)
<1>2. t \in Seq(Tokens) /\ Len(t) = n /\ \A i \in 1..n : t[i] = s[i]
  OBVIOUS
<1>3. w2 = w \o t
  OBVIOUS
<1> HIDE DEF t
<1>4. /\ w2 \in Seq(Tokens) /\ Len(w2) = Len(w) + n
      /\ \A i \in 1..Len(w) : w2[i] = w[i]
      /\ \A i \in 1..n : w2[Len(w) + i] = s[i]
  BY <1>2, <1>3
<1> QED BY <1>1, <1>4

\* What is read was printed.
LEMMA ReadFacts ==
  ASSUME PtyTypeOK, ScanRead
  PROVE  /\ out \in Seq(Tokens) /\ window \in Seq(Tokens) /\ out # <<>>
         /\ \E n \in 1..Len(out) :
              /\ out' \in Seq(Tokens) /\ Len(out') = Len(out) - n
              /\ \A i \in 1..Len(out') : out'[i] = out[i + n]
              /\ window' \in Seq(Tokens) /\ Len(window') = Len(window) + n
              /\ \A i \in 1..Len(window) : window'[i] = window[i]
              /\ \A i \in 1..n : window'[Len(window) + i] = out[i]
         /\ \/ recorded' = recorded
            \/ /\ recorded' = [recorded EXCEPT !.login = TRUE]
               /\ Outer /\ ~postAuth /\ Has(window', {"banner"})
<1>0. /\ out \in Seq(Tokens) /\ window \in Seq(Tokens) /\ out # <<>>
  BY DEF PtyTypeOK, PeerTypeOK, ScanTypeOK, ScanRead
<1>1. PICK n \in {1, Len(out)} :
        /\ out' = SubSeq(out, n + 1, Len(out)) /\ window' = window \o SubSeq(out, 1, n)
        /\ \/ recorded' = recorded
           \/ /\ recorded' = [recorded EXCEPT !.login = TRUE]
              /\ Outer /\ ~postAuth /\ Has(window', {"banner"})
  BY DEF ScanRead
<1>2. n \in 1..Len(out)
  BY <1>0, <1>1
<1> DEFINE rest == SubSeq(out, n + 1, Len(out))
           more == window \o SubSeq(out, 1, n)
<1>3. /\ rest \in Seq(Tokens) /\ Len(rest) = Len(out) - n
      /\ \A i \in 1..Len(rest) : rest[i] = out[i + n]
      /\ more \in Seq(Tokens) /\ Len(more) = Len(window) + n
      /\ \A i \in 1..Len(window) : more[i] = window[i]
      /\ \A i \in 1..n : more[Len(window) + i] = out[i]
  BY <1>0, <1>2, Pieces
<1>4. out' = rest /\ window' = more
  BY <1>1
<1> HIDE DEF rest, more
<1> QED BY <1>0, <1>1, <1>2, <1>3, <1>4

LEMMA ReadBanner ==
  ASSUME PtyTypeOK, ScanRead
  PROVE  /\ Has(window, {"banner"})' => Has(window, {"banner"}) \/ Has(out, {"banner"})
         /\ Has(out, {"banner"})' => Has(out, {"banner"})
<1>1. out \in Seq(Tokens) /\ window \in Seq(Tokens)
  BY ReadFacts
<1>2. PICK n \in 1..Len(out) :
        /\ out' \in Seq(Tokens) /\ Len(out') = Len(out) - n
        /\ \A i \in 1..Len(out') : out'[i] = out[i + n]
        /\ window' \in Seq(Tokens) /\ Len(window') = Len(window) + n
        /\ \A i \in 1..Len(window) : window'[i] = window[i]
        /\ \A i \in 1..n : window'[Len(window) + i] = out[i]
  BY ReadFacts
<1>3. ASSUME NEW i \in 1..Len(out'), out'[i] = "banner" PROVE Has(out, {"banner"})
  <2>1. i + n \in DOMAIN out /\ out[i + n] = "banner"
    BY <1>1, <1>2, <1>3
  <2> QED BY <2>1 DEF Has
<1>4. ASSUME NEW i \in 1..Len(window'), window'[i] = "banner"
      PROVE  Has(window, {"banner"}) \/ Has(out, {"banner"})
  <2>1. i \in 1..(Len(window) + n) /\ Len(window) \in Nat /\ n \in Nat
    BY <1>1, <1>2, <1>4
  <2>2. CASE i <= Len(window)
    BY <1>1, <1>2, <1>4, <2>1, <2>2 DEF Has
  <2>3. CASE i > Len(window)
    <3>1. i - Len(window) \in 1..n /\ i = Len(window) + (i - Len(window))
      BY <2>1, <2>3
    <3>2. out[i - Len(window)] = "banner" /\ i - Len(window) \in DOMAIN out
      BY <1>1, <1>2, <1>4, <3>1
    <3> QED BY <3>2 DEF Has
  <2> QED BY <2>1, <2>2, <2>3
<1>5. DOMAIN out' = 1..Len(out') /\ DOMAIN window' = 1..Len(window')
  BY <1>2
<1> QED BY <1>3, <1>4, <1>5 DEF Has

LEMMA ReadKeeps ==
  ASSUME RunAssumption, PtyTypeOK, BannerLate, HandInv, ScanRead
  PROVE  HandInv'
<1>0. /\ out \in Seq(Tokens) /\ window \in Seq(Tokens) /\ out # <<>>
      /\ recorded \in Records /\ UNCHANGED <<run, peer, pend, inj, clean>>
  <2>1. recorded \in Records
    BY DEF PtyTypeOK, InjTypeOK
  <2> QED BY <2>1, ReadFacts DEF ScanRead
<1>1. \/ recorded' = recorded
      \/ /\ recorded' = [recorded EXCEPT !.login = TRUE]
         /\ Outer /\ ~postAuth /\ Has(window', {"banner"})
  BY ReadFacts
<1>2. PICK n \in 1..Len(out) :
        /\ out' \in Seq(Tokens) /\ Len(out') = Len(out) - n
        /\ \A i \in 1..Len(out') : out'[i] = out[i + n]
        /\ window' \in Seq(Tokens) /\ Len(window') = Len(window) + n
        /\ \A i \in 1..Len(window) : window'[i] = window[i]
        /\ \A i \in 1..n : window'[Len(window) + i] = out[i]
  BY ReadFacts
<1>3. \A i \in DOMAIN window : window[i] \notin Held
  BY <1>0 DEF HandInv, WindowWaits
<1>4. \A p : Waits(p)' = Waits(p)
  BY <1>0 DEF Waits, Ask
<1>5. OutWaits'
  <2>1. ASSUME NEW i \in 1..Len(out'), out'[i] \in Held
        PROVE  i = Len(out') /\ Waits(out'[i])
    <3>1. i + n \in 1..Len(out) /\ out'[i] = out[i + n]
      BY <1>0, <1>2
    <3>2. out[i + n] \in Held /\ i + n \in DOMAIN out
      BY <1>0, <2>1, <3>1
    <3>3. i + n = Len(out) /\ Waits(out[i + n])
      BY <3>2 DEF HandInv, OutWaits
    <3>4. i = Len(out')
      <4>1. Len(out') = Len(out) - n /\ n \in 1..Len(out) /\ Len(out) \in Nat
        BY <1>0, <1>2
      <4>2. i \in Nat
        OBVIOUS
      <4> QED BY <3>3, <4>1, <4>2
    <3> QED BY <3>1, <3>3, <3>4
  <2>2. \A i \in DOMAIN out' : i \in 1..Len(out')
    BY <1>2
  <2>3. Held' = Held /\ peer' = peer /\ run' = run
    BY <1>0, SameRun
  <2> QED BY <2>1, <2>2, <2>3 DEF OutWaits, Waits, Ask
<1>6. WindowWaits'
  <2>1. ASSUME NEW i \in DOMAIN window', window'[i] \in Held
        PROVE  i = Len(window') /\ out' = <<>> /\ Waits(window'[i])
    <3>1. i \in 1..Len(window') /\ Len(window) \in Nat /\ Len(out) \in Nat
      BY <1>0, <1>2, <2>1
    <3>2. ~(i <= Len(window))
      <4>1. ASSUME i <= Len(window) PROVE FALSE
        <5>1. i \in 1..Len(window) /\ i \in DOMAIN window
          BY <1>0, <3>1, <4>1
        <5>2. window'[i] = window[i]
          BY <1>2, <5>1
        <5> QED BY <1>3, <2>1, <5>1, <5>2
      <4> QED BY <4>1
    <3>3. PICK k \in 1..n : i = Len(window) + k
      <4>1. Len(window') = Len(window) + n /\ n \in Nat
        BY <1>0, <1>2
      <4>2. i - Len(window) \in 1..n /\ i = Len(window) + (i - Len(window))
        BY <3>1, <3>2, <4>1
      <4> QED BY <4>2
    <3>4. window'[i] = out[k] /\ k \in DOMAIN out
      BY <1>0, <1>2, <3>3
    <3>5. k = Len(out) /\ Waits(window'[i])
      BY <2>1, <3>4 DEF HandInv, OutWaits
    <3>6. n = Len(out) /\ i = Len(window')
      <4>1. n \in 1..Len(out) /\ Len(window') = Len(window) + n
        BY <1>2
      <4> QED BY <3>1, <3>3, <3>5, <4>1
    <3>7. out' = <<>>
      BY <1>2, <3>1, <3>6
    <3> QED BY <3>5, <3>6, <3>7
  <2> HIDE DEF Waits
  <2> QED BY <1>0, <1>4, <2>1, SameRun DEF WindowWaits
<1>7. ~Asked /\ ~Asked'
  BY <1>0 DEF HandInv, AskedFits, Asked
<1>8. OuterDone'
  BY <1>0, <1>1, SameRun DEF HandInv, OuterDone, Passed, InFlight
<1>9. DualDone'
  <2>1. CASE recorded' = recorded
    BY <1>0, <2>1, SameRun DEF HandInv, DualDone, Passed, InFlight
  <2>2. CASE Has(window', {"banner"})
    <3>1. Has(window, {"banner"}) \/ Has(out, {"banner"})
      BY <2>2, ReadBanner DEF Has
    <3>2. Dual /\ TellsHops => \A i \in peer.at..Len(run.asks) : run.asks[i] \in Sus
      BY <3>1 DEF BannerLate, SusLeft, TellsHops
    <3>3. "login" \notin Sus
      BY DEF Sus
    <3>4. Dual /\ TellsHops => \A i \in peer.at..Len(run.asks) : run.asks[i] # "login"
      BY <3>2, <3>3
    <3> QED BY <1>0, <3>4, SameRun DEF HandInv, DualDone, Passed
  <2> QED BY <1>1, <2>1, <2>2
<1> QED BY <1>5, <1>6, <1>7, <1>8, <1>9 DEF HandInv, AskedFits

\* What the prompt at the end of the window hides: the window has no other.
LEMMA WindowHas ==
  ASSUME PtyTypeOK, HandInv, PromptAtEnd(window)
  PROVE  /\ \A S : S \subseteq Secrets => (Has(window, S) <=> Last(window) \in S)
         /\ Last(window) \in Prompts
         /\ Last(window) \in Held => out = <<>> /\ Waits(Last(window))
<1>1. window \in Seq(Tokens) /\ window # <<>> /\ Last(window) \in Prompts
  BY DEF PtyTypeOK, ScanTypeOK, PromptAtEnd
<1>2. Len(window) \in DOMAIN window /\ Last(window) = window[Len(window)]
  BY <1>1 DEF Last
<1>3. ASSUME NEW S, S \subseteq Secrets PROVE Has(window, S) <=> Last(window) \in S
  <2>1. ASSUME NEW i \in DOMAIN window, window[i] \in S PROVE i = Len(window)
    BY <1>3, <2>1, HeldFacts DEF HandInv, WindowWaits
  <2> QED BY <1>2, <2>1 DEF Has
<1> QED BY <1>1, <1>2, <1>3 DEF HandInv, WindowWaits

\* The field for a prompt is one of the record's.
LEMMA FieldFacts ==
  ASSUME RunAssumption, PtyAssumption, PtyTypeOK, NEW w, FieldForPrompt(w) # Nil
  PROVE  /\ FieldForPrompt(w) \in FieldNames
         /\ HasField("outer", FieldForPrompt(w))
<1>1. run.fields \in Seq(FieldNames)
  BY RunFacts DEF PtyTypeOK
<1>2. ASSUME Len(run.fields) = 1
      PROVE  run.fields[1] \in FieldNames /\ HasField("outer", run.fields[1])
  BY <1>1, <1>2 DEF HasField, FieldsOf, Contains
<1>3. \/ /\ FieldForPrompt(w) \in {"key_passphrase", "password"}
         /\ HasField("outer", FieldForPrompt(w))
      \/ Len(run.fields) = 1 /\ FieldForPrompt(w) = run.fields[1]
  BY DEF FieldForPrompt
<1> QED BY <1>2, <1>3 DEF FieldNames

\* The record of the inner host has a password only.
LEMMA InnerFields ==
  /\ HasField("inner", "password")
  /\ \A f : HasField("inner", f) => f = "password"
<1>1. <<"password">>[1] = "password" /\ DOMAIN <<"password">> = {1}
  OBVIOUS
<1> QED BY <1>1 DEF HasField, FieldsOf, Contains

\* Nothing is wanted at a host-key question.
LEMMA NothingWanted ==
  ASSUME RunAssumption, PtyTypeOK PROVE ~HasField("outer", "nothing")
<1>1. run.fields \in Seq(FieldNames)
  BY RunFacts DEF PtyTypeOK
<1>2. "nothing" \notin FieldNames
  BY DEF FieldNames
<1> QED BY <1>1, <1>2 DEF HasField, FieldsOf, Contains

\* What the scanner arms for the prompt at the end of the window fits it.
LEMMA ArmFits ==
  ASSUME RunAssumption, PtyAssumption, InOrder(run), PtyTypeOK, HandInv, PromptAtEnd(window),
         Preset, ArmsInjection(window), peer.st = "asking", Ask = Last(window),
         NEW f, f = FieldForPrompt(window),
         NEW rid, rid = IF UsesInner(window, f) THEN "inner" ELSE "outer",
         HasField(rid, f)
  PROVE  /\ (IF Dual THEN run.hint /\ ~run.preBanner /\ run.good ELSE inj.pc = "idle")
              => Suits(f, rid, Last(window))
         /\ Dual /\ f = "password" => Last(window) \in Logins \cup Sus
         /\ f = "password" => HasField("outer", "password")
<1> DEFINE p == Last(window)
<1>1. /\ \A S : S \subseteq Secrets => (Has(window, S) <=> p \in S)
      /\ p \in Prompts
  BY WindowHas
<1>2. /\ Has(window, {"key"}) <=> p = "key"
      /\ Has(window, Logins) <=> p \in Logins
      /\ Has(window, Logins \cup Sus) <=> p \in Logins \cup Sus
      /\ Has(window, {"inner"}) <=> p = "inner"
  <2>1. {"key"} \subseteq Secrets /\ Logins \subseteq Secrets /\ Logins \cup Sus \subseteq Secrets
        /\ {"inner"} \subseteq Secrets
    BY DEF Secrets, Logins, Sus
  <2> QED BY <1>1, <2>1
<1>3. f # Nil /\ f \in FieldNames /\ HasField("outer", f)
  BY FieldFacts DEF ArmsInjection
<1>4. ShouldArm(window, f)
  BY DEF ArmsInjection
<1>5. f = "password" \/ f = "key_passphrase"
  BY <1>3 DEF FieldNames
<1>6. peer.at \in 1..Len(run.asks) /\ run.asks[peer.at] = p
  BY RunFacts DEF PtyTypeOK, Ask
<1> HIDE DEF p
<1>7. IsSshLogin(window) <=> p \in Logins
  BY <1>2 DEF IsSshLogin, p, Sus, Logins
<1>8. IsElevation(window) => p \in Sus
  BY DEF IsElevation, p, Sus
<1>9. p = "login" \/ p = "inner" \/ p \in Sus \/ p = "key" \/ p = "yesno"
  BY <1>1 DEF Prompts, Secrets, Logins
<1>10. /\ "login" \in Logins /\ "inner" \in Logins
       /\ \A q \in Sus : q \notin Logins /\ q # "key" /\ q # "yesno" /\ q # "login" /\ q # "inner"
       /\ "key" \notin Logins /\ "yesno" \notin Logins
  BY DEF Logins, Sus
<1>11. ASSUME Outer, f = "password" PROVE ArmsOuter(window, f)
  BY <1>4, <1>11 DEF ShouldArm
<1>12. ASSUME HasField("outer", "password"), p \in Logins \cup Sus PROVE f = "password"
  <2>1. ~Has(window, {"key"}) /\ Has(window, Logins \cup Sus)
    BY <1>2, <1>10, <1>12
  <2> QED BY <1>12, <2>1 DEF FieldForPrompt
<1>13. p = "key" /\ HasField("outer", "key_passphrase") => f = "key_passphrase"
  BY <1>2 DEF FieldForPrompt
<1>14. f = "password" => HasField("outer", "password")
  BY <1>3
<1>15. Dual => Outer
  BY DEF Dual, Outer
<1>16. Dual /\ f = "password" => p \in Logins \cup Sus
  BY <1>7, <1>8, <1>11, <1>15 DEF ArmsOuter
<1>17. rid = "inner" => f = "password" /\ Dual
  BY InnerFields DEF UsesInner
<1>18. rid \in {"outer", "inner"}
  OBVIOUS
<1>19. ASSUME rid = Owner(p) PROVE Suited(rid, f, p)
  <2>1. CASE rid = "inner"
    <3>1. p \in Logins \cup Sus
      BY <1>10, <1>19, <2>1 DEF Owner
    <3>2. p # "yesno" /\ p # "key"
      BY <1>10, <3>1
    <3> QED BY <1>17, <2>1, <3>2 DEF Suited, Wanted
  <2>2. CASE rid = "outer"
    <3>1. FieldsOf(rid) = run.fields
      BY <2>2 DEF FieldsOf
    <3>2. CASE p = "yesno"
      <4>1. ~Has(window, {"key"}) /\ ~Has(window, Logins \cup Sus)
        BY <1>2, <1>10, <3>2
      <4>2. Len(run.fields) = 1
        BY <1>3, <4>1 DEF FieldForPrompt
      <4> QED BY <2>2, <3>1, <3>2, <4>2, NothingWanted DEF Suited, Wanted
    <3>3. CASE p = "key"
      <4>1. Has(window, {"key"}) /\ ~Has(window, Logins \cup Sus)
        BY <1>2, <1>10, <3>3
      <4>2. ~HasField("outer", "key_passphrase") => Len(run.fields) = 1
        BY <1>3, <4>1 DEF FieldForPrompt
      <4> QED BY <1>13, <2>2, <3>1, <3>3, <4>2 DEF Suited, Wanted
    <3>4. CASE p \in Logins \cup Sus
      <4>1. ~Has(window, {"key"}) /\ Wanted(p) = "password"
        BY <1>2, <1>10, <3>4 DEF Wanted
      <4>2. ~HasField("outer", "password") => Len(run.fields) = 1
        BY <1>3, <4>1 DEF FieldForPrompt
      <4> QED BY <1>12, <2>2, <3>1, <3>4, <4>1, <4>2 DEF Suited
    <3> QED BY <1>9, <1>10, <3>2, <3>3, <3>4
  <2> QED BY <1>18, <2>1, <2>2
<1>20. ASSUME IF Dual THEN run.hint /\ ~run.preBanner /\ run.good ELSE inj.pc = "idle"
       PROVE  rid = Owner(p)
  <2>1. CASE ~Outer
    <3>1. ~Contains(run.asks, "inner")
      BY <2>1 DEF InOrder, Outer
    <3>2. p # "inner"
      BY <1>6, <3>1, RunFacts DEF Contains, PtyTypeOK
    <3> QED BY <1>15, <1>17, <1>18, <2>1, <3>2 DEF Owner
  <2>2. CASE Outer /\ ~Dual
    <3>1. SUFFICES ASSUME p = "inner" \/ p \in Sus PROVE FALSE
      BY <1>17, <1>18, <2>2 DEF Owner
    <3>2. run.kind = "outer"
      BY <2>2 DEF Outer, Dual
    <3>3. Passed("login")
      BY <1>6, <3>1, <3>2 DEF InOrder, Passed
    <3>4. HasField("outer", "password") /\ recorded.login
      BY <1>20, <2>2, <3>2, <3>3 DEF HandInv, OuterDone, InFlight
    <3>5. f = "password"
      BY <1>10, <1>12, <3>1, <3>4
    <3>6. ArmsOuter(window, f)
      BY <1>11, <2>2, <3>5
    <3> QED BY <2>2, <3>4, <3>6 DEF ArmsOuter, LoginDone
  <2>3. CASE Dual
    <3>0. TellsHops /\ DualDone
      BY <1>20, <2>3 DEF TellsHops, HandInv
    <3>1. CASE p = "login"
      <4>1. SUFFICES ASSUME rid = "inner" PROVE FALSE
        BY <1>10, <1>18, <3>1 DEF Owner
      <4>2. ~IsInnerHop(window) /\ ~IsElevation(window)
        BY <1>2, <1>8, <1>10, <3>1 DEF IsInnerHop
      <4>3. SecondHop(window, f) /\ f = "password"
        BY <1>17, <4>1, <4>2 DEF UsesInner
      <4>4. recorded.login \/ "password" \in recorded.fields
        BY <4>3 DEF SecondHop, LoginDone, Already
      <4>5. \A i \in peer.at..Len(run.asks) : run.asks[i] # "login"
        BY <2>3, <3>0, <4>4 DEF DualDone
      <4>6. peer.at \in peer.at..Len(run.asks)
        BY <1>6, RunFacts DEF PtyTypeOK
      <4> QED BY <1>6, <3>1, <4>5, <4>6
    <3>2. CASE p = "inner"
      BY <1>2, <1>7, <1>10, <1>20, <2>3, <3>2 DEF UsesInner, IsInnerHop, Owner
    <3>3. CASE p \in Sus
      <4>1. SUFFICES ASSUME rid = "outer" PROVE FALSE
        BY <1>15, <1>18, <2>3, <3>3 DEF Owner
      <4>2. ~IsSshLogin(window)
        BY <1>7, <1>10, <3>3
      <4>3. f # "password"
        BY <1>11, <1>15, <2>3, <4>1, <4>2 DEF ArmsOuter, UsesInner
      <4>4. ~HasField("outer", "password")
        BY <1>12, <3>3, <4>3
      <4>5. Passed("inner")
        BY <1>6, <2>3, <3>3, <4>4 DEF InOrder, Passed, HasField, FieldsOf, Dual
      <4> QED BY <2>3, <3>0, <4>4, <4>5 DEF DualDone
    <3>4. CASE p = "key" \/ p = "yesno"
      <4>1. ~IsSshLogin(window) /\ ~IsElevation(window)
        BY <1>7, <1>8, <1>10, <3>4
      <4>2. rid = "outer"
        BY <4>1 DEF UsesInner, IsInnerHop, SecondHop
      <4> QED BY <1>10, <3>4, <4>2 DEF Owner
    <3> QED BY <1>9, <3>1, <3>2, <3>3, <3>4
  <2> QED BY <2>1, <2>2, <2>3
<1> QED BY <1>14, <1>16, <1>19, <1>20 DEF Suits, p

LEMMA ArmKeeps ==
  ASSUME RunAssumption, PtyAssumption, InOrder(run), PtyTypeOK, NoFields, HandInv, Arm(window),
         UNCHANGED <<run, peer, out, inj, recorded>>
  PROVE  HandInv'
<1> DEFINE arms == PromptAtEnd(window) /\ ~capture.on /\ ~pend.inj
           bare == Preset /\ run.fields = <<>> /\ Last(window) # "yesno"
           full == Preset /\ run.fields # <<>> /\ ArmsInjection(window)
           f == FieldForPrompt(window)
<1>1. /\ window' = window \/ window' = <<>>
      /\ arms /\ (bare \/ full) => window' = <<>> /\ clean' = (inj.pc = "idle")
      /\ ~(arms /\ (bare \/ full)) => pend' = pend /\ clean' = clean
      /\ arms /\ bare => pend' = [pend EXCEPT !.inj = TRUE]
      /\ arms /\ full => pend' = [inj |-> TRUE, field |-> f,
                                  rid |-> IF UsesInner(window, f) THEN "inner" ELSE Nil,
                                  elev |-> IsElevation(window)]
  BY DEF Arm
<1> HIDE DEF bare, full, f
<1>2. OutWaits' /\ WindowWaits'
  <2>1. Held' = Held /\ peer' = peer /\ run' = run /\ out' = out
    BY SameRun
  <2> QED BY <1>1, <2>1 DEF HandInv, OutWaits, WindowWaits, Waits, Ask
<1>3. OuterDone' /\ DualDone'
  <2>1. Dual /\ TellsHops' => TellsHops
    BY DEF TellsHops, Dual
  <2> QED BY <2>1, SameRun DEF HandInv, OuterDone, DualDone, Passed, InFlight
<1>4. AskedFits'
  <2>1. CASE ~(arms /\ (bare \/ full))
    <3>1. Asked' = Asked /\ AskedField' = AskedField /\ AskedRid' = AskedRid
          /\ AskedElev' = AskedElev /\ Ask' = Ask
      BY <1>1, <2>1 DEF Asked, AskedField, AskedRid, AskedElev, Ask
    <3> QED BY <1>1, <2>1, <3>1, SameRun, SameFits DEF HandInv, AskedFits
  <2>2. CASE arms /\ (bare \/ full)
    <3>1. /\ Preset /\ window # <<>> /\ window' = <<>>
          /\ inj.pc \notin {"settle", "child"}
      BY <1>1, <2>2 DEF PromptAtEnd, bare, full, HandInv, AskedFits, Asked
    <3>2. Last(window) \in Prompts /\ (Last(window) \in Held => out = <<>> /\ Waits(Last(window)))
      BY <2>2, WindowHas
    <3>3. Last(window) \in Held
      <4>1. Last(window) # "yesno" => Last(window) \in Secrets
        BY <3>2 DEF Prompts
      <4>2. CASE Last(window) = "yesno"
        <5>1. full
          BY <2>2, <4>2 DEF bare
        <5>2. ~Has(window, {"key"}) /\ ~Has(window, Logins \cup Sus)
          <6>1. {"key"} \subseteq Secrets /\ Logins \cup Sus \subseteq Secrets
                /\ "yesno" \notin {"key"} /\ "yesno" \notin Logins \cup Sus
            BY DEF Secrets, Logins, Sus
          <6> QED BY <2>2, <4>2, <6>1, WindowHas
        <5>3. Len(run.fields) = 1
          BY <5>1, <5>2 DEF full, ArmsInjection, FieldForPrompt
        <5> QED BY <3>1, <4>2, <5>3, HeldFacts
      <4> QED BY <4>1, <4>2, HeldFacts
    <3>4. out = <<>> /\ (peer.st = "gone" \/ (peer.st = "asking" /\ Ask = Last(window)))
      BY <3>2, <3>3 DEF Waits
    <3>5. inj'.pc = inj.pc /\ pend'.inj
      <4>1. pend \in Pending
        BY DEF PtyTypeOK, InjTypeOK
      <4> QED BY <1>1, <2>2, <4>1
    <3>6. ASSUME peer.st = "asking", Ask = Last(window)
          PROVE  Fits(AskedField, AskedRid, AskedElev, Ask)'
      <4>1. Ask' = Ask /\ Last(window) \in Held'
        BY <3>3, SameRun DEF Ask
      <4>2. CASE bare
        <5>1. pend'.rid = Nil /\ ~pend'.elev
          <6>1. pend \in Pending
            BY DEF PtyTypeOK, InjTypeOK
          <6> QED BY <1>1, <2>2, <4>2, <6>1 DEF NoFields, bare
        <5>2. AskedRid' = "outer" /\ ~AskedElev'
          BY <3>1, <3>5, <5>1 DEF AskedRid, AskedElev
        <5>3. \A g : ~HasField("outer", g)'
          <6>1. \A g : ~HasField("outer", g)
            BY <4>2 DEF bare, HasField, FieldsOf, Contains
          <6> QED BY <6>1, SameRun
        <5> QED BY <3>6, <4>1, <5>2, <5>3 DEF Fits
      <4>3. CASE full
        <5> DEFINE rid == IF UsesInner(window, f) THEN "inner" ELSE "outer"
        <5>0. f \in FieldNames
          BY <4>3, FieldFacts DEF full, ArmsInjection, f
        <5>1. AskedField' = f /\ AskedRid' = rid /\ AskedElev' = IsElevation(window)
          <6>1. pend'.field = f /\ pend'.elev = IsElevation(window)
                /\ pend'.rid = IF UsesInner(window, f) THEN "inner" ELSE Nil
            BY <1>1, <2>2, <4>3
          <6>2. f # Nil /\ "inner" # Nil
            BY <5>0, PtyAssumption DEF PtyAssumption
          <6> QED BY <3>1, <3>5, <6>1, <6>2 DEF AskedField, AskedRid, AskedElev
        <5>2. IsElevation(window) => Last(window) \in Sus
          BY DEF IsElevation, Sus
        <5> HIDE DEF rid
        <5>3. ASSUME HasField(rid, f)
              PROVE  /\ TellsHops' => Suits(f, rid, Last(window))
                     /\ Dual /\ f = "password" => Last(window) \in Logins \cup Sus
                     /\ f = "password" => HasField("outer", "password")
          <6>1. TellsHops' => IF Dual THEN run.hint /\ ~run.preBanner /\ run.good
                              ELSE inj.pc = "idle"
            <7>1. clean' = (inj.pc = "idle")
              BY <1>1, <2>2
            <7> QED BY <7>1 DEF TellsHops, Dual
          <6>2. /\ (IF Dual THEN run.hint /\ ~run.preBanner /\ run.good ELSE inj.pc = "idle")
                     => Suits(f, rid, Last(window))
                /\ Dual /\ f = "password" => Last(window) \in Logins \cup Sus
                /\ f = "password" => HasField("outer", "password")
            <7>1. PromptAtEnd(window) /\ Preset /\ ArmsInjection(window)
              BY <2>2, <4>3 DEF full
            <7>2. /\ f = FieldForPrompt(window)
                  /\ rid = IF UsesInner(window, f) THEN "inner" ELSE "outer"
              BY DEF f, rid
            <7> QED BY <3>6, <5>3, <7>1, <7>2, ArmFits
          <6> QED BY <6>1, <6>2
        <5> QED BY <3>6, <4>1, <5>1, <5>2, <5>3, SameRun DEF Fits
      <4> QED BY <2>2, <4>2, <4>3
    <3>7. Preset' /\ out' = <<>> /\ window' = <<>> /\ peer' = peer
          /\ ~(pend'.inj /\ inj'.pc \in {"settle", "child"})
      BY <3>1, <3>4, <3>5, SameRun
    <3> QED BY <3>4, <3>6, <3>7 DEF AskedFits
  <2> QED BY <2>1, <2>2
<1> QED BY <1>2, <1>3, <1>4 DEF HandInv

\* An injection that was asked for stays what it is until it is typed.
LEMMA AskedStays ==
  ASSUME PtyTypeOK, HandInv,
         InjStart \/ InjSpawn \/ InjFail \/ InjNonblock \/ InjDrain \/ InjBlocking \/ InjRecord
           \/ InjOpen \/ InjEnd
  PROVE  Asked' => /\ Asked /\ AskedField' = AskedField /\ AskedRid' = AskedRid
                   /\ AskedElev' = AskedElev /\ ~(pend'.inj /\ inj'.pc \in {"settle", "child"})
<1>0. inj \in InjectorStates /\ pend \in Pending
  BY DEF PtyTypeOK, InjTypeOK
<1> USE DEF HandInv, AskedFits, Asked, AskedField, AskedRid, AskedElev
<1>1. CASE InjStart
  BY <1>0, <1>1 DEF InjStart
<1>2. CASE InjSpawn
  BY <1>0, <1>2 DEF InjSpawn
<1>3. CASE InjFail
  BY <1>0, <1>3 DEF InjFail
<1>4. CASE InjNonblock \/ InjOpen \/ InjEnd
  BY <1>0, <1>4 DEF InjNonblock, InjOpen, InjEnd
<1>5. CASE InjBlocking \/ InjRecord \/ InjDrain
  BY <1>0, <1>5 DEF InjBlocking, InjRecord, InjDrain
<1> QED BY <1>1, <1>2, <1>3, <1>4, <1>5

\* The injector's steps around the typing.
LEMMA InjKeeps ==
  ASSUME RunAssumption, PtyAssumption, PtyTypeOK, HandInv,
         InjStart \/ InjSpawn \/ InjFail \/ InjNonblock \/ InjDrain \/ InjBlocking \/ InjRecord
           \/ InjOpen \/ InjEnd
  PROVE  HandInv'
<1>0. /\ inj \in InjectorStates
      /\ pend \in Pending
      /\ recorded \in Records
      /\ inj.pc = "record" => inj.field \in FieldNames
  BY DEF PtyTypeOK, InjTypeOK
<1>1. /\ UNCHANGED <<run, peer, window, clean>>
      /\ out' = out \/ out' = <<>>
  BY DEF InjStart, InjSpawn, InjFail, InjNonblock, InjDrain, InjBlocking, InjRecord, InjOpen, InjEnd
<1>2. OutWaits' /\ WindowWaits'
  <2>1. Held' = Held
    BY <1>1, SameRun
  <2>3. OutWaits'
    BY <1>1, <2>1 DEF HandInv, OutWaits, Waits, Ask
  <2>4. WindowWaits'
    BY <1>1, <2>1 DEF HandInv, WindowWaits, Waits, Ask
  <2> QED BY <2>3, <2>4
<1>3. AskedFits'
  <2>1. Asked' => Asked /\ AskedField' = AskedField /\ AskedRid' = AskedRid
                  /\ AskedElev' = AskedElev /\ ~(pend'.inj /\ inj'.pc \in {"settle", "child"})
    BY AskedStays
  <2>2. Ask' = Ask /\ Preset' = Preset
    BY <1>1, SameRun DEF Ask
  <2> QED BY <1>1, <2>1, <2>2, SameFits DEF HandInv, AskedFits
<1>4. CASE ~InjRecord
  <2>1. recorded' = recorded /\ (InFlight' => InFlight)
        /\ (InFlight => InFlight' /\ inj'.elev = inj.elev)
        /\ (InFlight => inj'.field = inj.field)
    <3>1. CASE InjBlocking
      BY <1>0, <3>1 DEF InjBlocking, InFlight
    <3>2. CASE InjStart \/ InjSpawn
      <4>1. inj.pc \in {"idle", "settle"} /\ inj'.pc \in {"settle", "child"}
        BY <1>0, <3>2 DEF InjStart, InjSpawn
      <4> QED BY <3>2, <4>1 DEF InjStart, InjSpawn, InFlight
    <3>3. CASE InjFail \/ InjNonblock
      BY <1>0, <3>3 DEF InjFail, InjNonblock, InFlight
    <3>4. CASE InjDrain \/ InjOpen \/ InjEnd
      BY <1>0, <3>4 DEF InjDrain, InjOpen, InjEnd, InFlight
    <3> QED BY <1>4, <3>1, <3>2, <3>3, <3>4
  <2>2. OuterDone'
    BY <1>1, <2>1, SameRun DEF HandInv, OuterDone, Passed
  <2>3. DualDone'
    BY <1>1, <2>1, SameRun DEF HandInv, DualDone, Passed
  <2> QED BY <1>2, <1>3, <2>2, <2>3 DEF HandInv
<1>5. CASE InjRecord
  <2>1. /\ inj.pc = "record" /\ inj'.pc = "open" /\ InFlight /\ ~InFlight'
        /\ recorded'.fields = recorded.fields \cup {inj.field}
        /\ recorded'.login <=> recorded.login \/ (~inj.elev /\ inj.field = "password")
        /\ recorded'.inner => recorded.inner \/ recorded.login
    BY <1>0, <1>5 DEF InjRecord, InFlight, FieldNames
  <2>2. OuterDone'
    BY <1>1, <2>1, SameRun DEF HandInv, OuterDone, Passed
  <2>3. DualDone'
    BY <1>1, <2>1, SameRun DEF HandInv, DualDone, Passed
  <2> QED BY <1>2, <1>3, <2>2, <2>3 DEF HandInv
<1> QED BY <1>4, <1>5

\* The secret is typed, at the prompt it was asked for.
LEMMA TypeFacts ==
  ASSUME RunAssumption, PtyAssumption, PtyTypeOK, HandInv, InjType
  PROVE  /\ peer.st = "asking" /\ out = <<>> /\ window = <<>> /\ ~pend.inj
         /\ Fits(inj.field, inj.rid, inj.elev, Ask)
         /\ TellsHops => Suits(inj.field, inj.rid, Ask)
         /\ Dual /\ inj.field = "password" => Ask \in Logins \cup Sus
         /\ inj.field = "password" => HasField("outer", "password")
         /\ inj.elev => Ask \in Sus
         /\ inj.pc = "child" /\ inj' = [inj EXCEPT !.pc = "typed", !.ok = TRUE]
         /\ UNCHANGED <<run, pend, window, recorded, clean>>
         /\ typed' = [rid |-> inj.rid, field |-> inj.field, ask |-> Ask]
         /\ IF run.good /\ inj.field = Wanted(Ask) /\ inj.rid = Owner(Ask)
            THEN Right(<<>>) ELSE Wrong
<1>1. inj.pc = "child" /\ peer.st # "gone" /\ HasField(inj.rid, inj.field)
      /\ inj' = [inj EXCEPT !.pc = "typed", !.ok = TRUE]
      /\ UNCHANGED <<run, pend, window, recorded, clean>>
  BY DEF InjType
<1>2. Asked /\ AskedField = inj.field /\ AskedRid = inj.rid /\ AskedElev = inj.elev
  BY <1>1 DEF Asked, AskedField, AskedRid, AskedElev
<1>3. peer.st = "asking" /\ out = <<>> /\ window = <<>> /\ ~pend.inj
      /\ Fits(inj.field, inj.rid, inj.elev, Ask)
  BY <1>1, <1>2 DEF HandInv, AskedFits
<1>4. typed' = [rid |-> inj.rid, field |-> inj.field, ask |-> Ask]
      /\ Answer(<<>>, run.good /\ inj.field = Wanted(Ask) /\ inj.rid = Owner(Ask))
  BY <1>3 DEF InjType
<1>5. IF run.good /\ inj.field = Wanted(Ask) /\ inj.rid = Owner(Ask) THEN Right(<<>>) ELSE Wrong
  BY <1>3, <1>4 DEF Answer
<1> QED BY <1>1, <1>3, <1>4, <1>5 DEF Fits

LEMMA TypeKeeps ==
  ASSUME RunAssumption, PtyAssumption, InOrder(run), PtyTypeOK, HandInv, InjType
  PROVE  HandInv'
<1>1. /\ peer.st = "asking" /\ out = <<>> /\ window = <<>> /\ ~pend.inj
      /\ TellsHops => Suits(inj.field, inj.rid, Ask)
      /\ Dual /\ inj.field = "password" => Ask \in Logins \cup Sus
      /\ inj.field = "password" => HasField("outer", "password")
      /\ inj.elev => Ask \in Sus
      /\ inj.pc = "child" /\ inj' = [inj EXCEPT !.pc = "typed", !.ok = TRUE]
      /\ UNCHANGED <<run, pend, window, recorded, clean>>
      /\ IF run.good /\ inj.field = Wanted(Ask) /\ inj.rid = Owner(Ask) THEN Right(<<>>) ELSE Wrong
  BY TypeFacts
<1>2. /\ peer \in Peers /\ run.asks \in Seq(Prompts)
      /\ peer.at \in 1..Len(run.asks) /\ run.asks[peer.at] = Ask /\ Ask \in Prompts
      /\ inj \in InjectorStates
  BY <1>1, RunFacts DEF PtyTypeOK, PeerTypeOK, InjTypeOK, Ask
<1>3. inj'.pc = "typed" /\ inj'.ok /\ inj'.field = inj.field /\ inj'.elev = inj.elev
  BY <1>1, <1>2
<1>4. ~Asked' /\ InFlight' /\ ~InFlight
  BY <1>1, <1>3 DEF Asked, InFlight
<1>5. /\ "login" \notin Sus /\ "inner" \notin Sus /\ "login" \in Logins /\ "inner" \in Logins
      /\ "yesno" \notin Sus /\ "key" \notin Sus
      /\ \A p \in Logins \cup Sus : p # "yesno" /\ p # "key"
  BY DEF Logins, Sus
<1>6. \/ peer' = NextAsk
      \/ peer' = [peer EXCEPT !.tries = @ + 1, !.line = <<>>]
      \/ peer' = [peer EXCEPT !.st = "gone", !.line = <<>>]
  BY <1>1 DEF Right, Wrong
<1>7. peer'.at = peer.at \/ (peer'.at = peer.at + 1 /\ peer' = NextAsk)
  <2>1. CASE peer' = NextAsk
    BY <2>1 DEF NextAsk
  <2>2. CASE peer' # NextAsk
    BY <1>2, <1>6, <2>2 DEF Peers
  <2> QED BY <2>1, <2>2
<1>8. ASSUME Ask \notin Sus, peer'.at # peer.at
      PROVE  run.good /\ inj.field = Wanted(Ask) /\ inj.rid = Owner(Ask)
  <2>1. peer' = NextAsk
    BY <1>7, <1>8
  <2>2. NextAsk.st = "busy" /\ NextAsk.at = peer.at + 1
    BY DEF NextAsk
  <2>3. ~Wrong
    BY <1>1, <1>2, <1>8, <2>1, <2>2 DEF Wrong, Peers
  <2> QED BY <1>1, <2>3
<1>9. OutWaits'
  <2>1. CASE out' = <<>> \/ out' = <<"banner">>
    <3>1. \A i \in DOMAIN out' : out'[i] = "banner"
      BY <2>1
    <3> QED BY <1>1, <3>1, HeldFacts, SameRun DEF OutWaits
  <2>2. CASE Wrong /\ out' # <<>>
    <3>1. /\ out' = <<>> \o Again /\ Again # <<>>
          /\ peer' = [peer EXCEPT !.tries = @ + 1, !.line = <<>>]
      <4>1. out' = <<>> \o Again /\ peer' = [peer EXCEPT !.tries = @ + 1, !.line = <<>>]
        BY <1>1, <2>2 DEF Wrong
      <4> QED BY <2>2, <4>1
    <3>2. peer'.st = "asking" /\ Ask' = Ask
      BY <1>1, <1>2, <3>1 DEF Ask, Peers
    <3>3. Again \in {<<"sorry", Ask>>, <<"denied", Ask>>, <<"key">>}
          /\ (Again = <<"key">> => Ask = "key")
      BY <1>2, <3>1 DEF Again, Prompts, Secrets
    <3>4. out' = Again
      BY <3>1, <3>3
    <3>5. \A i \in DOMAIN out' : out'[i] \in {"sorry", "denied"} \/ (i = Len(out') /\ out'[i] = Ask)
      <4>1. CASE Again = <<"key">>
        BY <3>3, <3>4, <4>1
      <4>2. CASE Again = <<"sorry", Ask>>
        BY <3>4, <4>2
      <4>3. CASE Again = <<"denied", Ask>>
        BY <3>4, <4>3
      <4> QED BY <3>3, <4>1, <4>2, <4>3
    <3> QED BY <1>1, <3>2, <3>5, HeldFacts, SameRun DEF OutWaits, Waits
  <2>3. Right(<<>>) \/ Wrong
    BY <1>1
  <2>4. Right(<<>>) => out' = <<>> \/ out' = <<"banner">>
    <3>1. <<>> \o <<"banner">> = <<"banner">> /\ <<>> \o <<>> = <<>>
      BY Words
    <3> QED BY <1>1, <3>1 DEF Right, Greeting
  <2> QED BY <2>1, <2>2, <2>3, <2>4
<1>10. WindowWaits'
  BY <1>1 DEF WindowWaits
<1>11. OuterDone'
  <2>1. SUFFICES ASSUME run.kind = "outer", Passed("login")'
                 PROVE  /\ HasField("outer", "password")
                        /\ recorded.login \/ (~inj.elev /\ inj.field = "password")
    BY <1>1, <1>3, <1>4, SameRun DEF OuterDone
  <2>2. CASE Passed("login")
    BY <1>4, <2>1, <2>2 DEF HandInv, OuterDone
  <2>3. CASE ~Passed("login")
    <3>1. Ask = "login" /\ peer'.at # peer.at
      BY <1>1, <1>2, <1>7, <2>1, <2>3 DEF Passed
    <3>2. inj.field = "password"
      BY <1>5, <1>8, <3>1 DEF Wanted
    <3> QED BY <1>1, <1>5, <3>1, <3>2
  <2> QED BY <2>2, <2>3
<1>12. DualDone'
  <2>1. SUFFICES ASSUME Dual, TellsHops
                 PROVE  /\ \/ recorded.login \/ recorded.inner \/ "password" \in recorded.fields
                           \/ inj.field = "password"
                           => \A i \in peer'.at..Len(run.asks) : run.asks[i] # "login"
                        /\ Passed("inner")' => HasField("outer", "password")
    BY <1>1, <1>3, <1>4, SameRun DEF DualDone
  <2>2. CASE inj.field = "password"
    <3>1. Suits(inj.field, inj.rid, Ask) /\ Ask \in Logins \cup Sus /\ run.good
      BY <1>1, <2>1, <2>2 DEF TellsHops
    <3>2. Right(<<>>)
      BY <1>1, <1>5, <2>2, <3>1 DEF Suits, Wanted
    <3>3. peer'.at = peer.at + 1
      BY <3>2 DEF Right, NextAsk
    <3>4. ASSUME NEW i \in peer'.at..Len(run.asks) PROVE run.asks[i] # "login"
      <4>1. i \in 1..Len(run.asks) /\ peer.at \in 1..(i - 1)
        BY <1>2, <3>3, <3>4
      <4>2. \E j \in 1..(i - 1) : run.asks[j] \in Logins \cup Sus
        BY <1>2, <3>1, <4>1
      <4> QED BY <2>1, <4>1, <4>2 DEF InOrder, Dual
    <3> QED BY <1>1, <2>2, <3>4
  <2>3. CASE inj.field # "password"
    <3>1. \A i \in peer'.at..Len(run.asks) : i \in peer.at..Len(run.asks)
      BY <1>2, <1>7
    <3>2. Passed("inner")' => Passed("inner") \/ (Ask = "inner" /\ peer'.at # peer.at)
      BY <1>1, <1>2, <1>7 DEF Passed
    <3>3. Ask = "inner" => peer'.at = peer.at
      BY <1>5, <1>8, <2>3 DEF Wanted
    <3> QED BY <1>4, <2>1, <2>3, <3>1, <3>2, <3>3 DEF HandInv, DualDone
  <2> QED BY <2>2, <2>3
<1> QED BY <1>4, <1>9, <1>10, <1>11, <1>12 DEF HandInv, AskedFits

\* Stdin, or ^C, reaches a program that asks for no secret.
LEMMA MainKeeps ==
  ASSUME RunAssumption, PtyAssumption, InOrder(run), PtyTypeOK, NoKeys, HandInv,
         MainForward \/ MainSigint \/ MainKill, ~byHand'
  PROVE  HandInv'
<1>0. /\ peer \in Peers /\ (peer.st = "asking" => peer.at \in 1..Len(run.asks))
      /\ UNCHANGED <<run, pend, inj, clean, recorded, window>>
  BY RunFacts DEF PtyTypeOK, PeerTypeOK, MainForward, MainSigint, MainKill
<1>1. MainForward \/ MainSigint => ~AsksSecret
  BY DEF MainForward, MainSigint, Touch, Touched
<1>2. ASSUME InterruptPeer, ~AsksSecret PROVE HandInv'
  <2>1. "yesno" \notin Sus
    BY DEF Sus
  <2>2. out' = out /\ (peer' = peer \/ peer' = [peer EXCEPT !.st = "gone", !.line = <<>>])
    BY <1>2, <2>1 DEF InterruptPeer, AsksSecret
  <2>3. peer'.at = peer.at /\ (peer'.st = peer.st \/ peer'.st = "gone")
    BY <1>0, <2>2 DEF Peers
  <2> QED BY <1>0, <2>2, <2>3, Kept
<1>3. CASE MainKill
  <2>1. out' = out /\ peer'.at = peer.at /\ peer'.st = "gone"
    BY <1>0, <1>3 DEF MainKill, Peers
  <2> QED BY <1>0, <2>1, Kept
<1>4. CASE MainSigint
  BY <1>1, <1>2, <1>4 DEF MainSigint
<1>5. CASE MainForward
  <2> DEFINE press == Head(stdin)
  <2>0. stdin \in Seq(Press) /\ stdin # <<>> /\ press = stdin[1] /\ 1 \in DOMAIN stdin
    BY <1>5 DEF PtyTypeOK, MainTypeOK, MainForward
  <2>1. CASE press.part = "first"
    <3>1. out' = out /\ peer'.at = peer.at /\ peer'.st = peer.st
      BY <1>0, <1>5, <2>1 DEF MainForward, Peers
    <3> QED BY <1>0, <3>1, Kept
  <2>2. CASE press.part = "enter"
    <3>1. PICK ok : Answer(Append(peer.line, press), ok)
      BY <1>5, <2>2 DEF MainForward
    <3>2. CASE peer.st # "asking"
      BY <1>0, <3>1, <3>2, Kept DEF Answer
    <3>3. CASE peer.st = "asking"
      <4>1. Ask = "yesno"
        BY <1>1, <1>5, <3>3 DEF AsksSecret
      <4>2. "yesno" \notin Held
        <5>1. SUFFICES ASSUME Preset, run.keys = 0 \/ Len(run.fields) = 1 PROVE FALSE
          BY HeldFacts
        <5>2. Contains(run.asks, "yesno")
          BY <1>0, <3>3, <4>1, RunFacts DEF Contains, Ask, PtyTypeOK
        <5>3. run.keys = 0
          BY <5>1, <5>2 DEF InOrder, Preset
        <5> QED BY <2>0, <2>2, <5>1, <5>3 DEF NoKeys
      <4>3. Right(Append(peer.line, press)) \/ Wrong
        BY <3>1, <3>3 DEF Answer
      <4> QED BY <1>0, <3>3, <4>1, <4>2, <4>3, YesKeeps
    <3> QED BY <3>2, <3>3
  <2>3. CASE press.part = "int"
    BY <1>1, <1>2, <1>5, <2>3 DEF MainForward
  <2>4. CASE press.part = "eof"
    BY <1>0, <1>5, <2>4, Kept DEF MainForward
  <2>5. press.part \in {"first", "enter", "int", "eof"}
    <3>1. press \in Press
      BY <2>0
    <3> QED BY <3>1 DEF Press
  <2> QED BY <2>1, <2>2, <2>3, <2>4, <2>5
<1> QED BY <1>3, <1>4, <1>5

\* The program goes on to its next prompt, and never back.
LEMMA PeerOn ==
  ASSUME RunAssumption, PtyTypeOK, run' = run,
         \/ peer' = NextAsk \/ peer' = peer
         \/ peer' = [peer EXCEPT !.tries = @ + 1, !.line = <<>>]
         \/ peer' = [peer EXCEPT !.st = "gone", !.line = <<>>]
         \/ peer' = [peer EXCEPT !.st = "asking"] \/ peer' = [peer EXCEPT !.st = "shell"]
         \/ \E line : peer' = [peer EXCEPT !.line = line]
  PROVE  \A i \in peer'.at..Len(run.asks) : i \in peer.at..Len(run.asks)
<1>1. peer \in Peers /\ run.asks \in Seq(Prompts)
  BY RunFacts DEF PtyTypeOK, PeerTypeOK
<1>2. peer.at \in Nat /\ Len(run.asks) \in Nat
  BY <1>1 DEF Peers
<1>3. peer'.at = peer.at \/ peer'.at = peer.at + 1
  <2>1. CASE peer' = NextAsk
    BY <2>1 DEF NextAsk
  <2>2. CASE peer' # NextAsk
    BY <1>1, <2>2 DEF Peers
  <2> QED BY <2>1, <2>2
<1> QED BY <1>2, <1>3

\* Where a banner may come from.
LEMMA BannerFrom ==
  ASSUME BannerLate, run' = run,
         \A i \in peer'.at..Len(run.asks) : i \in peer.at..Len(run.asks),
         Has(window, {"banner"})' => Has(window, {"banner"}) \/ Has(out, {"banner"}),
         Has(out, {"banner"})' => \/ Has(window, {"banner"}) \/ Has(out, {"banner"})
                                  \/ run.banner /\ SusLeft'
  PROVE  BannerLate'
BY DEF BannerLate, SusLeft

LEMMA AnswerBanner ==
  ASSUME RunAssumption, PtyTypeOK, BannerLate, run' = run, window' = window,
         NEW line, NEW ok, Answer(line, ok)
  PROVE  BannerLate'
<1>0. out \in Seq(Tokens) /\ run.asks \in Seq(Prompts) /\ peer \in Peers
      /\ (peer.st = "asking" => peer.at \in 1..Len(run.asks) /\ Ask \in Prompts)
  BY RunFacts DEF PtyTypeOK, PeerTypeOK
<1>1. CASE peer.st # "asking"
  BY <1>1 DEF Answer, BannerLate, SusLeft, Has
<1>2. CASE peer.st = "asking"
  <2>1. Right(line) \/ Wrong
    BY <1>2 DEF Answer
  <2>2. \A i \in peer'.at..Len(run.asks) : i \in peer.at..Len(run.asks)
    <3>1. \/ peer' = NextAsk
          \/ peer' = [peer EXCEPT !.tries = @ + 1, !.line = <<>>]
          \/ peer' = [peer EXCEPT !.st = "gone", !.line = <<>>]
      BY <2>1 DEF Right, Wrong
    <3> QED BY <3>1, PeerOn
  <2>3. Has(out, {"banner"})' => Has(out, {"banner"}) \/ (Right(line) /\ LastLogin /\ run.banner)
    <3>1. \A t \in Seq(Tokens) : (\A i \in DOMAIN t : t[i] # "banner") /\ Has(out \o t, {"banner"})
                                  => Has(out, {"banner"})
      BY <1>0 DEF Has
    <3>2. Again \in Seq(Tokens) /\ \A i \in DOMAIN Again : Again[i] # "banner"
      <4>1. Ask # "banner"
        BY <1>0, <1>2 DEF Prompts, Secrets, Logins, Sus
      <4>2. \A i \in DOMAIN Again : Again[i] # "banner"
        BY <4>1 DEF Again
      <4> QED BY <1>2, <4>2, Texts DEF PtyTypeOK
    <3>3. Wrong => out' = out \/ out' = out \o Again
      BY DEF Wrong
    <3>4. Right(line) /\ ~(LastLogin /\ run.banner) => out' = out \o <<>>
      BY DEF Right, Greeting
    <3>5. out \o <<>> = out
      BY <1>0
    <3> QED BY <2>1, <3>1, <3>2, <3>3, <3>4, <3>5 DEF Has
  <2>4. ASSUME Right(line), LastLogin
        PROVE  SusLeft'
    BY <2>4 DEF Right, LastLogin, NextAsk, SusLeft
  <2> QED BY <2>2, <2>3, <2>4, BannerFrom DEF Has
<1> QED BY <1>1, <1>2

LEMMA BannerStep ==
  ASSUME RunAssumption, PtyAssumption, PtyTypeOK, BannerLate, [PtyNext]_ptyVars
  PROVE  BannerLate'
<1>0. peer \in Peers /\ out \in Seq(Tokens) /\ window \in Seq(Tokens)
      /\ (peer.st = "asking" => Ask \in Prompts)
  BY RunFacts DEF PtyTypeOK, PeerTypeOK, ScanTypeOK
<1>1. ASSUME run' = run, out' = out \/ out' = <<>>, window' = window \/ window' = <<>>,
             \/ peer' = NextAsk \/ peer' = peer
             \/ peer' = [peer EXCEPT !.st = "gone", !.line = <<>>]
             \/ \E line : peer' = [peer EXCEPT !.line = line]
      PROVE  BannerLate'
  <2>1. \A i \in peer'.at..Len(run.asks) : i \in peer.at..Len(run.asks)
    BY <1>1, PeerOn
  <2>2. Has(out, {"banner"})' => Has(out, {"banner"})
    BY <1>1 DEF Has
  <2>3. Has(window, {"banner"})' => Has(window, {"banner"})
    BY <1>1 DEF Has
  <2> QED BY <1>1, <2>1, <2>2, <2>3, BannerFrom
<1>2. CASE PeerAsks \/ PeerExits
  <2>1. \A i \in peer'.at..Len(run.asks) : i \in peer.at..Len(run.asks)
    BY <1>2, PeerOn DEF PeerAsks, PeerExits
  <2>2. ASSUME NEW x, x \in Tokens, x # "banner", out' = Append(out, x)
        PROVE  Has(out, {"banner"})' => Has(out, {"banner"})
    BY <1>0, <2>2 DEF Has
  <2>3. out' = out \/ \E x \in Tokens : x # "banner" /\ out' = Append(out, x)
    <3>1. peer.at <= Len(run.asks) => Ask \in Prompts
      BY <1>0, RunFacts DEF PtyTypeOK, Ask, Peers
    <3>2. \A x \in Prompts : x \in Tokens /\ x # "banner"
      BY DEF Tokens, Prompts, Secrets, Logins, Sus
    <3> QED BY <1>2, <3>1, <3>2, Words DEF PeerAsks, PeerExits
  <2>4. Has(out, {"banner"})' => Has(out, {"banner"})
    BY <2>2, <2>3 DEF Has
  <2> QED BY <1>2, <2>1, <2>4, BannerFrom DEF PeerAsks, PeerExits, Has
<1>3. CASE Scanner
  <2>1. CASE ScanRead
    <3>1. run' = run /\ \A i \in peer'.at..Len(run.asks) : i \in peer.at..Len(run.asks)
      BY <2>1 DEF ScanRead
    <3> QED BY <2>1, <3>1, ReadBanner, BannerFrom
  <2>2. CASE ScanRescan \/ ScanArm
    <3>1. run' = run /\ out' = out /\ peer' = peer /\ (window' = window \/ window' = <<>>)
      BY <2>2 DEF ScanRescan, ScanArm, Arm
    <3> QED BY <1>1, <3>1
  <2>3. CASE ScanReady \/ ScanEnds
    BY <1>1, <2>3 DEF ScanReady, ScanEnds
  <2> QED BY <1>3, <2>1, <2>2, <2>3 DEF Scanner
<1>4. CASE Injector
  <2>1. CASE InjType
    <3>1. run' = run /\ window' = window /\ \E ok : Answer(<<>>, ok)
      BY <2>1 DEF InjType
    <3> QED BY <3>1, AnswerBanner
  <2>2. CASE ~InjType
    <3>1. run' = run /\ peer' = peer /\ window' = window /\ (out' = out \/ out' = <<>>)
      BY <1>4, <2>2 DEF Injector, InjStart, InjSpawn, InjFail, InjNonblock, InjDrain, InjBlocking,
                        InjRecord, InjOpen, InjEnd
    <3> QED BY <1>1, <3>1
  <2> QED BY <2>1, <2>2
<1>5. CASE User \/ Tick
  BY <1>1, <1>5 DEF User, UserTypes, UserInterrupts, PipeWrites, Tick
<1>6. CASE Main
  <2>1. CASE MainForward
    <3> DEFINE press == Head(stdin)
    <3>1. run' = run /\ window' = window
      BY <2>1 DEF MainForward
    <3>2. CASE press.part = "first"
      BY <1>1, <2>1, <3>1, <3>2 DEF MainForward
    <3>3. CASE press.part = "enter"
      <4>1. \E ok : Answer(Append(peer.line, press), ok)
        BY <2>1, <3>3 DEF MainForward
      <4> QED BY <3>1, <4>1, AnswerBanner
    <3>4. CASE press.part = "int"
      BY <1>1, <2>1, <3>1, <3>4 DEF MainForward, InterruptPeer
    <3>5. CASE press.part = "eof"
      BY <1>1, <2>1, <3>1, <3>5 DEF MainForward
    <3>6. press.part \in {"first", "enter", "int", "eof"}
      <4>1. stdin \in Seq(Press) /\ stdin # <<>>
        BY <2>1 DEF PtyTypeOK, MainTypeOK, MainForward
      <4>2. press \in Press
        BY <4>1
      <4> QED BY <4>2 DEF Press
    <3> QED BY <3>2, <3>3, <3>4, <3>5, <3>6
  <2>2. CASE MainSigint \/ MainKill
    BY <1>1, <2>2 DEF MainSigint, MainKill, InterruptPeer
  <2>3. CASE MainOpen \/ MainEnds \/ MainExit \/ MainGraceOver \/ MainDown \/ MainJoin \/ ExecSaves
    BY <1>1, <2>3 DEF MainOpen, MainEnds, MainExit, MainGraceOver, MainDown, MainJoin, ExecSaves
  <2> QED BY <1>6, <2>1, <2>2, <2>3 DEF Main
<1>7. CASE UNCHANGED ptyVars
  BY <1>1, <1>7 DEF ptyVars
<1> QED BY <1>2, <1>3, <1>4, <1>5, <1>6, <1>7 DEF PtyNext, RunOver

LEMMA NoKeysStep ==
  ASSUME RunAssumption, PtyTypeOK, NoKeys, [PtyNext]_ptyVars
  PROVE  NoKeys'
<1>0. stdin \in Seq(Press) /\ keys \in Nat /\ (run.keys = 0 => ~(keys < run.keys))
  BY DEF PtyTypeOK, MainTypeOK
<1>1. ASSUME run' = run, sigint' = sigint \/ ~sigint', stdin' = stdin \/ stdin' = <<>>
      PROVE  NoKeys'
  BY <1>1 DEF NoKeys, Preset
<1>2. CASE User
  <2>1. run' = run
    BY <1>2 DEF User, UserTypes, UserInterrupts, PipeWrites
  <2>2. SUFFICES ASSUME Preset, run.keys = 0
                 PROVE  ~sigint' /\ \A i \in DOMAIN stdin' : stdin'[i].part = "eof"
    BY <2>1 DEF NoKeys, Preset
  <2>3. PipeWrites
    BY <1>0, <1>2, <2>2 DEF User, UserTypes, UserInterrupts
  <2>4. stdin' = Append(stdin, Key("eof")) /\ ~sigint'
    BY <1>0, <2>2, <2>3 DEF PipeWrites, NoKeys
  <2>5. Key("eof").part = "eof"
    BY DEF Key
  <2>6. \A i \in DOMAIN stdin : stdin[i].part = "eof"
    BY <2>2 DEF NoKeys
  <2> HIDE DEF Key
  <2> QED BY <1>0, <2>4, <2>5, <2>6
<1>3. CASE Main
  <2>1. CASE MainForward
    <3>1. run' = run /\ sigint' = sigint /\ stdin' = Tail(stdin) /\ stdin # <<>>
      BY <2>1 DEF MainForward
    <3>2. Len(stdin') = Len(stdin) - 1 /\ stdin' \in Seq(Press)
          /\ \A i \in 1..Len(stdin') : stdin'[i] = stdin[i + 1]
      BY <1>0, <3>1
    <3>3. \A i \in DOMAIN stdin' : i + 1 \in DOMAIN stdin /\ stdin'[i] = stdin[i + 1]
      BY <1>0, <3>1, <3>2
    <3> QED BY <3>1, <3>3 DEF NoKeys, Preset
  <2>2. CASE MainSigint \/ MainDown
    BY <1>1, <2>2 DEF MainSigint, MainDown
  <2>3. CASE MainOpen \/ MainEnds \/ MainExit \/ MainGraceOver \/ MainKill \/ MainJoin \/ ExecSaves
    BY <1>1, <2>3 DEF MainOpen, MainEnds, MainExit, MainGraceOver, MainKill, MainJoin, ExecSaves
  <2> QED BY <1>3, <2>1, <2>2, <2>3 DEF Main
<1>4. CASE Scanner
  BY <1>1, <1>4 DEF Scanner, ScanRescan, ScanReady, ScanRead, ScanArm, ScanEnds
<1>5. CASE Injector
  BY <1>1, <1>5 DEF Injector, InjStart, InjSpawn, InjType, InjFail, InjNonblock, InjDrain,
                    InjBlocking, InjRecord, InjOpen, InjEnd
<1>6. CASE PeerAsks \/ PeerExits \/ Tick
  BY <1>1, <1>6 DEF PeerAsks, PeerExits, Tick
<1>7. CASE UNCHANGED ptyVars
  BY <1>1, <1>7 DEF ptyVars
<1> QED BY <1>2, <1>3, <1>4, <1>5, <1>6, <1>7 DEF PtyNext, RunOver

\* What the scanner asks for, and what is being typed.
LEMMA NoFieldsStep ==
  ASSUME PtyTypeOK, NoFields, [PtyNext]_ptyVars
  PROVE  NoFields'
<1>0. pend \in Pending
  BY DEF PtyTypeOK, InjTypeOK
<1>1. ASSUME run' = run, pend' = pend PROVE NoFields'
  BY <1>1 DEF NoFields
<1>2. CASE ScanRescan \/ ScanArm
  <2>1. run' = run /\ Arm(window)
    BY <1>2 DEF ScanRescan, ScanArm
  <2>2. run.fields = <<>> => pend' = pend \/ pend' = [pend EXCEPT !.inj = TRUE]
    BY <2>1 DEF Arm
  <2> QED BY <1>0, <2>1, <2>2 DEF NoFields
<1>3. CASE InjStart \/ InjSpawn
  <2>1. run' = run /\ (pend'.rid = pend.rid \/ pend'.rid = Nil) /\ pend'.elev = pend.elev
    BY <1>0, <1>3 DEF InjStart, InjSpawn
  <2> QED BY <2>1 DEF NoFields
<1>4. CASE ScanReady \/ ScanRead \/ ScanEnds
  BY <1>1, <1>4 DEF ScanReady, ScanRead, ScanEnds
<1>5. CASE InjType \/ InjFail \/ InjNonblock \/ InjDrain \/ InjBlocking \/ InjRecord \/ InjOpen
             \/ InjEnd
  BY <1>1, <1>5 DEF InjType, InjFail, InjNonblock, InjDrain, InjBlocking, InjRecord, InjOpen, InjEnd
<1>6. CASE Main \/ User \/ Tick
  <2>1. CASE User \/ Tick
    BY <1>1, <2>1 DEF User, UserTypes, UserInterrupts, PipeWrites, Tick
  <2>2. CASE Main
    BY <1>1, <2>2 DEF Main, MainForward, MainSigint, MainOpen, MainEnds, MainExit, MainGraceOver,
                      MainDown, MainKill, MainJoin, ExecSaves
  <2> QED BY <1>6, <2>1, <2>2
<1>7. CASE PeerAsks \/ PeerExits \/ UNCHANGED ptyVars
  BY <1>1, <1>7 DEF PeerAsks, PeerExits, ptyVars
<1> QED BY <1>2, <1>3, <1>4, <1>5, <1>6, <1>7 DEF PtyNext, RunOver, Scanner, Injector

\* A secret is being typed until the terminal is drained.
Typing == typed # Nil => inj.pc \in {"typed", "drain"}

LEMMA TypingStep ==
  ASSUME PtyTypeOK, Typing, [PtyNext]_ptyVars
  PROVE  /\ Typing'
         /\ ~InjType /\ typed' # Nil => typed' = typed /\ (clean' = clean \/ ~clean')
<1>0. inj \in InjectorStates
  BY DEF PtyTypeOK, InjTypeOK
<1> USE DEF Typing
<1>1. ASSUME UNCHANGED <<typed, inj, clean>>
      PROVE  Typing' /\ (~InjType /\ typed' # Nil => typed' = typed /\ (clean' = clean \/ ~clean'))
  BY <1>1
<1>2. CASE ScanRescan \/ ScanArm
  <2>1. typed' = typed /\ inj' = inj /\ Arm(window)
    BY <1>2 DEF ScanRescan, ScanArm
  <2>2. clean' = clean \/ clean' = (inj.pc = "idle")
    BY <2>1 DEF Arm
  <2> QED BY <2>1, <2>2
<1>3. CASE InjType
  BY <1>0, <1>3 DEF InjType
<1>4. CASE InjStart \/ InjSpawn \/ InjFail \/ InjNonblock
  BY <1>0, <1>4 DEF InjStart, InjSpawn, InjFail, InjNonblock
<1>5. CASE InjDrain \/ InjBlocking \/ InjRecord \/ InjOpen \/ InjEnd
  BY <1>0, <1>5 DEF InjDrain, InjBlocking, InjRecord, InjOpen, InjEnd
<1>6. CASE ScanReady \/ ScanRead \/ ScanEnds
  BY <1>1, <1>6 DEF ScanReady, ScanRead, ScanEnds
<1>7. CASE User \/ Tick
  BY <1>1, <1>7 DEF User, UserTypes, UserInterrupts, PipeWrites, Tick
<1>8. CASE Main
  BY <1>1, <1>8 DEF Main, MainForward, MainSigint, MainOpen, MainEnds, MainExit, MainGraceOver,
                    MainDown, MainKill, MainJoin, ExecSaves
<1>9. CASE PeerAsks \/ PeerExits \/ UNCHANGED ptyVars
  BY <1>1, <1>9 DEF PeerAsks, PeerExits, ptyVars
<1> QED BY <1>2, <1>3, <1>4, <1>5, <1>6, <1>7, <1>8, <1>9 DEF PtyNext, RunOver, Scanner, Injector

\* While nothing was answered by hand, every step keeps the bookkeeping.
LEMMA HandStep ==
  ASSUME RunAssumption, PtyAssumption, InOrder(run), PtyTypeOK, BannerLate, NoKeys, NoFields,
         HandInv, [PtyNext]_ptyVars, ~byHand'
  PROVE  HandInv'
<1>1. ASSUME UNCHANGED <<run, peer, pend, inj, clean, recorded, window, out>> PROVE HandInv'
  BY <1>1, Kept
<1>2. CASE Scanner
  <2>1. CASE ScanRescan \/ ScanArm
    <3>1. Arm(window) /\ UNCHANGED <<run, peer, out, inj, recorded>>
      BY <2>1 DEF ScanRescan, ScanArm
    <3> QED BY <3>1, ArmKeeps
  <2>2. CASE ScanReady \/ ScanEnds
    BY <1>1, <2>2 DEF ScanReady, ScanEnds
  <2> QED BY <1>2, <2>1, <2>2, ReadKeeps DEF Scanner
<1>3. CASE Injector
  BY <1>3, InjKeeps, TypeKeeps DEF Injector
<1>4. CASE User \/ Tick
  BY <1>1, <1>4 DEF User, UserTypes, UserInterrupts, PipeWrites, Tick
<1>5. CASE Main
  <2>1. CASE MainOpen \/ MainEnds \/ MainExit \/ MainGraceOver \/ MainDown \/ MainJoin \/ ExecSaves
    BY <1>1, <2>1 DEF MainOpen, MainEnds, MainExit, MainGraceOver, MainDown, MainJoin, ExecSaves
  <2> QED BY <1>5, <2>1, MainKeeps DEF Main
<1>6. CASE UNCHANGED ptyVars
  BY <1>1, <1>6 DEF ptyVars
<1> QED BY <1>2, <1>3, <1>4, <1>5, <1>6, AsksKeeps, ExitsKeeps DEF PtyNext, RunOver

LEMMA HandOnce == [PtyNext]_ptyVars => run' = run /\ (byHand => byHand')
<1>1. Scanner => run' = run /\ byHand' = byHand
  BY DEF Scanner, ScanRescan, ScanReady, ScanRead, ScanArm, ScanEnds
<1>2. Injector => run' = run /\ byHand' = byHand
  BY DEF Injector, InjStart, InjSpawn, InjType, InjFail, InjNonblock, InjDrain, InjBlocking,
         InjRecord, InjOpen, InjEnd
<1>3. User \/ Tick => run' = run /\ byHand' = byHand
  BY DEF User, UserTypes, UserInterrupts, PipeWrites, Tick
<1>4. Main => run' = run /\ (byHand => byHand')
  <2>1. MainForward \/ MainSigint => run' = run /\ (byHand => byHand')
    BY DEF MainForward, MainSigint, Touch, Touched
  <2>2. MainOpen \/ MainEnds \/ MainExit \/ MainGraceOver \/ MainDown \/ MainKill \/ MainJoin
          \/ ExecSaves => run' = run /\ byHand' = byHand
    BY DEF MainOpen, MainEnds, MainExit, MainGraceOver, MainDown, MainKill, MainJoin, ExecSaves
  <2> QED BY <2>1, <2>2 DEF Main
<1>5. PeerAsks \/ PeerExits \/ UNCHANGED ptyVars => run' = run /\ byHand' = byHand
  BY DEF PeerAsks, PeerExits, ptyVars
<1> QED BY <1>1, <1>2, <1>3, <1>4, <1>5 DEF PtyNext, RunOver

SecretInv == /\ PtyTypeOK /\ BannerLate /\ NoKeys /\ NoFields /\ Typing
             /\ ~byHand => HandInv
             /\ SecretAtItsPrompt

LEMMA SecretStep ==
  ASSUME RunAssumption, PtyAssumption, InOrder(run), SecretInv, [PtyNext]_ptyVars
  PROVE  SecretInv'
<1>0. PtyTypeOK /\ BannerLate /\ NoKeys /\ NoFields /\ Typing /\ (~byHand => HandInv)
      /\ SecretAtItsPrompt
  BY DEF SecretInv
<1>1. PtyTypeOK' /\ BannerLate' /\ NoKeys' /\ NoFields' /\ Typing'
  BY <1>0, PtyTypeStep, BannerStep, NoKeysStep, NoFieldsStep, TypingStep
<1>2. run' = run /\ (byHand => byHand')
  BY HandOnce
<1>3. ~byHand' => HandInv'
  BY <1>0, <1>2, HandStep
<1>4. SecretAtItsPrompt'
  <2>1. SUFFICES ASSUME typed' # Nil, ~byHand', TellsHops'
                 PROVE  /\ typed'.ask # "none"
                        /\ typed'.rid = Owner(typed'.ask)
                        /\ Suited(typed'.rid, typed'.field, typed'.ask)
    BY <1>2 DEF SecretAtItsPrompt, Owner, Suited, HasField, FieldsOf, Wanted, Outer
  <2>2. CASE InjType
    <3>1. HandInv
      BY <1>0, <1>2, <2>1
    <3>2. /\ TellsHops => Suits(inj.field, inj.rid, Ask)
          /\ peer.st = "asking" /\ clean' = clean
          /\ typed' = [rid |-> inj.rid, field |-> inj.field, ask |-> Ask]
      BY <1>0, <2>2, <3>1, TypeFacts
    <3>3. TellsHops' = TellsHops
      BY <1>2, <3>2, SameRun
    <3>4. Ask # "none"
      <4>1. Ask \in Prompts
        BY <1>0, <3>2, RunFacts DEF PtyTypeOK
      <4> QED BY <4>1 DEF Prompts, Secrets, Logins, Sus
    <3>5. typed'.rid = inj.rid /\ typed'.field = inj.field /\ typed'.ask = Ask
      BY <3>2
    <3> QED BY <2>1, <3>2, <3>3, <3>4, <3>5 DEF Suits
  <2>3. CASE ~InjType
    <3>1. typed' = typed /\ (clean' = clean \/ ~clean')
      BY <1>0, <2>1, <2>3, TypingStep
    <3>2. TellsHops
      BY <1>2, <2>1, <3>1 DEF TellsHops, Dual
    <3> QED BY <1>0, <1>2, <2>1, <3>1, <3>2 DEF SecretAtItsPrompt
  <2> QED BY <2>2, <2>3
<1> QED BY <1>1, <1>3, <1>4 DEF SecretInv

LEMMA SecretInit ==
  ASSUME RunAssumption, PtyAssumption, PtyInit
  PROVE  SecretInv
<1>1. PtyTypeOK
  BY PtyTypeInit
<1>2. /\ peer.at = 1 /\ typed = Nil /\ window = <<>> /\ inj.pc = "idle" /\ ~pend.inj
      /\ ~recorded.login /\ ~recorded.inner /\ recorded.fields = {}
      /\ out = (IF run.preBanner THEN <<"banner">> ELSE <<>>)
      /\ stdin = <<>> /\ ~sigint /\ pend.rid = Nil /\ ~pend.elev
  BY DEF PtyInit
<1>3. \A i \in DOMAIN out : run.preBanner /\ out[i] = "banner"
  BY <1>2
<1>4. BannerLate /\ NoKeys /\ NoFields /\ Typing /\ SecretAtItsPrompt
  BY <1>2, <1>3 DEF BannerLate, NoKeys, NoFields, Typing, SecretAtItsPrompt, Has
<1>5. OutWaits /\ WindowWaits
  BY <1>2, <1>3, HeldFacts DEF OutWaits, WindowWaits
<1>6. AskedFits /\ OuterDone /\ DualDone
  BY <1>2 DEF AskedFits, Asked, OuterDone, DualDone, Passed, InFlight
<1> QED BY <1>1, <1>4, <1>5, <1>6 DEF SecretInv, HandInv

\* In runs whose prompts come in order, a secret is typed at a prompt only, from
\* the record of the host that prompts, and it is the field the prompt asks for;
\* a record with one field only has that one typed at any prompt whose field it
\* has not, the host-key question included.
THEOREM SecretPlaced ==
  ASSUME \A r \in Runs : InOrder(r) PROVE PtySpec => []SecretAtItsPrompt
<1>1. PtyInit => SecretInv
  BY PtyAssumption, RunAssumption, SecretInit
<1>2. SecretInv /\ [PtyNext]_ptyVars => SecretInv'
  <2>1. SecretInv => run \in Runs
    BY DEF SecretInv, PtyTypeOK, PeerTypeOK
  <2> QED BY <2>1, PtyAssumption, RunAssumption, SecretStep
<1>3. SecretInv => SecretAtItsPrompt
  BY DEF SecretInv
<1> QED BY <1>1, <1>2, <1>3, PTL DEF PtySpec

-----------------------------------------------------------------------------
\* What is saved

\* A run without a record at a terminal, whose banner is the login's own.
Plain == run.kind = "fresh" /\ run.tty /\ run.ascii /\ ~run.preBanner

\* The login is still to come.
Ahead == \E i \in peer.at..Len(run.asks) : run.asks[i] = "login"
Untaken == accepted = Nil /\ main = "loop" /\ peer.st \in {"busy", "asking"} /\ Ahead

\* What follows the first k keys is ^C, if anything.
Then(k) == Len(stdin) > k => stdin[k + 1].part = "int"

\* The four turns of a prompt: it is printed and read; it is on the screen and
\* its answer is captured; the user has typed; the first half is forwarded.
\* Or the user has struck ^C.
Printing ==
  /\ ~capture.on /\ shown \notin Prompts /\ Then(0) /\ peer.line = <<>>
  /\ \A i \in DOMAIN out : out[i] \in Prompts => peer.st = "asking" /\ i = Len(out)
  /\ \A i \in DOMAIN window : window[i] \in Prompts =>
       peer.st = "asking" /\ i = Len(window) /\ out = <<>> /\ scan = "arm"

AtPrompt == /\ peer.st = "asking" /\ out = <<>> /\ window = <<>>
            /\ capture.on /\ capture.text = peer.line

Shown   == AtPrompt /\ shown \in Prompts /\ peer.line = <<>> /\ Then(0)
Entered == /\ AtPrompt /\ shown \notin Prompts /\ peer.line = <<>>
           /\ Len(stdin) >= 2 /\ stdin[1].part = "first" /\ stdin[2].part = "enter" /\ Then(2)
Half    == /\ AtPrompt /\ shown \notin Prompts
           /\ stdin # <<>> /\ stdin[1].part = "enter" /\ Then(1)
Struck  == AtPrompt /\ shown \notin Prompts /\ stdin # <<>> /\ stdin[1].part = "int"

Turn  == Printing \/ Shown \/ Entered \/ Half \/ Struck
Turns == Untaken => Turn

\* Once the login has taken a line, that is what was captured, and stays it.
Taken ==
  accepted # Nil =>
    /\ SusLeft
    /\ run.ssh /\ run.banner =>
         /\ ~capture.on /\ capture.text = accepted
         /\ postAuth \/ (out # <<>> /\ out[1] = "banner" /\ window = <<>>)

\* Without a record nothing is injected, and ^C is no signal.
Unarmed == ~Preset => /\ ~pend.inj /\ ~rescan /\ ~sigint
                      /\ inj.pc \in {"idle", "ended"}

\* The banner that was seen is the one of the last login.
PostLate == postAuth /\ ~run.preBanner => run.ssh /\ run.banner /\ SusLeft

SavedLast ==
  saved # Nil => /\ main = "exited" /\ ~Preset /\ run.tty
                 /\ Plain /\ run.ssh /\ run.banner /\ accepted # Nil => saved = accepted

\* No step takes the program back.
LEMMA PeerGrows ==
  ASSUME RunAssumption, PtyTypeOK, [PtyNext]_ptyVars
  PROVE  /\ run' = run
         /\ \A i \in peer'.at..Len(run.asks) : i \in peer.at..Len(run.asks)
<1>1. run' = run
  BY HandOnce
<1> DEFINE Goal == \A i \in peer'.at..Len(run.asks) : i \in peer.at..Len(run.asks)
<1>2. \A line, ok : Answer(line, ok) => Goal
  <2>1. \A line : Right(line) => peer' = NextAsk
    BY DEF Right
  <2>2. Wrong => \/ peer' = NextAsk
                 \/ peer' = [peer EXCEPT !.tries = @ + 1, !.line = <<>>]
                 \/ peer' = [peer EXCEPT !.st = "gone", !.line = <<>>]
    BY DEF Wrong
  <2>3. \A line, ok : Answer(line, ok) => peer' = peer \/ Right(line) \/ Wrong
    BY DEF Answer
  <2> QED BY <1>1, <2>1, <2>2, <2>3, PeerOn
<1>3. InterruptPeer => Goal
  BY <1>1, PeerOn DEF InterruptPeer
<1> HIDE DEF Goal
<1>4. peer' = peer => Goal
  BY <1>1, PeerOn DEF Goal
<1>5. PeerAsks \/ PeerExits => Goal
  BY <1>1, PeerOn DEF PeerAsks, PeerExits, Goal
<1>6. Scanner \/ User \/ Tick => Goal
  BY <1>4 DEF Scanner, ScanRescan, ScanReady, ScanRead, ScanArm, ScanEnds, User, UserTypes,
              UserInterrupts, PipeWrites, Tick
<1>7. Injector => Goal
  <2>1. InjType => Goal
    BY <1>2 DEF InjType
  <2> QED BY <1>4, <2>1 DEF Injector, InjStart, InjSpawn, InjFail, InjNonblock, InjDrain,
                             InjBlocking, InjRecord, InjOpen, InjEnd
<1>8. Main => Goal
  <2>1. MainForward => Goal
    <3> DEFINE press == Head(stdin)
    <3>1. CASE press.part = "first"
      <4>1. MainForward => peer' = peer \/ \E line : peer' = [peer EXCEPT !.line = line]
        BY <3>1 DEF MainForward
      <4> QED BY <1>1, <4>1, PeerOn DEF Goal
    <3>2. CASE press.part = "enter"
      BY <1>2, <3>2 DEF MainForward
    <3>3. CASE press.part = "int"
      BY <1>3, <3>3 DEF MainForward
    <3>4. CASE press.part = "eof"
      BY <1>4, <3>4 DEF MainForward
    <3>5. MainForward => press.part \in {"first", "enter", "int", "eof"}
      <4>1. MainForward => stdin \in Seq(Press) /\ stdin # <<>>
        BY DEF PtyTypeOK, MainTypeOK, MainForward
      <4>2. MainForward => press \in Press
        BY <4>1
      <4> QED BY <4>2 DEF Press
    <3> QED BY <3>1, <3>2, <3>3, <3>4, <3>5
  <2>2. MainSigint => Goal
    BY <1>3 DEF MainSigint
  <2>3. MainKill => Goal
    BY <1>1, PeerOn DEF MainKill, Goal
  <2>4. MainOpen \/ MainEnds \/ MainExit \/ MainGraceOver \/ MainDown \/ MainJoin \/ ExecSaves
          => Goal
    BY <1>4 DEF MainOpen, MainEnds, MainExit, MainGraceOver, MainDown, MainJoin, ExecSaves
  <2> QED BY <2>1, <2>2, <2>3, <2>4 DEF Main
<1>9. UNCHANGED ptyVars => Goal
  BY <1>4 DEF ptyVars
<1> QED BY <1>1, <1>5, <1>6, <1>7, <1>8, <1>9 DEF PtyNext, RunOver, Goal

LEMMA SusStays ==
  ASSUME RunAssumption, PtyTypeOK, SusLeft, [PtyNext]_ptyVars
  PROVE  SusLeft'
BY PeerGrows DEF SusLeft

LEMMA UnarmedStep ==
  ASSUME Unarmed, [PtyNext]_ptyVars
  PROVE  Unarmed'
<1>0. run' = run /\ Preset' = Preset
  BY HandOnce DEF Preset
<1>1. ASSUME ~Preset, UNCHANGED <<pend, rescan, sigint, inj>> PROVE Unarmed'
  BY <1>0, <1>1 DEF Unarmed
<1>2. CASE Preset
  BY <1>0, <1>2 DEF Unarmed
<1>3. CASE ~Preset
  <2>0. ~pend.inj /\ ~rescan /\ ~sigint /\ inj.pc \in {"idle", "ended"}
    BY <1>3 DEF Unarmed
  <2>1. CASE Scanner
    <3>1. Arm(window) => pend' = pend
      BY <1>3 DEF Arm
    <3> QED BY <1>1, <1>3, <2>0, <2>1, <3>1
            DEF Scanner, ScanRescan, ScanReady, ScanRead, ScanArm, ScanEnds
  <2>2. CASE Injector
    <3>1. InjEnd
      BY <2>0, <2>2 DEF Injector, InjStart, InjSpawn, InjType, InjFail, InjNonblock, InjDrain,
                        InjBlocking, InjRecord, InjOpen
    <3>2. UNCHANGED <<pend, rescan, sigint>> /\ inj' = [inj EXCEPT !.pc = "ended"]
      BY <3>1 DEF InjEnd
    <3>3. inj.pc = "idle"
      BY <3>1 DEF InjEnd
    <3> QED BY <1>0, <2>0, <3>2, <3>3 DEF Unarmed
  <2>3. CASE User \/ Tick \/ PeerAsks \/ PeerExits \/ UNCHANGED ptyVars
    BY <1>1, <1>3, <2>3 DEF User, UserTypes, UserInterrupts, PipeWrites, Tick, PeerAsks, PeerExits,
                            ptyVars
  <2>4. CASE Main
    <3>1. UNCHANGED <<pend, rescan, inj>> /\ (sigint' = sigint \/ ~sigint')
      BY <2>4 DEF Main, MainForward, MainSigint, MainOpen, MainEnds, MainExit, MainGraceOver,
                  MainDown, MainKill, MainJoin, ExecSaves
    <3> QED BY <1>0, <2>0, <3>1 DEF Unarmed
  <2> QED BY <2>1, <2>2, <2>3, <2>4 DEF PtyNext, RunOver
<1> QED BY <1>2, <1>3

LEMMA PostLateStep ==
  ASSUME RunAssumption, PtyTypeOK, BannerLate, PostLate, [PtyNext]_ptyVars
  PROVE  PostLate'
<1>1. run' = run /\ (SusLeft => SusLeft')
  BY PeerGrows, SusStays
<1>2. CASE postAuth' = postAuth
  BY <1>1, <1>2 DEF PostLate
<1>3. CASE ScanRead
  <2>1. postAuth' => postAuth \/ (run.ssh /\ Has(window, {"banner"})')
    BY <1>3 DEF ScanRead, Has
  <2>2. ASSUME Has(window, {"banner"})', ~run.preBanner PROVE run.banner /\ SusLeft
    BY <1>3, <2>2, ReadBanner DEF BannerLate
  <2> QED BY <1>1, <2>1, <2>2 DEF PostLate
<1>4. CASE ~ScanRead
  <2>1. Injector \/ User \/ Tick \/ Main => postAuth' = postAuth
    BY DEF Injector, InjStart, InjSpawn, InjType, InjFail, InjNonblock, InjDrain, InjBlocking,
           InjRecord, InjOpen, InjEnd, User, UserTypes, UserInterrupts, PipeWrites, Tick, Main,
           MainForward, MainSigint, MainOpen, MainEnds, MainExit, MainGraceOver, MainDown,
           MainKill, MainJoin, ExecSaves
  <2>2. PeerAsks \/ PeerExits \/ UNCHANGED ptyVars => postAuth' = postAuth
    BY DEF PeerAsks, PeerExits, ptyVars
  <2>3. Scanner => postAuth' = postAuth
    BY <1>4 DEF Scanner, ScanRescan, ScanReady, ScanArm, ScanEnds
  <2> QED BY <1>2, <2>1, <2>2, <2>3 DEF PtyNext, RunOver
<1> QED BY <1>3, <1>4

\* At a prompt before the login the program does not ask for an elevation, and
\* the login is the last one.
LEMMA BeforeLogin ==
  ASSUME RunAssumption, PtyTypeOK, LoginLast(run), run.kind = "fresh"
  PROVE  /\ Ahead => Len(run.asks) \in Nat /\ peer.at \in 1..Len(run.asks) /\ Ask \notin Sus
                      /\ ~SusLeft
         /\ Ahead /\ Ask # "login" => ~LastLogin
         /\ peer.st = "asking" /\ Ask = "login" =>
              /\ Ahead /\ LastLogin
              /\ \A i \in (peer.at + 1)..Len(run.asks) : run.asks[i] \in Sus
<1>0. run.asks \in Seq(Prompts) /\ Len(run.asks) \in Nat /\ peer.at \in Nat \ {0}
      /\ (peer.st = "asking" => peer.at \in 1..Len(run.asks))
  BY RunFacts DEF PtyTypeOK, PeerTypeOK, Peers
<1>1. "login" \notin Sus
  BY DEF Sus
<1>2. ASSUME Ahead
      PROVE  peer.at \in 1..Len(run.asks) /\ Ask \notin Sus /\ ~SusLeft
             /\ (Ask # "login" => ~LastLogin)
  <2>1. PICK i \in peer.at..Len(run.asks) : run.asks[i] = "login"
    BY <1>2 DEF Ahead
  <2>2. /\ i \in 1..Len(run.asks) /\ peer.at \in 1..Len(run.asks)
        /\ \/ peer.at = i
           \/ peer.at \in 1..(i - 1) /\ i \in (peer.at + 1)..Len(run.asks)
    BY <1>0, <2>1
  <2>3. \A j \in 1..(i - 1) : run.asks[j] \notin Sus
    BY <2>1, <2>2 DEF LoginLast
  <2> QED BY <1>1, <2>1, <2>2, <2>3 DEF Ask, SusLeft, LastLogin
<1>3. ASSUME peer.st = "asking", Ask = "login"
      PROVE  /\ Ahead /\ LastLogin
             /\ \A i \in (peer.at + 1)..Len(run.asks) : run.asks[i] \in Sus
  <2>1. peer.at \in 1..Len(run.asks) /\ peer.at \in peer.at..Len(run.asks)
    BY <1>0, <1>3
  <2>2. \A i \in (peer.at + 1)..Len(run.asks) : run.asks[i] \in Sus
    BY <1>3, <2>1 DEF LoginLast, Ask
  <2> QED BY <1>1, <1>3, <2>1, <2>2 DEF Ahead, LastLogin, Ask
<1> QED BY <1>0, <1>2, <1>3

\* Only an answer to the login, given in the main loop, is taken for it.
LEMMA TakenOnce ==
  ASSUME RunAssumption, PtyTypeOK, Unarmed, ~Preset, [PtyNext]_ptyVars
  PROVE  /\ accepted' = accepted
            \/ /\ MainForward /\ Head(stdin).part = "enter" /\ peer.st = "asking" /\ Ask = "login"
               /\ Right(Append(peer.line, Head(stdin)))
<1>1. Scanner \/ User \/ Tick => accepted' = accepted
  BY DEF Scanner, ScanRescan, ScanReady, ScanRead, ScanArm, ScanEnds, User, UserTypes,
         UserInterrupts, PipeWrites, Tick
<1>2. PeerAsks \/ PeerExits \/ UNCHANGED ptyVars => accepted' = accepted
  BY DEF PeerAsks, PeerExits, ptyVars
<1>3. Injector => accepted' = accepted
  <2>1. ~InjType
    BY DEF InjType, Unarmed
  <2> QED BY <2>1 DEF Injector, InjStart, InjSpawn, InjFail, InjNonblock, InjDrain, InjBlocking,
                      InjRecord, InjOpen, InjEnd
<1>4. MainOpen \/ MainEnds \/ MainExit \/ MainGraceOver \/ MainDown \/ MainKill \/ MainJoin
        \/ ExecSaves \/ MainSigint => accepted' = accepted
  BY DEF MainOpen, MainEnds, MainExit, MainGraceOver, MainDown, MainKill, MainJoin, ExecSaves,
         MainSigint, InterruptPeer
<1>5. ASSUME MainForward, accepted' # accepted
      PROVE  /\ Head(stdin).part = "enter" /\ peer.st = "asking" /\ Ask = "login"
             /\ Right(Append(peer.line, Head(stdin)))
  <2>1. Head(stdin).part \in {"first", "enter", "int", "eof"}
    <3>1. stdin \in Seq(Press) /\ stdin # <<>>
      BY <1>5 DEF PtyTypeOK, MainTypeOK, MainForward
    <3>2. Head(stdin) \in Press
      BY <3>1
    <3> QED BY <3>2 DEF Press
  <2>2. Head(stdin).part = "enter"
    BY <1>5, <2>1 DEF MainForward, InterruptPeer
  <2>3. \E ok : Answer(Append(peer.line, Head(stdin)), ok)
    BY <1>5, <2>2 DEF MainForward
  <2>4. peer.st = "asking" /\ Right(Append(peer.line, Head(stdin)))
    BY <1>5, <2>3 DEF Answer, Wrong
  <2> QED BY <1>5, <2>2, <2>4 DEF Right
<1> QED BY <1>1, <1>2, <1>3, <1>4, <1>5 DEF PtyNext, RunOver, Main

\* Nothing but the scanner and the injector's drain takes from what was printed.
LEMMA PrintedStays ==
  ASSUME RunAssumption, PtyTypeOK, [PtyNext]_ptyVars, ~ScanRead, ~InjDrain, out # <<>>
  PROVE  out' # <<>> /\ out'[1] = out[1]
<1>0. out \in Seq(Tokens) /\ \A t \in Seq(Tokens) : out \o t # <<>> /\ (out \o t)[1] = out[1]
  BY DEF PtyTypeOK, PeerTypeOK
<1>1. ASSUME out' = out \/ \E t \in Seq(Tokens) : out' = out \o t
      PROVE  out' # <<>> /\ out'[1] = out[1]
  BY <1>0, <1>1
<1>2. \A x : out' = Append(out, x) => out' # <<>> /\ out'[1] = out[1]
  BY <1>0
<1>3. ASSUME NEW line, NEW ok, Answer(line, ok)
      PROVE  out' = out \/ \E t \in Seq(Tokens) : out' = out \o t
  <2>1. Greeting \in Seq(Tokens) /\ (peer.st = "asking" => Again \in Seq(Tokens))
    BY Texts DEF PtyTypeOK
  <2> QED BY <1>3, <2>1 DEF Answer, Right, Wrong
<1>4. PeerAsks \/ PeerExits => out' = out \/ \E x : out' = Append(out, x)
  BY DEF PeerAsks, PeerExits
<1>5. Scanner \/ User \/ Tick \/ UNCHANGED ptyVars => out' = out
  BY DEF Scanner, ScanRescan, ScanReady, ScanArm, ScanEnds, User, UserTypes, UserInterrupts,
         PipeWrites, Tick, ptyVars
<1>6. Injector => out' = out \/ \E line, ok : Answer(line, ok)
  <2>1. InjType => \E line, ok : Answer(line, ok)
    BY DEF InjType
  <2> QED BY <2>1 DEF Injector, InjStart, InjSpawn, InjFail, InjNonblock, InjBlocking, InjRecord,
                      InjOpen, InjEnd
<1>7. Main => out' = out \/ \E line, ok : Answer(line, ok)
  <2>1. MainForward => out' = out \/ \E line, ok : Answer(line, ok)
    <3> DEFINE press == Head(stdin)
    <3>1. MainForward => press.part \in {"first", "enter", "int", "eof"}
      <4>1. MainForward => stdin \in Seq(Press) /\ stdin # <<>>
        BY DEF PtyTypeOK, MainTypeOK, MainForward
      <4>2. MainForward => press \in Press
        BY <4>1
      <4> QED BY <4>2 DEF Press
    <3>2. MainForward /\ press.part = "enter" => \E line, ok : Answer(line, ok)
      BY DEF MainForward
    <3>3. MainForward /\ press.part # "enter" => out' = out
      BY <3>1 DEF MainForward, InterruptPeer
    <3> QED BY <3>2, <3>3
  <2> QED BY <2>1 DEF Main, MainSigint, InterruptPeer, MainOpen, MainEnds, MainExit,
                      MainGraceOver, MainDown, MainKill, MainJoin, ExecSaves
<1> QED BY <1>1, <1>2, <1>3, <1>4, <1>5, <1>6, <1>7 DEF PtyNext, RunOver

\* What the login took is what was captured.
LEMMA TakesCaptured ==
  ASSUME RunAssumption, PtyTypeOK, LoginLast(run), Plain, Turns, Taken, MainForward,
         Head(stdin).part = "enter", peer.st = "asking", Ask = "login",
         Right(Append(peer.line, Head(stdin)))
  PROVE  Taken'
<1> DEFINE press == Head(stdin)
<1>0. stdin \in Seq(Press) /\ stdin # <<>> /\ press = stdin[1] /\ press \in Press
  <2>1. stdin \in Seq(Press) /\ stdin # <<>>
    BY DEF PtyTypeOK, MainTypeOK, MainForward
  <2> QED BY <2>1
<1>1. Ahead /\ LastLogin /\ ~SusLeft
      /\ \A i \in (peer.at + 1)..Len(run.asks) : run.asks[i] \in Sus
  BY BeforeLogin DEF Plain
<1>2. Half
  <2>1. Untaken
    BY <1>1 DEF Taken, Untaken, MainForward
  <2>2. Len(stdin) > 0
    BY <1>0
  <2> QED BY <1>0, <2>1, <2>2 DEF Turns, Turn, Printing, Shown, Entered, Struck, Then
<1>3. peer' = NextAsk /\ run' = run /\ SusLeft'
  BY <1>1 DEF Right, MainForward, SusLeft, NextAsk
<1>4. out' = Greeting /\ window' = <<>>
  <2>1. out = <<>> /\ window = <<>>
    BY <1>2 DEF Half, AtPrompt
  <2>2. Greeting \in Seq(Tokens)
    BY Texts DEF PtyTypeOK
  <2> QED BY <2>1, <2>2 DEF Right, MainForward
<1>5. run.banner => out' # <<>> /\ out'[1] = "banner"
  BY <1>1, <1>4 DEF Greeting
<1>6. ~capture'.on /\ capture'.text = accepted'
  <2>1. capture.on /\ capture.text = peer.line /\ run.tty /\ run.ascii
    BY <1>2 DEF Half, AtPrompt, Plain
  <2>2. capture' = [on |-> FALSE, text |-> Append(peer.line, press)]
    BY <2>1 DEF MainForward, Captured, AsChar
  <2>3. accepted' = Append(peer.line, press)
    BY DEF Right
  <2> QED BY <2>2, <2>3
<1> QED BY <1>3, <1>4, <1>5, <1>6 DEF Taken

LEMMA TakenStep ==
  ASSUME RunAssumption, PtyAssumption, PtyTypeOK, LoginLast(run), Plain, Unarmed, Turns, Taken,
         [PtyNext]_ptyVars
  PROVE  Taken'
<1>0. ~Preset /\ Scans /\ run' = run /\ run.tty
  BY HandOnce DEF Plain, Preset, Scans
<1>1. CASE accepted' # accepted
  BY <1>0, <1>1, TakenOnce, TakesCaptured
<1>2. CASE accepted' = accepted /\ accepted # Nil /\ run.ssh /\ run.banner
  <2>0. SusLeft' /\ ~capture.on /\ capture.text = accepted
        /\ (postAuth \/ (out # <<>> /\ out[1] = "banner" /\ window = <<>>))
    BY <1>2, SusStays DEF Taken
  <2>1. Arm(window) => capture' = capture /\ (window' = window \/ window' = <<>>)
    <3>1. postAuth => AfterLogin
      BY <1>0, <1>2 DEF AfterLogin
    <3>2. window = <<>> => ~PromptAtEnd(window)
      BY DEF PromptAtEnd
    <3> QED BY <2>0, <3>1, <3>2 DEF Arm
  <2>2. CASE ScanRead
    <3>1. UNCHANGED <<capture, accepted>> /\ (postAuth => postAuth')
      BY <2>2 DEF ScanRead
    <3>2. ASSUME out # <<>>, out[1] = "banner", window = <<>> PROVE postAuth'
      <4>1. PICK n \in {1, Len(out)} :
              LET w == window \o SubSeq(out, 1, n)
              IN postAuth' = (postAuth \/ (Scans /\ run.ssh /\ ~postAuth /\ Has(w, {"banner"})))
        BY <2>2 DEF ScanRead
      <4>2. out \in Seq(Tokens) /\ n \in 1..Len(out)
        BY <3>2 DEF PtyTypeOK, PeerTypeOK
      <4> DEFINE w == window \o SubSeq(out, 1, n)
      <4>3. w = SubSeq(out, 1, n) /\ 1 \in DOMAIN w /\ w[1] = out[1]
        BY <3>2, <4>2
      <4>4. Has(w, {"banner"})
        BY <3>2, <4>3 DEF Has
      <4> QED BY <1>0, <1>2, <4>1, <4>4
    <3> QED BY <1>0, <2>0, <2>2, <3>1, <3>2 DEF Taken
  <2>3. CASE ~ScanRead
    <3>1. postAuth' = postAuth /\ (window' = window \/ window' = <<>>) /\ capture' = capture
      <4>1. Scanner => postAuth' = postAuth /\ (window' = window \/ window' = <<>>)
                       /\ capture' = capture
        BY <2>1, <2>3 DEF Scanner, ScanRescan, ScanReady, ScanArm, ScanEnds
      <4>2. Injector => UNCHANGED <<postAuth, window, capture>>
        BY DEF Injector, InjStart, InjSpawn, InjType, InjFail, InjNonblock, InjDrain, InjBlocking,
               InjRecord, InjOpen, InjEnd
      <4>3. User \/ Tick \/ PeerAsks \/ PeerExits \/ UNCHANGED ptyVars =>
              UNCHANGED <<postAuth, window, capture>>
        BY DEF User, UserTypes, UserInterrupts, PipeWrites, Tick, PeerAsks, PeerExits, ptyVars
      <4>4. Main => UNCHANGED <<postAuth, window, capture>>
        <5>1. MainForward \/ MainSigint => UNCHANGED <<postAuth, window, capture>>
          BY <2>0 DEF MainForward, MainSigint, Captured
        <5>2. MainOpen \/ MainEnds \/ MainExit \/ MainGraceOver \/ MainDown \/ MainKill
                \/ MainJoin \/ ExecSaves => UNCHANGED <<postAuth, window, capture>>
          BY DEF MainOpen, MainEnds, MainExit, MainGraceOver, MainDown, MainKill, MainJoin,
                 ExecSaves
        <5> QED BY <5>1, <5>2 DEF Main
      <4> QED BY <4>1, <4>2, <4>3, <4>4 DEF PtyNext, RunOver
    <3>2. out # <<>> => out' # <<>> /\ out'[1] = out[1]
      <4>1. ~InjDrain
        BY <1>0 DEF InjDrain, Unarmed
      <4> QED BY <2>3, <4>1, PrintedStays
    <3> QED BY <1>0, <1>2, <2>0, <3>1, <3>2 DEF Taken
  <2> QED BY <2>2, <2>3
<1>3. CASE accepted' = accepted /\ ~(accepted # Nil /\ run.ssh /\ run.banner)
  BY <1>0, <1>3, SusStays DEF Taken
<1> QED BY <1>1, <1>2, <1>3


\* What is saved is what was captured when the program had ended.
LEMMA SavedLastStep ==
  ASSUME RunAssumption, PtyTypeOK, Unarmed, SavedLast, Plain => Taken, [PtyNext]_ptyVars
  PROVE  SavedLast'
<1>0. run' = run
  BY HandOnce
<1> USE DEF Plain, Preset
<1>1. CASE ExecSaves
  <2>1. saved' # Nil => ~Preset /\ run.tty /\ saved' = capture.text
    BY <1>1 DEF ExecSaves, ShouldSave, Offered
  <2>2. accepted' = accepted /\ main' = "exited"
    BY <1>1 DEF ExecSaves
  <2>3. Plain /\ run.ssh /\ run.banner /\ accepted # Nil => capture.text = accepted
    BY DEF Taken
  <2> QED BY <1>0, <2>1, <2>2, <2>3 DEF SavedLast
<1>2. CASE ~ExecSaves
  <2>1. saved' = saved
    <3>1. Scanner \/ User \/ Tick \/ PeerAsks \/ PeerExits \/ UNCHANGED ptyVars => saved' = saved
      BY DEF Scanner, ScanRescan, ScanReady, ScanRead, ScanArm, ScanEnds, User, UserTypes,
             UserInterrupts, PipeWrites, Tick, PeerAsks, PeerExits, ptyVars
    <3>2. Injector => saved' = saved
      BY DEF Injector, InjStart, InjSpawn, InjType, InjFail, InjNonblock, InjDrain, InjBlocking,
             InjRecord, InjOpen, InjEnd
    <3>3. Main => saved' = saved
      BY <1>2 DEF Main, MainForward, MainSigint, MainOpen, MainEnds, MainExit, MainGraceOver,
                  MainDown, MainKill, MainJoin
    <3> QED BY <3>1, <3>2, <3>3 DEF PtyNext, RunOver
  <2>2. main = "exited" => main' = main
    <3>1. Scanner \/ User \/ Tick \/ PeerAsks \/ PeerExits \/ UNCHANGED ptyVars => main' = main
      BY DEF Scanner, ScanRescan, ScanReady, ScanRead, ScanArm, ScanEnds, User, UserTypes,
             UserInterrupts, PipeWrites, Tick, PeerAsks, PeerExits, ptyVars
    <3>2. Injector => main' = main
      BY DEF Injector, InjStart, InjSpawn, InjType, InjFail, InjNonblock, InjDrain, InjBlocking,
             InjRecord, InjOpen, InjEnd
    <3>3. Main => main # "exited"
      BY <1>2 DEF Main, MainForward, MainSigint, MainOpen, MainEnds, MainExit, MainGraceOver,
                  MainDown, MainKill, MainJoin
    <3> QED BY <3>1, <3>2, <3>3 DEF PtyNext, RunOver
  <2>3. main = "exited" /\ ~Preset => accepted' = accepted
    BY TakenOnce DEF MainForward
  <2> QED BY <1>0, <2>1, <2>2, <2>3 DEF SavedLast
<1> QED BY <1>1, <1>2

\* Keys that are only ^C may follow.
LEMMA KeysFollow ==
  ASSUME NEW s \in Seq(Press), NEW x \in Press
  PROVE  /\ Append(s, x) \in Seq(Press) /\ Len(Append(s, x)) = Len(s) + 1 /\ Len(s) \in Nat
         /\ \A i \in 1..Len(s) : Append(s, x)[i] = s[i]
         /\ Append(s, x)[Len(s) + 1] = x
OBVIOUS

\* Steps that touch no prompt.
LEMMA TurnsSame ==
  ASSUME RunAssumption, PtyTypeOK, PtyTypeOK', Turns,
         run' = run, accepted' = accepted, main' = "loop" => main = "loop",
         peer' = peer \/ peer'.st = "gone",
         main' = "loop" /\ peer' = peer =>
           /\ UNCHANGED <<capture, shown, out, window>>
           /\ scan' = scan \/ scan # "arm"
           /\ \/ stdin' = stdin
              \/ \E x \in Press : x.part = "int" /\ stdin' = Append(stdin, x)
  PROVE  Turns'
<1> SUFFICES ASSUME Untaken' PROVE Turn'
  BY DEF Turns
<1>1. peer' = peer /\ main' = "loop" /\ Untaken
  BY DEF Untaken, Ahead
<1>2. UNCHANGED <<capture, shown, out, window>> /\ (scan' = scan \/ scan # "arm")
  BY <1>1
<1>3. /\ stdin # <<>> => stdin' # <<>> /\ stdin'[1] = stdin[1]
      /\ Len(stdin) >= 2 => Len(stdin') >= 2 /\ stdin'[2] = stdin[2]
      /\ \A k \in {0, 1, 2} : Then(k) => Then(k)'
  <2>0. stdin \in Seq(Press) /\ Len(stdin) \in Nat
    BY DEF PtyTypeOK, MainTypeOK
  <2>1. CASE stdin' = stdin
    BY <2>0, <2>1 DEF Then
  <2>2. CASE \E x \in Press : x.part = "int" /\ stdin' = Append(stdin, x)
    <3>1. PICK x \in Press : x.part = "int" /\ stdin' = Append(stdin, x)
      BY <2>2
    <3>2. /\ stdin' \in Seq(Press) /\ Len(stdin') = Len(stdin) + 1
          /\ \A i \in 1..Len(stdin) : stdin'[i] = stdin[i]
          /\ stdin'[Len(stdin) + 1] = x
      BY <2>0, <3>1, KeysFollow
    <3>3. stdin # <<>> => 1 \in 1..Len(stdin)
      BY <2>0
    <3>4. Len(stdin) >= 2 => 2 \in 1..Len(stdin)
      BY <2>0
    <3>5. ASSUME NEW k \in {0, 1, 2}, Then(k), Len(stdin') > k PROVE stdin'[k + 1].part = "int"
      <4>1. k \in Nat /\ (k + 1 = Len(stdin) + 1 \/ (k + 1 \in 1..Len(stdin) /\ Len(stdin) > k))
        BY <2>0, <3>2, <3>5
      <4> QED BY <3>1, <3>2, <3>5, <4>1 DEF Then
    <3>6. stdin' # <<>>
      BY <2>0, <3>2
    <3> QED BY <2>0, <3>2, <3>3, <3>4, <3>5, <3>6 DEF Then
  <2> QED BY <1>1, <2>1, <2>2
<1>4. CASE Printing
  BY <1>1, <1>2, <1>3, <1>4 DEF Turn, Printing
<1>5. CASE Shown
  BY <1>1, <1>2, <1>3, <1>5 DEF Turn, Shown, AtPrompt
<1>6. CASE Entered
  BY <1>1, <1>2, <1>3, <1>6 DEF Turn, Entered, AtPrompt
<1>7. CASE Half \/ Struck
  BY <1>1, <1>2, <1>3, <1>7 DEF Turn, Half, Struck, AtPrompt
<1> QED BY <1>1, <1>4, <1>5, <1>6, <1>7 DEF Turns, Turn

\* A prompt is printed when the program asks, and that is what is printed last.
LEMMA AskTurns ==
  ASSUME RunAssumption, PtyTypeOK, Turns, PeerAsks
  PROVE  Turns'
<1> SUFFICES ASSUME Untaken' PROVE Turn'
  BY DEF Turns
<1>0. peer \in Peers /\ out \in Seq(Tokens) /\ Len(out) \in Nat
  BY DEF PtyTypeOK, PeerTypeOK
<1>1. /\ peer.st = "busy" /\ peer' = [peer EXCEPT !.st = "asking"] /\ out' = Append(out, Ask)
      /\ UNCHANGED <<run, accepted, main, capture, shown, window, scan, stdin>>
  BY <1>0 DEF PeerAsks, Untaken, Peers
<1>2. peer'.st = "asking" /\ peer'.at = peer.at /\ peer'.line = peer.line
  BY <1>0, <1>1 DEF Peers
<1>3. Untaken
  BY <1>1, <1>2 DEF Untaken, Ahead
<1>4. Printing
  BY <1>1, <1>3 DEF Turns, Turn, Shown, Entered, Half, Struck, AtPrompt
<1>5. \A i \in DOMAIN out' : out'[i] \in Prompts => i = Len(out')
  <2>1. \A i \in DOMAIN out : out[i] \notin Prompts
    BY <1>1, <1>4 DEF Printing
  <2>2. Len(out') = Len(out) + 1 /\ DOMAIN out' = 1..(Len(out) + 1) /\ DOMAIN out = 1..Len(out)
        /\ \A i \in 1..Len(out) : out'[i] = out[i]
    BY <1>0, <1>1
  <2> QED BY <1>0, <2>1, <2>2
<1>6. \A i \in DOMAIN window' : window'[i] \notin Prompts
  BY <1>1, <1>4 DEF Printing
<1>7. Printing'
  BY <1>1, <1>2, <1>4, <1>5, <1>6 DEF Printing, Then
<1> QED BY <1>7 DEF Turn

LEMMA ReadTurns ==
  ASSUME PtyTypeOK, Turns, ScanRead, run.tty
  PROVE  Turns'
<1> SUFFICES ASSUME Untaken' PROVE Turn'
  BY DEF Turns
<1>0. /\ UNCHANGED <<run, peer, accepted, main, capture, stdin>> /\ scan' = "arm" /\ shown' = shown
      /\ scan = "read"
  BY DEF ScanRead, Scans
<1>1. Untaken
  BY <1>0 DEF Untaken, Ahead
<1>2. Printing
  BY <1>1 DEF Turns, Turn, Shown, Entered, Half, Struck, AtPrompt, ScanRead
<1>3. PICK n \in 1..Len(out) :
        /\ out' \in Seq(Tokens) /\ Len(out') = Len(out) - n
        /\ \A i \in 1..Len(out') : out'[i] = out[i + n]
        /\ window' \in Seq(Tokens) /\ Len(window') = Len(window) + n
        /\ \A i \in 1..Len(window) : window'[i] = window[i]
        /\ \A i \in 1..n : window'[Len(window) + i] = out[i]
  BY ReadFacts
<1>4. out \in Seq(Tokens) /\ window \in Seq(Tokens) /\ Len(out) \in Nat /\ Len(window) \in Nat
  BY DEF PtyTypeOK, PeerTypeOK, ScanTypeOK
<1>5. \A i \in DOMAIN out : out[i] \in Prompts => peer.st = "asking" /\ i = Len(out)
  BY <1>2 DEF Printing
<1>6. \A i \in DOMAIN window : window[i] \notin Prompts
  BY <1>0, <1>2 DEF Printing
<1>7. ASSUME NEW i \in DOMAIN out', out'[i] \in Prompts
      PROVE  peer.st = "asking" /\ i = Len(out')
  <2>1. i \in 1..Len(out') /\ i + n \in 1..Len(out) /\ out[i + n] \in Prompts
    BY <1>3, <1>4, <1>7
  <2>2. peer.st = "asking" /\ i + n = Len(out)
    BY <1>4, <1>5, <2>1
  <2> QED BY <1>3, <1>4, <2>1, <2>2
<1>8. ASSUME NEW i \in DOMAIN window', window'[i] \in Prompts
      PROVE  peer.st = "asking" /\ i = Len(window') /\ out' = <<>>
  <2>1. i \in 1..(Len(window) + n)
    BY <1>3, <1>4, <1>8
  <2>2. i > Len(window)
    <3>1. SUFFICES ASSUME i \in 1..Len(window) PROVE FALSE
      BY <1>4, <2>1
    <3>2. i \in DOMAIN window /\ window'[i] = window[i]
      BY <1>3, <1>4, <3>1
    <3> QED BY <1>6, <1>8, <3>2
  <2>3. i - Len(window) \in 1..n /\ i = Len(window) + (i - Len(window))
    BY <1>3, <1>4, <2>1, <2>2
  <2>4. out[i - Len(window)] \in Prompts /\ i - Len(window) \in DOMAIN out
    BY <1>3, <1>4, <1>8, <2>3
  <2>5. peer.st = "asking" /\ i - Len(window) = Len(out)
    BY <1>5, <2>4
  <2>6. n = Len(out) /\ Len(out') = 0
    BY <1>3, <1>4, <2>3, <2>5
  <2>7. out' = <<>>
    BY <1>3, <2>6
  <2>8. Len(window') = Len(window) + Len(out)
    BY <1>3, <2>6
  <2> QED BY <1>4, <2>1, <2>5, <2>7, <2>8
<1>9. Printing'
  BY <1>0, <1>2, <1>7, <1>8 DEF Printing, Then
<1> QED BY <1>9 DEF Turn

\* The prompt at the end of what was read is shown, and its answer captured.
LEMMA ArmTurns ==
  ASSUME RunAssumption, PtyTypeOK, LoginLast(run), Plain, Unarmed, PostLate, Turns, ScanArm
  PROVE  Turns'
<1> SUFFICES ASSUME Untaken' PROVE Turn'
  BY DEF Turns
<1>0. /\ UNCHANGED <<run, peer, accepted, main, stdin, out>> /\ scan' = "poll"
      /\ shown' = Last(window) /\ Arm(window) /\ window # <<>> /\ window \in Seq(Tokens)
      /\ Len(window) \in Nat
  BY DEF ScanArm, PtyTypeOK, ScanTypeOK
<1>1. Untaken
  BY <1>0 DEF Untaken, Ahead
<1>2. Printing
  BY <1>0, <1>1 DEF Turns, Turn, Shown, Entered, Half, Struck, AtPrompt
<1>3. ~Preset /\ ~pend.inj /\ ~AfterLogin
  <2>1. ~SusLeft
    BY <1>1, BeforeLogin DEF Untaken, Plain
  <2> QED BY <2>1 DEF Plain, Preset, Unarmed, PostLate, AfterLogin
<1>4. Last(window) = window[Len(window)] /\ Len(window) \in DOMAIN window
  BY <1>0 DEF Last
<1>5. CASE Last(window) \in Prompts
  <2>1. window' = <<>> /\ capture' = [on |-> TRUE, text |-> <<>>]
    BY <1>0, <1>2, <1>3, <1>5 DEF Arm, PromptAtEnd, Printing
  <2>2. peer.st = "asking" /\ out = <<>>
    BY <1>2, <1>4, <1>5 DEF Printing
  <2>3. Shown'
    BY <1>0, <1>2, <1>5, <2>1, <2>2 DEF Shown, AtPrompt, Printing, Then
  <2> QED BY <2>3 DEF Turn
<1>6. CASE Last(window) \notin Prompts
  <2>1. window' = window /\ capture' = capture
    BY <1>0, <1>6 DEF Arm, PromptAtEnd
  <2>2. \A i \in DOMAIN window : window[i] \notin Prompts
    BY <1>2, <1>4, <1>6 DEF Printing
  <2>3. Printing'
    BY <1>0, <1>2, <1>6, <2>1, <2>2 DEF Printing, Then
  <2> QED BY <2>3 DEF Turn
<1> QED BY <1>5, <1>6

LEMMA TypesTurns ==
  ASSUME PtyTypeOK, Plain, Turns, UserTypes
  PROVE  Turns'
<1> SUFFICES ASSUME Untaken' PROVE Turn'
  BY DEF Turns
<1> DEFINE first == Key("first")
           enter == Key("enter")
<1>0. /\ UNCHANGED <<run, peer, accepted, main, out, window, capture, scan>>
      /\ stdin' = stdin \o <<first, enter>> /\ shown' = "typed" /\ shown \in Prompts
  BY DEF UserTypes, Plain, Preset
<1>1. "typed" \notin Prompts
  BY DEF Prompts, Secrets, Logins, Sus
<1>2. Shown
  BY <1>0 DEF Untaken, Ahead, Turns, Turn, Printing, Entered, Half, Struck
<1>3. first.part = "first" /\ enter.part = "enter"
  BY DEF Key
<1> HIDE DEF first, enter
<1>4. stdin \in Seq(Press) /\ Len(stdin) \in Nat
  BY DEF PtyTypeOK, MainTypeOK
<1>5. CASE stdin = <<>>
  <2>1. stdin' = <<first, enter>>
    BY <1>0, <1>5
  <2>2. Len(stdin') = 2 /\ stdin'[1] = first /\ stdin'[2] = enter
    BY <2>1
  <2>3. Entered'
    BY <1>0, <1>1, <1>2, <1>3, <2>2 DEF Entered, Shown, AtPrompt, Then
  <2> QED BY <2>3 DEF Turn
<1>6. CASE stdin # <<>>
  <2>1. stdin' # <<>> /\ stdin'[1] = stdin[1]
    <3> DEFINE two == <<first, enter>>
    <3>1. stdin' = stdin \o two /\ Len(two) = 2 /\ two \in Seq({first, enter})
      BY <1>0
    <3> HIDE DEF two
    <3>2. stdin \in Seq(Press \cup {first, enter}) /\ two \in Seq(Press \cup {first, enter})
      BY <1>4, <3>1
    <3> QED BY <1>4, <1>6, <3>1, <3>2
  <2>2. stdin[1].part = "int"
    BY <1>2, <1>4, <1>6 DEF Shown, Then
  <2>3. Struck'
    BY <1>0, <1>1, <1>2, <2>1, <2>2 DEF Struck, Shown, AtPrompt
  <2> QED BY <2>3 DEF Turn
<1> QED BY <1>5, <1>6

\* A key goes to the program and to what is captured of the answer.
LEMMA ForwardTurns ==
  ASSUME RunAssumption, PtyAssumption, PtyTypeOK, PtyTypeOK', LoginLast(run), Plain, Unarmed,
         Turns, Taken, MainForward
  PROVE  Turns'
<1> SUFFICES ASSUME Untaken' PROVE Turn'
  BY DEF Turns
<1> DEFINE press == stdin[1]
<1>0. /\ stdin \in Seq(Press) /\ stdin # <<>> /\ press = Head(stdin) /\ press \in Press
      /\ stdin' = Tail(stdin) /\ capture' = Captured(press) /\ main = "loop" /\ run' = run
      /\ UNCHANGED <<shown, window, scan>> /\ Len(stdin) \in Nat
  <2>1. stdin \in Seq(Press) /\ stdin # <<>>
    BY DEF PtyTypeOK, MainTypeOK, MainForward
  <2>2. press = Head(stdin) /\ press \in Press /\ Len(stdin) \in Nat
    BY <2>1
  <2> QED BY <2>1, <2>2 DEF MainForward
<1>1. Len(stdin') = Len(stdin) - 1 /\ \A i \in 1..(Len(stdin) - 1) : stdin'[i] = stdin[i + 1]
  BY <1>0
<1> HIDE DEF press
<1>2. Untaken /\ Ask \notin Sus /\ (Ask # "login" => ~LastLogin)
  <2>1. Ahead
    <3>1. \A i \in peer'.at..Len(run.asks) : i \in peer.at..Len(run.asks)
      BY PeerGrows DEF PtyNext, Main
    <3> QED BY <1>0, <3>1 DEF Untaken, Ahead
  <2>2. accepted = Nil
    BY <2>1, BeforeLogin DEF Taken, Plain
  <2>3. peer.st \in {"busy", "asking"}
    <3>1. peer \in Peers
      BY DEF PtyTypeOK, PeerTypeOK
    <3>2. ASSUME peer.st \notin {"busy", "asking"} PROVE peer' = peer
      BY <1>0, <3>2 DEF MainForward, Answer, InterruptPeer, peerVars, Press
    <3> QED BY <3>2 DEF Untaken
  <2> QED BY <1>0, <2>1, <2>2, <2>3, BeforeLogin DEF Untaken, Plain
<1>3. press.part # "int"
  <2>1. press.part = "int" => InterruptPeer
    BY <1>0 DEF MainForward
  <2>2. InterruptPeer => peer'.st = "gone"
    <3>1. peer \in Peers
      BY DEF PtyTypeOK, PeerTypeOK
    <3> QED BY <1>2, <3>1 DEF InterruptPeer, Untaken, Peers
  <2> QED BY <2>1, <2>2 DEF Untaken
<1>4. (Entered /\ press.part = "first") \/ (Half /\ press.part = "enter")
  <2>1. Len(stdin) > 0 /\ (Then(0) => press.part = "int")
    BY <1>0 DEF Then, press
  <2> QED BY <1>2, <1>3, <2>1 DEF Turns, Turn, Printing, Shown, Entered, Half, Struck, press
<1>5. AtPrompt /\ shown \notin Prompts
  BY <1>4 DEF Entered, Half
<1>6. CASE Entered /\ press.part = "first"
  <2>1. peer' = [peer EXCEPT !.line = Append(@, press)] /\ UNCHANGED <<out, accepted>>
    BY <1>0, <1>5, <1>6 DEF MainForward, AtPrompt
  <2>2. peer'.st = "asking" /\ peer'.line = Append(peer.line, press)
    <3>1. peer \in Peers
      BY DEF PtyTypeOK, PeerTypeOK
    <3> QED BY <1>5, <2>1, <3>1 DEF AtPrompt, Peers
  <2>3. capture' = [on |-> TRUE, text |-> Append(capture.text, press)]
    BY <1>0, <1>5, <1>6 DEF Captured, AsChar, Plain, AtPrompt
  <2>4. stdin' # <<>> /\ stdin'[1].part = "enter" /\ Then(1)'
    <3>1. Len(stdin) >= 2 /\ stdin[2].part = "enter" /\ Then(2)
      BY <1>6 DEF Entered
    <3>2. stdin'[1] = stdin[2] /\ Len(stdin') >= 1 /\ stdin' # <<>>
      BY <1>0, <1>1, <3>1
    <3>3. Len(stdin') > 1 => Len(stdin) > 2 /\ stdin'[2] = stdin[3]
      BY <1>0, <1>1
    <3> QED BY <3>1, <3>2, <3>3 DEF Then
  <2>5. Half'
    BY <1>0, <1>5, <2>1, <2>2, <2>3, <2>4 DEF Half, AtPrompt
  <2> QED BY <2>5 DEF Turn
<1>7. CASE Half /\ press.part = "enter"
  <2>1. PICK ok : Answer(Append(peer.line, press), ok)
    BY <1>0, <1>7 DEF MainForward
  <2>2. ~capture'.on
    BY <1>0, <1>5, <1>7 DEF Captured, Plain, AtPrompt
  <2>3. Then(0)'
    <3>1. Len(stdin') > 0 => Len(stdin) > 1 /\ stdin'[1] = stdin[2]
      BY <1>0, <1>1
    <3> QED BY <1>7, <3>1 DEF Half, Then
  <2>4. \A i \in DOMAIN window' : FALSE
    BY <1>0, <1>5 DEF AtPrompt
  <2>5. CASE Right(Append(peer.line, press))
    <3>1. Ask # "login"
      <4>1. Ask = "login" => \A i \in (peer.at + 1)..Len(run.asks) : run.asks[i] \in Sus
        BY <1>5, BeforeLogin DEF Plain, AtPrompt
      <4>2. peer'.at = peer.at + 1
        BY <2>5 DEF Right, NextAsk
      <4> QED BY <1>0, <4>1, <4>2 DEF Untaken, Ahead, Sus
    <3>2. out' = <<>>
      BY <1>2, <1>5, <2>5, <3>1 DEF Right, Greeting, AtPrompt
    <3>3. peer'.line = <<>>
      BY <2>5 DEF Right, NextAsk
    <3>4. Printing'
      BY <1>0, <1>5, <2>2, <2>3, <2>4, <3>2, <3>3 DEF Printing
    <3> QED BY <3>4 DEF Turn
  <2>6. CASE Wrong
    <3>1. peer' = [peer EXCEPT !.tries = @ + 1, !.line = <<>>] /\ out' = out \o Again
      <4>1. \/ peer' = [peer EXCEPT !.tries = @ + 1, !.line = <<>>] /\ out' = out \o Again
            \/ peer' = [peer EXCEPT !.st = "gone", !.line = <<>>]
        BY <1>2, <2>6 DEF Wrong
      <4>2. peer \in Peers
        BY DEF PtyTypeOK, PeerTypeOK
      <4> QED BY <4>1, <4>2 DEF Untaken, Peers
    <3>2. peer'.st = "asking" /\ peer'.line = <<>>
      <4>1. peer \in Peers
        BY DEF PtyTypeOK, PeerTypeOK
      <4> QED BY <1>5, <3>1, <4>1 DEF AtPrompt, Peers
    <3>3. Again \in Seq(Tokens) /\ out' = Again
      BY <1>5, <3>1, Texts DEF PtyTypeOK, AtPrompt
    <3>4. "sorry" \notin Prompts /\ "denied" \notin Prompts
      BY DEF Prompts, Secrets, Logins, Sus
    <3>5. \A i \in DOMAIN Again : Again[i] \in Prompts => i = Len(Again)
      BY <3>4 DEF Again
    <3>6. Printing'
      BY <1>0, <1>5, <2>2, <2>3, <2>4, <3>2, <3>3, <3>5 DEF Printing
    <3> QED BY <3>6 DEF Turn
  <2> QED BY <1>5, <2>1, <2>5, <2>6 DEF Answer, AtPrompt
<1> QED BY <1>4, <1>6, <1>7

LEMMA TurnsStep ==
  ASSUME RunAssumption, PtyAssumption, PtyTypeOK, PtyTypeOK', LoginLast(run), Plain, Unarmed,
         PostLate, Turns, Taken, [PtyNext]_ptyVars
  PROVE  Turns'
<1>0. ~Preset /\ run' = run
  BY HandOnce DEF Plain, Preset
<1>1. CASE PeerAsks
  BY <1>1, AskTurns
<1>2. CASE PeerExits
  <2>1. peer \in Peers
    BY DEF PtyTypeOK, PeerTypeOK
  <2>2. peer'.st = "gone"
    BY <1>2, <2>1 DEF PeerExits, Peers
  <2> QED BY <2>2 DEF Turns, Untaken
<1>3. CASE Scanner
  <2>1. CASE ScanReady \/ ScanEnds
    BY <1>0, <2>1, TurnsSame DEF ScanReady, ScanEnds
  <2>2. ~ScanRescan
    BY <1>0 DEF ScanRescan, Unarmed
  <2> QED BY <1>3, <2>1, <2>2, ReadTurns, ArmTurns DEF Scanner, Plain
<1>4. CASE Injector
  <2>1. InjEnd
    BY <1>0, <1>4 DEF Unarmed, Injector, InjStart, InjSpawn, InjType, InjFail, InjNonblock,
                      InjDrain, InjBlocking, InjRecord, InjOpen
  <2> QED BY <1>0, <2>1, TurnsSame DEF InjEnd
<1>5. CASE User
  <2>1. CASE UserInterrupts
    <3>1. stdin' = Append(stdin, Key("int"))
      BY <1>0, <2>1 DEF UserInterrupts
    <3>2. Key("int") \in Press /\ Key("int").part = "int"
      BY DEF Key, Press, PtyTypeOK, MainTypeOK
    <3> QED BY <1>0, <2>1, <3>1, <3>2, TurnsSame DEF UserInterrupts
  <2>2. ~PipeWrites
    BY DEF PipeWrites, Plain
  <2> QED BY <1>5, <2>1, <2>2, TypesTurns DEF User
<1>6. CASE Main
  <2>1. CASE MainSigint
    BY <1>0, <2>1 DEF MainSigint, Unarmed
  <2>2. CASE MainKill \/ MainDown
    BY <2>2 DEF MainKill, MainDown, Turns, Untaken
  <2>3. CASE MainOpen \/ MainEnds \/ MainExit \/ MainGraceOver \/ MainJoin \/ ExecSaves
    BY <1>0, <2>3, TurnsSame DEF MainOpen, MainEnds, MainExit, MainGraceOver, MainJoin, ExecSaves
  <2> QED BY <1>6, <2>1, <2>2, <2>3, ForwardTurns DEF Main
<1>7. CASE Tick \/ UNCHANGED ptyVars
  BY <1>0, <1>7, TurnsSame DEF Tick, ptyVars
<1> QED BY <1>1, <1>2, <1>3, <1>4, <1>5, <1>6, <1>7 DEF PtyNext, RunOver

SavedInv == /\ PtyTypeOK /\ BannerLate /\ Unarmed /\ PostLate /\ SavedLast
            /\ Plain => Turns /\ Taken

LEMMA SavedInit ==
  ASSUME RunAssumption, PtyAssumption, PtyInit
  PROVE  SavedInv
<1>1. PtyTypeOK /\ BannerLate
  BY SecretInit DEF SecretInv
<1>2. Unarmed /\ PostLate /\ SavedLast /\ Taken
  BY DEF PtyInit, Unarmed, PostLate, SavedLast, Taken
<1>3. Plain => Turns
  <2>1. /\ window = <<>> /\ stdin = <<>> /\ ~capture.on /\ shown = "nothing" /\ peer.line = <<>>
        /\ (Plain => out = <<>>)
    BY DEF PtyInit, Plain
  <2>2. "nothing" \notin Prompts
    BY DEF Prompts, Secrets, Logins, Sus
  <2>3. Plain => Printing
    BY <2>1, <2>2 DEF Printing, Then
  <2> QED BY <2>3 DEF Turns, Turn
<1> QED BY <1>1, <1>2, <1>3 DEF SavedInv

LEMMA SavedStep ==
  ASSUME RunAssumption, PtyAssumption, LoginLast(run), SavedInv, [PtyNext]_ptyVars
  PROVE  SavedInv'
<1>0. PtyTypeOK /\ BannerLate /\ Unarmed /\ PostLate /\ SavedLast /\ (Plain => Turns /\ Taken)
  BY DEF SavedInv
<1>1. PtyTypeOK' /\ BannerLate' /\ Unarmed' /\ PostLate' /\ SavedLast'
  BY <1>0, PtyTypeStep, BannerStep, UnarmedStep, PostLateStep, SavedLastStep
<1>2. Plain' = Plain
  BY HandOnce DEF Plain
<1>3. Plain => Turns' /\ Taken'
  BY <1>0, <1>1, TurnsStep, TakenStep
<1> QED BY <1>1, <1>2, <1>3 DEF SavedInv

\* In runs that ask for one login's password, the password that is saved after
\* that login is the line it took (pending_capture, captured and exec_fresh).
THEOREM SavedLine ==
  ASSUME \A r \in Runs : LoginLast(r) PROVE PtySpec => []SavedIsAccepted
<1>1. PtyInit => SavedInv
  BY PtyAssumption, RunAssumption, SavedInit
<1>2. SavedInv /\ [PtyNext]_ptyVars => SavedInv'
  <2>1. SavedInv => run \in Runs
    BY DEF SavedInv, PtyTypeOK, PeerTypeOK
  <2> QED BY <2>1, PtyAssumption, RunAssumption, SavedStep
<1>3. SavedInv => SavedIsAccepted
  BY DEF SavedInv, SavedLast, PostLate, Plain, Preset, SavedIsAccepted
<1> QED BY <1>1, <1>2, <1>3, PTL DEF PtySpec

-----------------------------------------------------------------------------
\* What is overlooked

\* Something is under way after which the scanner looks at the window again, or
\* an injection has failed.
Attended == \/ rescan \/ pend.inj \/ "failed" \in served
            \/ inj.pc \in {"settle", "child", "typed", "drain", "record", "open"}

Noticed ==
  /\ Preset => ~capture.on
  /\ inj.pc \in {"typed", "drain"} => inj.ok \/ "failed" \in served
  /\ scan = "poll" /\ Preset /\ PromptAtEnd(window) /\ Answerable(window) => Attended

\* What the scanner makes of a prompt is in its text, the run and the records.
LEMMA SameAnswer ==
  ASSUME run' = run, recorded' = recorded, window' = window
  PROVE  Answerable(window)' = Answerable(window)
BY DEF Answerable, ArmsInjection, FieldForPrompt, ShouldArm, ArmsOuter, ArmsHere, ElevationDue,
       AuthFailed, IsElevation, IsSshLogin, IsInnerHop, Already, LoginDone, SecondHop, MayRepeat,
       HasField, FieldsOf, Outer, Dual, Has

\* What the scanner does not arm at, it would not arm at now.
LEMMA ArmNotices ==
  ASSUME Preset, ~capture.on, run' = run, recorded' = recorded, Arm(window)
  PROVE  /\ capture' = capture
         /\ pend.inj => pend'.inj
         /\ PromptAtEnd(window)' /\ Answerable(window)' => pend.inj
<1> DEFINE bare == run.fields = <<>> /\ Last(window) # "yesno"
           full == run.fields # <<>> /\ ArmsInjection(window)
           arms == PromptAtEnd(window) /\ ~pend.inj
<1>1. ~AfterLogin
  BY DEF AfterLogin
<1>2. Answerable(window) <=> bare \/ full
  BY DEF Answerable
<1>3. /\ capture' = capture
      /\ window' = IF arms /\ (bare \/ full) THEN <<>> ELSE window
      /\ pend.inj => pend' = pend
  BY <1>1 DEF Arm
<1>4. CASE arms /\ (bare \/ full)
  BY <1>3, <1>4 DEF PromptAtEnd
<1>5. CASE ~(arms /\ (bare \/ full))
  <2>1. window' = window
    BY <1>3, <1>5
  <2>2. PromptAtEnd(window)' = PromptAtEnd(window)
    BY <2>1 DEF PromptAtEnd
  <2>3. Answerable(window)' = Answerable(window)
    BY <2>1, SameAnswer
  <2> QED BY <1>2, <1>3, <1>5, <2>2, <2>3
<1> QED BY <1>4, <1>5

LEMMA NoticedStep ==
  ASSUME PtyTypeOK, Noticed, [PtyNext]_ptyVars
  PROVE  Noticed'
<1>1. run' = run /\ Preset' = Preset
  BY HandOnce DEF Preset
<1>2. ASSUME UNCHANGED <<window, recorded>>, ~capture'.on \/ ~Preset,
             scan' = "poll" => scan = "poll", Attended => Attended',
             inj'.pc \in {"typed", "drain"} => inj'.ok \/ "failed" \in served'
      PROVE  Noticed'
  <2>1. Answerable(window)' = Answerable(window) /\ PromptAtEnd(window)' = PromptAtEnd(window)
    BY <1>1, <1>2, SameAnswer DEF PromptAtEnd
  <2> QED BY <1>1, <1>2, <2>1 DEF Noticed
<1>3. Preset => ~capture.on
  BY DEF Noticed
<1>4. inj.pc \in {"typed", "drain"} => inj.ok \/ "failed" \in served
  BY DEF Noticed
<1>5. CASE Scanner
  <2>0. UNCHANGED <<inj, served>> /\ (ScanRescan \/ rescan' = rescan)
    BY <1>5 DEF Scanner, ScanRescan, ScanReady, ScanRead, ScanArm, ScanEnds, injVars, histVars
  <2>1. CASE ScanReady \/ ScanEnds
    <3>1. UNCHANGED <<window, recorded, capture, pend, rescan>> /\ scan' # "poll"
      BY <2>1 DEF ScanReady, ScanEnds, injVars
    <3> QED BY <1>2, <1>3, <1>4, <2>0, <3>1 DEF Attended
  <2>2. CASE ScanRead
    <3>1. Preset => scan' # "poll"
      BY <2>2 DEF ScanRead, Scans
    <3>2. capture' = capture
      BY <2>2 DEF ScanRead
    <3> QED BY <1>1, <1>3, <1>4, <2>0, <3>1, <3>2 DEF Noticed
  <2>3. CASE ScanRescan \/ ScanArm
    <3>1. Arm(window) /\ recorded' = recorded
      BY <2>3 DEF ScanRescan, ScanArm
    <3>2. CASE ~Preset
      BY <1>1, <1>4, <2>0, <3>2 DEF Noticed
    <3>3. CASE Preset
      <4>1. /\ capture' = capture /\ (pend.inj => pend'.inj)
            /\ PromptAtEnd(window)' /\ Answerable(window)' => pend.inj
        BY <1>1, <1>3, <3>1, <3>3, ArmNotices
      <4> QED BY <1>1, <1>3, <1>4, <2>0, <4>1 DEF Noticed, Attended
    <3> QED BY <3>2, <3>3
  <2> QED BY <1>5, <2>1, <2>2, <2>3 DEF Scanner
<1>6. CASE Injector
  <2>1. UNCHANGED <<scan, window, capture>>
    BY <1>6 DEF Injector, InjStart, InjSpawn, InjType, InjFail, InjNonblock, InjDrain, InjBlocking,
                InjRecord, InjOpen, InjEnd, scanVars
  <2>2. ASSUME recorded' = recorded, Attended => Attended',
               inj'.pc \in {"typed", "drain"} => inj'.ok \/ "failed" \in served'
        PROVE  Noticed'
    BY <1>2, <1>3, <2>1, <2>2
  <2>3. inj \in InjectorStates /\ pend \in Pending
    BY DEF PtyTypeOK, InjTypeOK
  <2>4. CASE InjStart
    <3>1. /\ recorded' = recorded /\ inj' = [inj EXCEPT !.pc = "settle", !.elev = pend.elev]
      BY <2>4 DEF InjStart
    <3>2. inj'.pc = "settle"
      BY <2>3, <3>1 DEF InjectorStates
    <3> QED BY <2>2, <3>1, <3>2 DEF Attended
  <2>5. CASE InjSpawn
    <3>1. /\ recorded' = recorded
          /\ inj' = [inj EXCEPT !.pc = "child", !.field = inj'.field, !.rid = inj'.rid]
      BY <2>3, <2>5 DEF InjSpawn, InjectorStates
    <3>2. inj'.pc = "child"
      BY <2>3, <3>1 DEF InjectorStates
    <3> QED BY <2>2, <3>1, <3>2 DEF Attended
  <2>6. CASE InjType
    <3>1. recorded' = recorded /\ inj' = [inj EXCEPT !.pc = "typed", !.ok = TRUE]
      BY <2>6 DEF InjType
    <3>2. inj'.pc = "typed" /\ inj'.ok
      BY <2>3, <3>1 DEF InjectorStates
    <3> QED BY <2>2, <3>1, <3>2 DEF Attended
  <2>7. CASE InjFail
    <3>1. recorded' = recorded /\ "failed" \in served'
      BY <2>7 DEF InjFail
    <3> QED BY <2>2, <3>1 DEF Attended
  <2>8. CASE InjNonblock
    <3>1. /\ UNCHANGED <<recorded, served>> /\ inj.pc = "typed"
          /\ inj' = [inj EXCEPT !.pc = "drain"]
      BY <2>8 DEF InjNonblock, histVars
    <3>2. inj'.pc = "drain" /\ inj'.ok = inj.ok
      BY <2>3, <3>1 DEF InjectorStates
    <3> QED BY <1>4, <2>2, <3>1, <3>2 DEF Attended
  <2>9. CASE InjDrain
    <3>1. UNCHANGED <<recorded, served, pend, inj, rescan>>
      BY <2>9 DEF InjDrain, injVars
    <3> QED BY <1>4, <2>2, <3>1 DEF Attended
  <2>10. CASE InjBlocking
    <3>1. /\ UNCHANGED <<recorded, served, pend, rescan>> /\ inj.pc = "drain"
          /\ inj' = [inj EXCEPT !.pc = IF inj.ok THEN "record" ELSE "idle"]
      BY <2>10 DEF InjBlocking
    <3>2. inj'.pc = IF inj.ok THEN "record" ELSE "idle"
      BY <2>3, <3>1 DEF InjectorStates
    <3> QED BY <1>4, <2>2, <3>1, <3>2 DEF Attended
  <2>11. CASE InjRecord
    <3>1. /\ inj' = [inj EXCEPT !.pc = "open"]
      BY <2>11 DEF InjRecord
    <3>2. inj'.pc = "open"
      BY <2>3, <3>1 DEF InjectorStates
    <3> QED BY <1>1, <1>3, <2>1, <3>2 DEF Noticed, Attended
  <2>12. CASE InjOpen
    <3>1. /\ recorded' = recorded /\ rescan' /\ inj' = [inj EXCEPT !.pc = "idle"]
      BY <2>12 DEF InjOpen
    <3>2. inj'.pc = "idle"
      BY <2>3, <3>1 DEF InjectorStates
    <3> QED BY <2>2, <3>1, <3>2 DEF Attended
  <2>13. CASE InjEnd
    <3>1. /\ UNCHANGED <<recorded, served, pend, rescan>> /\ inj.pc = "idle"
          /\ inj' = [inj EXCEPT !.pc = "ended"]
      BY <2>13 DEF InjEnd, histVars
    <3>2. inj'.pc = "ended"
      BY <2>3, <3>1 DEF InjectorStates
    <3> QED BY <2>2, <3>1, <3>2 DEF Attended
  <2> QED BY <1>6, <2>4, <2>5, <2>6, <2>7, <2>8, <2>9, <2>10, <2>11, <2>12, <2>13 DEF Injector
<1>7. CASE User \/ Tick \/ Main \/ PeerAsks \/ PeerExits \/ UNCHANGED ptyVars
  <2>1. UNCHANGED <<scan, window, pend, inj, recorded, rescan, served>>
    <3>1. User \/ Tick \/ PeerAsks \/ PeerExits \/ UNCHANGED ptyVars
            => UNCHANGED <<scan, window, pend, inj, recorded, rescan, served>>
      BY DEF User, UserTypes, UserInterrupts, PipeWrites, Tick, PeerAsks, PeerExits, ptyVars,
             scanVars, injVars, histVars
    <3>2. Main => UNCHANGED <<scan, window, pend, inj, recorded, rescan, served>>
      BY DEF Main, MainForward, MainSigint, MainOpen, MainEnds, MainExit, MainGraceOver, MainDown,
             MainKill, MainJoin, ExecSaves, scanVars, injVars, histVars
    <3> QED BY <1>7, <3>1, <3>2
  <2>2. ~capture.on => capture' = capture
    <3>1. User \/ Tick \/ PeerAsks \/ PeerExits \/ UNCHANGED ptyVars => capture' = capture
      BY DEF User, UserTypes, UserInterrupts, PipeWrites, Tick, PeerAsks, PeerExits, ptyVars
    <3>2. Main /\ ~capture.on => capture' = capture
      BY DEF Main, MainForward, MainSigint, MainOpen, MainEnds, MainExit, MainGraceOver, MainDown,
             MainKill, MainJoin, ExecSaves, Captured
    <3> QED BY <1>7, <3>1, <3>2
  <2> QED BY <1>2, <1>3, <1>4, <2>1, <2>2 DEF Attended
<1> QED BY <1>5, <1>6, <1>7 DEF PtyNext, RunOver

\* No prompt is overlooked: one that arm_prompt_if_needed refused while an
\* injection was under way is looked at again after it (rescan_after_inject).
THEOREM PromptsNoticed == PtySpec => []NoneOverlooked
<1>1. PtyInit => Noticed
  BY DEF PtyInit, Noticed, PromptAtEnd
<1>2. PtyTypeOK /\ Noticed /\ [PtyNext]_ptyVars => Noticed'
  BY NoticedStep
<1>3. Noticed => NoneOverlooked
  BY DEF Noticed, Attended, NoneOverlooked, AtRest
<1> QED BY <1>1, <1>2, <1>3, PtyTypeCorrect, PTL DEF PtySpec

-----------------------------------------------------------------------------
\* What is served

\* What InHand asks of a run for any of its prompts.
NoKeyQuestion == Contains(run.asks, "yesno") => Len(run.fields) > 1
LateBanner == Outer => ~run.preBanner

Flies(f) == InFlight /\ inj.field = f
LoginFlies == Flies("password") /\ ~inj.elev

\* What is asked for is sought by a prompt for a secret, a password by one for it.
Sought ==
  Asked /\ peer.st = "asking" /\ NoKeyQuestion =>
    /\ Ask # "yesno"
    /\ AskedField = "password" /\ HasField(AskedRid, "password") => Ask \in Logins \cup Sus

\* A prompt is served when the program has come to it.
Reached ==
  \A q \in served \ {"failed"} : \E i \in 1..peer.at : i <= Len(run.asks) /\ run.asks[i] = q

\* What the injector has recorded was typed at a prompt it serves.
KeyServed ==
  NoKeyQuestion /\ ("key_passphrase" \in recorded.fields \/ Flies("key_passphrase"))
    => served \cap Secrets # {}

LoginServed ==
  /\ NoKeyQuestion /\ LateBanner
  /\ "password" \in recorded.fields \/ (recorded.login /\ ~SusLeft) \/ Flies("password")
  => served \cap (Logins \cup Sus) # {}

SusServed == recorded.elev # 0 \/ (InFlight /\ inj.elev) => served \cap Sus # {}

InnerServed ==
  Dual /\ TellsHops /\ (recorded.inner \/ (recorded.login /\ LoginFlies))
    => SusLeft \/ served \cap ({"inner"} \cup Sus) # {}

\* And what a route has behind it was recorded.
HopsDone ==
  Dual =>
    /\ Passed("login") => /\ run.good /\ HasField("outer", "password")
                          /\ recorded.login \/ LoginFlies
    /\ TellsHops /\ Passed("inner") /\ Contains(run.asks, "login")
         => recorded.inner \/ (recorded.login /\ LoginFlies)

Tracked == /\ Sought /\ Reached /\ KeyServed /\ LoginServed /\ SusServed /\ InnerServed /\ HopsDone

\* A prompt for what comes later in a login has not been reached before it.
LEMMA Once ==
  ASSUME RunAssumption, run \in Runs, OneEach(run),
         NEW i \in 1..Len(run.asks), NEW j \in 1..Len(run.asks), i < j
  PROVE  /\ run.asks[j] \in Sus => run.asks[i] \notin Sus
         /\ run.asks[j] = "inner" => run.asks[i] \notin {"inner"} \cup Sus
         /\ run.asks[j] = "login" => run.asks[i] \notin Logins \cup Sus
         /\ run.asks[j] = "key" => run.asks[i] \notin Secrets
<1>1. Place(run.asks[i]) < Place(run.asks[j])
  BY DEF OneEach
<1>2. /\ Place("yesno") = 1 /\ Place("key") = 2 /\ Place("login") = 3 /\ Place("inner") = 4
      /\ Place("sudo") = 5 /\ Place("su") = 5
  BY DEF Place
<1> QED BY <1>1, <1>2 DEF Secrets, Logins, Sus

\* A step leaves the run, and the program goes on one prompt at most: without the
\* injector and without a hand on a secret only past a question.
LEMMA Onward ==
  ASSUME RunAssumption, PtyTypeOK, [PtyNext]_ptyVars, ~InjType, ~byHand'
  PROVE  /\ peer'.at = peer.at \/ (peer'.at = peer.at + 1 /\ peer.st = "asking" /\ Ask = "yesno")
         /\ peer'.st = "asking" => peer.st \in {"busy", "asking"}
<1> DEFINE Goal == /\ \/ peer'.at = peer.at
                      \/ peer'.at = peer.at + 1 /\ peer.st = "asking" /\ Ask = "yesno"
                   /\ peer'.st = "asking" => peer.st \in {"busy", "asking"}
<1>0. peer \in Peers
  BY DEF PtyTypeOK, PeerTypeOK
<1>1. peer' = peer => Goal
  OBVIOUS
<1>2. \A line, ok : ~AsksSecret /\ Answer(line, ok) => Goal
  <2>1. SUFFICES ASSUME NEW line, NEW ok, ~AsksSecret, Answer(line, ok) PROVE Goal
    OBVIOUS
  <2>2. CASE peer.st # "asking"
    BY <1>1, <2>1, <2>2 DEF Answer, peerVars
  <2>3. CASE peer.st = "asking"
    <3>1. Ask = "yesno" /\ (Right(line) \/ Wrong)
      BY <2>1, <2>3 DEF Answer, AsksSecret
    <3>2. \/ peer' = NextAsk
          \/ peer' = [peer EXCEPT !.tries = @ + 1, !.line = <<>>]
          \/ peer' = [peer EXCEPT !.st = "gone", !.line = <<>>]
      BY <3>1 DEF Right, Wrong
    <3>3. peer'.at = peer.at \/ peer'.at = peer.at + 1
      <4>1. CASE peer' = NextAsk
        BY <4>1 DEF NextAsk
      <4>2. CASE peer' # NextAsk
        BY <1>0, <3>2, <4>2 DEF Peers
      <4> QED BY <4>1, <4>2
    <3> QED BY <2>3, <3>1, <3>3
  <2> QED BY <2>2, <2>3
<1>3. ~AsksSecret /\ InterruptPeer => Goal
  <2>1. "yesno" \notin Sus
    BY DEF Sus
  <2> QED BY <1>0, <2>1 DEF InterruptPeer, AsksSecret, Peers
<1> HIDE DEF Goal
<1>4. PeerAsks \/ PeerExits => Goal
  BY <1>0 DEF PeerAsks, PeerExits, Goal, Peers
<1>5. Scanner \/ User \/ Tick => Goal
  BY <1>1 DEF Scanner, ScanRescan, ScanReady, ScanRead, ScanArm, ScanEnds, User, UserTypes,
              UserInterrupts, PipeWrites, Tick, peerVars
<1>6. Injector => Goal
  BY <1>1 DEF Injector, InjStart, InjSpawn, InjFail, InjNonblock, InjDrain, InjBlocking, InjRecord,
              InjOpen, InjEnd, peerVars
<1>7. Main => Goal
  <2>0. MainForward \/ MainSigint => ~AsksSecret
    BY DEF MainForward, MainSigint, Touch, Touched
  <2>1. CASE MainForward
    <3> DEFINE press == Head(stdin)
    <3>1. CASE press.part = "first"
      <4>1. peer' = peer \/ peer' = [peer EXCEPT !.line = Append(@, press)]
        BY <2>1, <3>1 DEF MainForward
      <4> QED BY <1>0, <4>1 DEF Goal, Peers
    <3>2. CASE press.part = "enter"
      <4>1. \E ok : Answer(Append(peer.line, press), ok)
        BY <2>1, <3>2 DEF MainForward
      <4> QED BY <1>2, <2>0, <2>1, <4>1
    <3>3. CASE press.part = "int"
      BY <1>3, <2>0, <2>1, <3>3 DEF MainForward
    <3>4. CASE press.part = "eof"
      BY <1>1, <2>1, <3>4 DEF MainForward, peerVars
    <3>5. press.part \in {"first", "enter", "int", "eof"}
      <4>1. stdin \in Seq(Press) /\ stdin # <<>>
        BY <2>1 DEF PtyTypeOK, MainTypeOK, MainForward
      <4>2. press \in Press
        BY <4>1
      <4> QED BY <4>2 DEF Press
    <3> QED BY <3>1, <3>2, <3>3, <3>4, <3>5
  <2>2. CASE MainSigint
    BY <1>3, <2>0, <2>2 DEF MainSigint
  <2>3. MainKill => Goal
    BY <1>0 DEF MainKill, Goal, Peers
  <2>4. MainOpen \/ MainEnds \/ MainExit \/ MainGraceOver \/ MainDown \/ MainJoin \/ ExecSaves
          => Goal
    BY <1>1 DEF MainOpen, MainEnds, MainExit, MainGraceOver, MainDown, MainJoin, ExecSaves, peerVars
  <2> QED BY <2>1, <2>2, <2>3, <2>4 DEF Main
<1>8. UNCHANGED ptyVars => Goal
  BY <1>1 DEF ptyVars, peerVars
<1> QED BY <1>4, <1>5, <1>6, <1>7, <1>8 DEF PtyNext, RunOver, Goal


\* What the other steps leave of the injector and of its records: the banner of
\* the last login on a route counts as a login.
Quiet ==
  /\ served \subseteq served' /\ served' \subseteq served \cup {"failed"}
  /\ recorded'.fields = recorded.fields /\ recorded'.elev = recorded.elev
  /\ recorded'.inner = recorded.inner
  /\ recorded'.login => recorded.login \/ (Outer /\ (run.preBanner \/ SusLeft))
  /\ recorded.login => recorded'.login
  /\ InFlight' = InFlight /\ (InFlight => inj'.field = inj.field /\ inj'.elev = inj.elev)

LEMMA QuietStep ==
  ASSUME RunAssumption, PtyTypeOK, BannerLate, [PtyNext]_ptyVars, ~InjType, ~InjRecord
  PROVE  Quiet
<1>0. inj \in InjectorStates /\ recorded \in Records
  BY DEF PtyTypeOK, InjTypeOK
<1>1. ASSUME UNCHANGED <<recorded, inj, served>> PROVE Quiet
  BY <1>1 DEF Quiet, InFlight
<1>2. CASE ScanRead
  <2>1. UNCHANGED <<inj, served>> /\ (recorded' = recorded \/ (Outer /\ Has(window, {"banner"})'
                                        /\ recorded' = [recorded EXCEPT !.login = TRUE]))
    BY <1>2 DEF ScanRead, histVars, Has
  <2>2. ASSUME Has(window, {"banner"})' PROVE run.preBanner \/ SusLeft
    BY <1>2, <2>2, ReadBanner DEF BannerLate
  <2> QED BY <1>0, <1>1, <2>1, <2>2 DEF Quiet, InFlight, Records
<1>3. CASE Injector
  <2>0. recorded' = recorded
    BY <1>3 DEF Injector, InjStart, InjSpawn, InjFail, InjNonblock, InjDrain, InjBlocking, InjOpen,
                InjEnd, injVars
  <2>1. CASE InjStart \/ InjSpawn
    <3>1. served' = served /\ inj.pc \in {"idle", "settle"}
      BY <2>1 DEF InjStart, InjSpawn, histVars
    <3>2. inj'.pc \in {"settle", "child"}
      BY <1>0, <2>1 DEF InjStart, InjSpawn, InjectorStates
    <3> QED BY <2>0, <3>1, <3>2 DEF Quiet, InFlight
  <2>2. CASE InjFail
    <3>1. inj.pc = "child" /\ inj'.pc = "typed" /\ ~inj'.ok
          /\ served' = served \cup {"failed"}
      BY <1>0, <2>2 DEF InjFail
    <3> QED BY <2>0, <3>1 DEF Quiet, InFlight
  <2>3. CASE InjNonblock \/ InjBlocking
    <3>1. served' = served
      BY <2>3 DEF InjNonblock, InjBlocking, histVars
    <3>2. InFlight' = InFlight /\ inj'.field = inj.field /\ inj'.elev = inj.elev
      <4>1. CASE InjNonblock
        BY <1>0, <4>1 DEF InjNonblock, InFlight, InjectorStates
      <4>2. CASE InjBlocking
        BY <1>0, <4>2 DEF InjBlocking, InFlight, InjectorStates
      <4> QED BY <2>3, <4>1, <4>2
    <3> QED BY <2>0, <3>1, <3>2 DEF Quiet
  <2>4. CASE InjDrain \/ InjOpen \/ InjEnd
    <3>1. served' = served
      BY <2>4 DEF InjDrain, InjOpen, InjEnd, histVars
    <3>2. inj' = inj \/ (inj.pc \in {"open", "idle"} /\ inj'.pc \in {"idle", "ended"})
      BY <1>0, <2>4 DEF InjDrain, InjOpen, InjEnd, injVars, InjectorStates
    <3> QED BY <2>0, <3>1, <3>2 DEF Quiet, InFlight
  <2> QED BY <1>3, <2>1, <2>2, <2>3, <2>4 DEF Injector
<1>4. CASE Scanner /\ ~ScanRead
  BY <1>1, <1>4 DEF Scanner, ScanRescan, ScanReady, ScanArm, ScanEnds, injVars, histVars
<1>5. CASE User \/ Tick \/ PeerAsks \/ PeerExits \/ UNCHANGED ptyVars
  BY <1>1, <1>5 DEF User, UserTypes, UserInterrupts, PipeWrites, Tick, PeerAsks, PeerExits, ptyVars,
                    injVars, histVars
<1>6. CASE Main
  BY <1>1, <1>6 DEF Main, MainForward, MainSigint, MainOpen, MainEnds, MainExit, MainGraceOver,
                    MainDown, MainKill, MainJoin, ExecSaves, injVars, histVars
<1> QED BY <1>2, <1>3, <1>4, <1>5, <1>6 DEF PtyNext, RunOver

LEMMA QuietKeeps ==
  ASSUME RunAssumption, PtyTypeOK, Tracked, [PtyNext]_ptyVars, ~InjType, ~byHand', Quiet
  PROVE  /\ Reached' /\ KeyServed' /\ LoginServed' /\ SusServed' /\ InnerServed' /\ HopsDone'
<1>0. Reached /\ KeyServed /\ LoginServed /\ SusServed /\ InnerServed /\ HopsDone
  BY DEF Tracked
<1>1. /\ run' = run /\ (SusLeft => SusLeft')
      /\ Outer' = Outer /\ Dual' = Dual /\ NoKeyQuestion' = NoKeyQuestion
      /\ LateBanner' = LateBanner /\ (Dual => TellsHops' = TellsHops)
      /\ \A rid, f : HasField(rid, f)' = HasField(rid, f)
  <2>1. run' = run
    BY HandOnce
  <2> QED BY <2>1, SusStays, SameRun DEF Outer, NoKeyQuestion, LateBanner, TellsHops, Dual
<1>2. peer.at \in Nat /\ (peer'.at = peer.at \/ (peer'.at = peer.at + 1 /\ Ask = "yesno"))
  <2>1. peer \in Peers
    BY DEF PtyTypeOK, PeerTypeOK
  <2> QED BY <2>1, Onward DEF Peers
<1>3. /\ Passed("login")' => Passed("login")
      /\ Passed("inner")' => Passed("inner")
  BY <1>1, <1>2 DEF Passed, Ask
<1>4. \A S : "failed" \notin S => served' \cap S = served \cap S
  BY DEF Quiet
<1>5. /\ "failed" \notin Secrets /\ "failed" \notin Logins \cup Sus /\ "failed" \notin Sus
      /\ "failed" \notin {"inner"} \cup Sus
  BY DEF Secrets, Logins, Sus
<1>6. \A f : Flies(f)' = Flies(f) /\ (Flies(f) => inj'.elev = inj.elev)
  BY DEF Flies, Quiet
<1>7. LoginFlies' = LoginFlies
  BY <1>6 DEF LoginFlies
<1>8. Reached'
  BY <1>0, <1>1, <1>2 DEF Reached, Quiet
<1>9. KeyServed'
  BY <1>0, <1>1, <1>4, <1>5, <1>6 DEF KeyServed, Quiet
<1>10. LoginServed'
  <2>1. LateBanner /\ recorded'.login /\ ~SusLeft' => recorded.login /\ ~SusLeft
    BY <1>1 DEF Quiet, LateBanner
  <2> QED BY <1>0, <1>1, <1>4, <1>5, <1>6, <2>1 DEF LoginServed, Quiet
<1>11. SusServed'
  BY <1>0, <1>4, <1>5 DEF SusServed, Quiet
<1>12. InnerServed'
  <2>1. Dual /\ TellsHops /\ recorded'.login => recorded.login \/ SusLeft
    BY DEF Quiet, TellsHops
  <2> QED BY <1>0, <1>1, <1>4, <1>5, <1>7, <2>1 DEF InnerServed, Quiet
<1>13. HopsDone'
  BY <1>0, <1>1, <1>3, <1>7 DEF HopsDone, Quiet
<1> QED BY <1>8, <1>9, <1>10, <1>11, <1>12, <1>13

LEMMA RecordKeeps ==
  ASSUME RunAssumption, PtyTypeOK, Tracked, InjRecord
  PROVE  Reached' /\ KeyServed' /\ LoginServed' /\ SusServed' /\ InnerServed' /\ HopsDone'
<1>0. Reached /\ KeyServed /\ LoginServed /\ SusServed /\ InnerServed /\ HopsDone
  BY DEF Tracked
<1>1. /\ inj \in InjectorStates /\ recorded \in Records /\ inj.pc = "record"
      /\ inj.field \in FieldNames
  BY DEF PtyTypeOK, InjTypeOK, InjRecord, InjectorStates
<1>2. /\ UNCHANGED <<run, peer, served, clean>>
      /\ recorded'.fields = recorded.fields \cup {inj.field}
      /\ recorded'.elev # 0 => recorded.elev # 0 \/ inj.elev
      /\ recorded'.login <=> recorded.login \/ (~inj.elev /\ inj.field = "password")
      /\ recorded'.inner <=> recorded.inner \/ (/\ ~inj.elev /\ inj.field = "password"
                                                /\ recorded.login)
      /\ InFlight /\ ~InFlight'
  <2>1. UNCHANGED <<run, peer, served, clean>>
    BY DEF InjRecord, histVars, peerVars
  <2>2. inj' = [inj EXCEPT !.pc = "open"]
    BY DEF InjRecord
  <2>3. InFlight /\ ~InFlight'
    BY <1>1, <2>2 DEF InFlight, InjectorStates
  <2>4. inj.field # "key_passphrase" <=> inj.field = "password"
    BY <1>1 DEF FieldNames
  <2>5. /\ recorded.elev \in Nat /\ recorded.login \in BOOLEAN /\ recorded.inner \in BOOLEAN
        /\ inj.elev \in BOOLEAN
    BY <1>1 DEF Records, InjectorStates
  <2>6. /\ recorded'.fields = recorded.fields \cup {inj.field}
        /\ recorded'.elev # 0 => recorded.elev # 0 \/ inj.elev
        /\ recorded'.login <=> recorded.login \/ (~inj.elev /\ inj.field # "key_passphrase")
        /\ recorded'.inner <=> recorded.inner \/ (/\ ~inj.elev /\ inj.field # "key_passphrase"
                                                  /\ recorded.login)
    <3> DEFINE logs == ~inj.elev /\ inj.field # "key_passphrase"
               more == IF inj.elev THEN 1 ELSE 0
    <3>1. recorded' = [fields |-> recorded.fields \cup {inj.field}, elev |-> recorded.elev + more,
                       login |-> recorded.login \/ logs,
                       inner |-> recorded.inner \/ (logs /\ recorded.login)]
      BY Zenon DEF InjRecord
    <3>2. more \in Nat /\ (more # 0 => inj.elev)
      OBVIOUS
    <3>3. logs \in BOOLEAN
      OBVIOUS
    <3> HIDE DEF logs, more
    <3>4. /\ recorded'.fields = recorded.fields \cup {inj.field}
          /\ recorded'.elev = recorded.elev + more
          /\ recorded'.login <=> recorded.login \/ logs
          /\ recorded'.inner <=> recorded.inner \/ (logs /\ recorded.login)
      BY <2>5, <3>1, <3>3
    <3> QED BY <2>5, <3>2, <3>4 DEF logs
  <2> QED BY <2>1, <2>3, <2>4, <2>6
<1>3. /\ SusLeft' = SusLeft
      /\ Outer' = Outer /\ Dual' = Dual /\ NoKeyQuestion' = NoKeyQuestion
      /\ LateBanner' = LateBanner /\ TellsHops' = TellsHops
      /\ \A rid, f : HasField(rid, f)' = HasField(rid, f)
      /\ \A p : Passed(p)' = Passed(p)
  BY <1>2, SameRun DEF Outer, NoKeyQuestion, LateBanner, Passed, SusLeft
<1>4. /\ \A f : Flies(f) <=> inj.field = f
      /\ LoginFlies <=> inj.field = "password" /\ ~inj.elev
      /\ ~LoginFlies' /\ \A f : ~Flies(f)'
  BY <1>2 DEF Flies, LoginFlies
<1>5. Reached'
  BY <1>0, <1>2 DEF Reached
<1>6. KeyServed' /\ LoginServed'
  BY <1>0, <1>2, <1>3, <1>4 DEF KeyServed, LoginServed
<1>7. SusServed'
  BY <1>0, <1>2 DEF SusServed
<1>8. InnerServed'
  BY <1>0, <1>2, <1>3, <1>4 DEF InnerServed
<1>9. HopsDone'
  BY <1>0, <1>2, <1>3, <1>4 DEF HopsDone
<1> QED BY <1>5, <1>6, <1>7, <1>8, <1>9


\* The secret is typed: at a prompt that is served by it.
LEMMA TypeServes ==
  ASSUME RunAssumption, PtyAssumption, InOrder(run), OneEach(run), PtyTypeOK, HandInv, Preset,
         Tracked, [PtyNext]_ptyVars, InjType
  PROVE  Tracked'
<1>0. Sought /\ Reached /\ KeyServed /\ LoginServed /\ SusServed /\ InnerServed /\ HopsDone
  BY DEF Tracked
<1>1. /\ peer.st = "asking" /\ ~pend.inj
      /\ Dual /\ inj.field = "password" => Ask \in Logins \cup Sus
      /\ inj.field = "password" => HasField("outer", "password")
      /\ inj.elev => Ask \in Sus
      /\ inj.pc = "child" /\ inj' = [inj EXCEPT !.pc = "typed", !.ok = TRUE]
      /\ UNCHANGED <<run, pend, recorded, clean>>
      /\ IF run.good /\ inj.field = Wanted(Ask) /\ inj.rid = Owner(Ask) THEN Right(<<>>) ELSE Wrong
  BY TypeFacts
<1>2. served' = served \cup {Ask} /\ HasField(inj.rid, inj.field)
  BY <1>1 DEF InjType
<1>3. /\ peer \in Peers /\ run.asks \in Seq(Prompts) /\ run \in Runs
      /\ peer.at \in 1..Len(run.asks) /\ run.asks[peer.at] = Ask /\ Ask \in Prompts
      /\ inj \in InjectorStates /\ Len(run.asks) \in Nat
  BY <1>1, RunFacts DEF PtyTypeOK, PeerTypeOK, InjTypeOK, Ask
<1>4. inj'.pc = "typed" /\ inj'.ok /\ inj'.field = inj.field /\ inj'.elev = inj.elev
  BY <1>1, <1>3 DEF InjectorStates
<1>5. /\ ~Asked' /\ InFlight' /\ ~InFlight
      /\ \A f : ~Flies(f) /\ (Flies(f)' <=> inj.field = f)
      /\ ~LoginFlies /\ (LoginFlies' <=> inj.field = "password" /\ ~inj.elev)
  BY <1>1, <1>4 DEF Asked, InFlight, Flies, LoginFlies
<1>6. /\ SusLeft => SusLeft'
      /\ Outer' = Outer /\ Dual' = Dual /\ NoKeyQuestion' = NoKeyQuestion
      /\ LateBanner' = LateBanner /\ TellsHops' = TellsHops
      /\ \A rid, f : HasField(rid, f)' = HasField(rid, f)
  BY <1>1, SusStays, SameRun DEF Outer, NoKeyQuestion, LateBanner
<1>7. /\ "login" \notin Sus /\ "inner" \notin Sus /\ "login" \in Logins /\ "inner" \in Logins
      /\ \A p \in Logins : p = "login" \/ p = "inner"
  BY DEF Logins, Sus
<1>8. peer'.at = peer.at \/ (peer'.at = peer.at + 1 /\ peer' = NextAsk)
  <2>1. CASE peer' = NextAsk
    BY <2>1 DEF NextAsk
  <2>2. CASE peer' # NextAsk
    BY <1>1, <1>3, <2>2 DEF Right, Wrong, Peers
  <2> QED BY <2>1, <2>2
<1>9. ASSUME Ask \notin Sus, peer'.at # peer.at
      PROVE  run.good /\ inj.field = Wanted(Ask) /\ inj.rid = Owner(Ask)
  <2>1. peer' = NextAsk /\ NextAsk.st = "busy" /\ NextAsk.at = peer.at + 1
    BY <1>8, <1>9 DEF NextAsk
  <2>2. ~Wrong
    BY <1>1, <1>3, <1>9, <2>1 DEF Wrong, Peers
  <2> QED BY <1>1, <2>2
<1>10. ASSUME NEW p, Passed(p)', ~Passed(p) PROVE Ask = p /\ peer'.at # peer.at
  BY <1>1, <1>3, <1>8, <1>10 DEF Passed
<1>11. NoKeyQuestion =>
         /\ Ask \in Secrets
         /\ inj.field = "password" => Ask \in Logins \cup Sus
  <2>1. Asked /\ AskedField = inj.field /\ AskedRid = inj.rid
    BY <1>1 DEF Asked, AskedField, AskedRid
  <2>2. Ask # "yesno" => Ask \in Secrets
    BY <1>3 DEF Prompts
  <2> QED BY <1>0, <1>1, <1>2, <2>1, <2>2 DEF Sought
<1>12. Sought'
  BY <1>5 DEF Sought
<1>13. Reached'
  <2>1. \A i \in 1..peer.at : i \in 1..peer'.at
    BY <1>3, <1>8
  <2>2. peer.at \in 1..peer.at /\ peer.at <= Len(run.asks) /\ run.asks[peer.at] = Ask
    BY <1>3
  <2> QED BY <1>0, <1>1, <1>2, <2>1, <2>2 DEF Reached
<1>14. KeyServed'
  BY <1>0, <1>1, <1>2, <1>5, <1>6, <1>11 DEF KeyServed
<1>15. LoginServed'
  BY <1>0, <1>1, <1>2, <1>5, <1>6, <1>11 DEF LoginServed
<1>16. SusServed'
  <2>1. inj.elev => Ask \in Sus
    BY <1>1
  <2> QED BY <1>0, <1>1, <1>2, <1>4, <1>5, <2>1 DEF SusServed
<1>17. InnerServed'
  <2>1. SUFFICES ASSUME Dual, TellsHops,
                        recorded.inner \/ (recorded.login /\ inj.field = "password")
                 PROVE  SusLeft \/ served' \cap ({"inner"} \cup Sus) # {}
    BY <1>1, <1>5, <1>6 DEF InnerServed
  <2>2. CASE recorded.inner
    BY <1>0, <1>2, <2>1, <2>2 DEF InnerServed
  <2>3. CASE recorded.login /\ inj.field = "password"
    <3>1. \A i \in peer.at..Len(run.asks) : run.asks[i] # "login"
      BY <2>1, <2>3 DEF HandInv, DualDone
    <3>2. Ask # "login"
      BY <1>3, <3>1
    <3>3. Ask \in {"inner"} \cup Sus
      BY <1>1, <1>7, <2>1, <2>3, <3>2
    <3> QED BY <1>2, <3>3
  <2> QED BY <2>1, <2>2, <2>3
<1>18. HopsDone'
  <2>1. SUFFICES ASSUME Dual
                 PROVE  /\ Passed("login")' => /\ run.good /\ HasField("outer", "password")
                                               /\ recorded.login \/ LoginFlies'
                        /\ TellsHops /\ Passed("inner")' /\ Contains(run.asks, "login")
                             => recorded.inner \/ (recorded.login /\ LoginFlies')
    BY <1>1, <1>6 DEF HopsDone
  <2>2. /\ Passed("login") => /\ run.good /\ HasField("outer", "password") /\ recorded.login
        /\ TellsHops /\ Passed("inner") /\ Contains(run.asks, "login") => recorded.inner
    BY <1>0, <1>5, <2>1 DEF HopsDone
  <2>3. ASSUME Passed("login")', ~Passed("login")
        PROVE  run.good /\ HasField("outer", "password") /\ LoginFlies'
    <3>1. Ask = "login" /\ run.good /\ inj.field = Wanted(Ask)
      BY <1>7, <1>9, <1>10, <2>3
    <3>2. inj.field = "password" /\ ~inj.elev
      BY <1>1, <1>7, <3>1 DEF Wanted
    <3> QED BY <1>1, <1>5, <3>1, <3>2
  <2>4. ASSUME TellsHops, Passed("inner")', ~Passed("inner"), Contains(run.asks, "login")
        PROVE  recorded.login /\ LoginFlies'
    <3>1. Ask = "inner" /\ inj.field = Wanted(Ask)
      BY <1>7, <1>9, <1>10, <2>4
    <3>2. inj.field = "password" /\ ~inj.elev
      BY <1>1, <1>7, <3>1 DEF Wanted
    <3>3. PICK i \in 1..Len(run.asks) : run.asks[i] = "login"
      BY <2>4 DEF Contains
    <3>4. ~(peer.at < i)
      BY <1>3, <1>7, <3>1, <3>3, Once
    <3>5. i # peer.at
      BY <1>3, <3>1, <3>3
    <3>6. Passed("login")
      BY <1>3, <3>3, <3>4, <3>5 DEF Passed
    <3> QED BY <1>5, <2>2, <3>2, <3>6
  <2> QED BY <2>2, <2>3, <2>4
<1> QED BY <1>12, <1>13, <1>14, <1>15, <1>16, <1>17, <1>18 DEF Tracked


\* The scanner asks for a secret, and for a password's only for a password.
LEMMA ArmSeeks ==
  ASSUME RunAssumption, PtyAssumption, OneEach(run), PtyTypeOK, NoFields, HandInv, Sought,
         Arm(window), UNCHANGED <<run, peer, inj>>
  PROVE  Sought'
<1> DEFINE arms == PromptAtEnd(window) /\ ~capture.on /\ ~pend.inj
           bare == Preset /\ run.fields = <<>> /\ Last(window) # "yesno"
           full == Preset /\ run.fields # <<>> /\ ArmsInjection(window)
           f == FieldForPrompt(window)
           p == Last(window)
<1>0. /\ Ask' = Ask /\ NoKeyQuestion' = NoKeyQuestion
      /\ \A rid, g : HasField(rid, g)' = HasField(rid, g)
  BY SameRun DEF Ask, NoKeyQuestion
<1>1. /\ ~(arms /\ (bare \/ full)) => pend' = pend
      /\ arms /\ bare => pend' = [pend EXCEPT !.inj = TRUE]
      /\ arms /\ full => pend'.field = f /\ pend'.inj
  BY DEF Arm
<1>2. CASE ~(arms /\ (bare \/ full))
  <2>1. Asked' = Asked /\ AskedField' = AskedField /\ AskedRid' = AskedRid
    BY <1>1, <1>2 DEF Asked, AskedField, AskedRid
  <2> QED BY <1>0, <2>1 DEF Sought
<1>3. CASE arms /\ (bare \/ full)
  <2>1. /\ \A S : S \subseteq Secrets => (Has(window, S) <=> p \in S)
        /\ p \in Prompts /\ (p \in Held => Waits(p))
    BY <1>3, WindowHas
  <2>2. /\ Has(window, {"key"}) <=> p = "key"
        /\ Has(window, Logins \cup Sus) <=> p \in Logins \cup Sus
    <3>1. {"key"} \subseteq Secrets /\ Logins \cup Sus \subseteq Secrets
      BY DEF Secrets
    <3> QED BY <2>1, <3>1
  <2>3. inj.pc \notin {"settle", "child"}
    BY <1>3 DEF PromptAtEnd, HandInv, AskedFits, Asked
  <2>4. SUFFICES ASSUME peer.st = "asking", NoKeyQuestion
                 PROVE  /\ Ask # "yesno"
                        /\ AskedField' = "password" /\ HasField(AskedRid', "password")
                             => Ask \in Logins \cup Sus
    BY <1>0 DEF Sought
  <2>5. /\ run.asks \in Seq(Prompts) /\ run.fields \in Seq(FieldNames)
        /\ peer.at \in 1..Len(run.asks) /\ Ask = run.asks[peer.at]
    BY <2>4, RunFacts DEF PtyTypeOK, Ask
  <2>6. p # "yesno" => p \in Secrets /\ p = Ask
    BY <2>1, <2>4, HeldFacts DEF Waits, Prompts
  <2>7. p # "yesno"
    <3>1. SUFFICES ASSUME p = "yesno", full PROVE FALSE
      BY <1>3
    <3>2. Len(run.fields) = 1
      <4>1. "yesno" \notin Logins \cup Sus /\ "yesno" # "key"
        BY DEF Logins, Sus
      <4> QED BY <2>2, <3>1, <4>1 DEF ArmsInjection, FieldForPrompt
    <3>3. Ask = "yesno"
      BY <2>1, <2>4, <3>1, <3>2, HeldFacts DEF Waits
    <3>4. Contains(run.asks, "yesno")
      BY <2>5, <3>3 DEF Contains
    <3> QED BY <2>4, <3>2, <3>4 DEF NoKeyQuestion
  <2>8. CASE bare
    <3>1. pend'.rid = Nil
      <4>1. pend \in Pending
        BY DEF PtyTypeOK, InjTypeOK
      <4>2. pend' = [pend EXCEPT !.inj = TRUE]
        BY <1>1, <1>3, <2>8
      <4>3. pend.rid = Nil
        BY <2>8 DEF NoFields
      <4> QED BY <4>1, <4>2, <4>3 DEF Pending
    <3>2. AskedRid' = "outer"
      BY <2>3, <3>1 DEF AskedRid
    <3>3. ~HasField("outer", "password")
      BY <2>8 DEF HasField, FieldsOf, Contains
    <3> QED BY <2>6, <2>7, <3>2, <3>3
  <2>9. CASE full
    <3>1. f # Nil /\ f \in FieldNames
      BY <2>9, FieldFacts DEF ArmsInjection
    <3>2. AskedField' = f
      BY <1>1, <1>3, <2>3, <2>9, <3>1 DEF AskedField
    <3>3. ASSUME f = "password", Ask \notin Logins \cup Sus PROVE FALSE
      <4>1. Ask = "key"
        BY <2>6, <2>7, <3>3 DEF Secrets
      <4>2. Contains(run.asks, "key")
        BY <2>5, <4>1 DEF Contains
      <4>3. Len(run.fields) # 1 \/ HasField("outer", "key_passphrase")
        BY <4>2 DEF OneEach, HasField, FieldsOf
      <4>4. p = "key" /\ p \notin Logins \cup Sus
        BY <2>6, <2>7, <3>3, <4>1
      <4>5. Has(window, {"key"}) /\ ~Has(window, Logins \cup Sus)
        BY <2>2, <4>4
      <4> QED BY <3>1, <3>3, <4>3, <4>5 DEF FieldForPrompt
    <3> QED BY <2>6, <2>7, <3>2, <3>3
  <2> QED BY <1>3, <2>8, <2>9
<1> QED BY <1>2, <1>3

LEMMA SeeksStep ==
  ASSUME RunAssumption, PtyAssumption, OneEach(run), PtyTypeOK, NoFields, HandInv, Preset, Tracked,
         [PtyNext]_ptyVars, ~InjType, ~byHand'
  PROVE  Sought'
<1>0. Sought
  BY DEF Tracked
<1>1. run' = run /\ NoKeyQuestion' = NoKeyQuestion
      /\ \A rid, f : HasField(rid, f)' = HasField(rid, f)
  <2>1. run' = run
    BY HandOnce
  <2> QED BY <2>1, SameRun DEF NoKeyQuestion
<1>2. ASSUME Asked' => Asked /\ AskedField' = AskedField /\ AskedRid' = AskedRid
      PROVE  Sought'
  <2>1. SUFFICES ASSUME Asked', peer'.st = "asking", NoKeyQuestion
                 PROVE  peer.st = "asking" /\ Ask' = Ask
    BY <1>0, <1>1, <1>2 DEF Sought
  <2>2. peer.st = "asking"
    BY <1>2, <2>1, Onward DEF HandInv, AskedFits
  <2>3. Ask # "yesno"
    BY <1>0, <1>2, <2>1, <2>2 DEF Sought
  <2> QED BY <1>1, <2>2, <2>3, Onward DEF Ask
<1>3. CASE ScanRescan \/ ScanArm
  BY <1>0, <1>3, ArmSeeks DEF ScanRescan, ScanArm, peerVars
<1>4. CASE Injector
  <2>1. InjStart \/ InjSpawn \/ InjFail \/ InjNonblock \/ InjDrain \/ InjBlocking \/ InjRecord
          \/ InjOpen \/ InjEnd
    BY <1>4 DEF Injector
  <2> QED BY <1>2, <2>1, AskedStays
<1>5. CASE UNCHANGED <<pend, inj>>
  BY <1>2, <1>5 DEF Asked, AskedField, AskedRid
<1>6. Scanner => ScanRescan \/ ScanArm \/ UNCHANGED <<pend, inj>>
  BY DEF Scanner, ScanReady, ScanRead, ScanEnds, injVars
<1>7. User \/ Tick \/ PeerAsks \/ PeerExits \/ UNCHANGED ptyVars => UNCHANGED <<pend, inj>>
  BY DEF User, UserTypes, UserInterrupts, PipeWrites, Tick, PeerAsks, PeerExits, ptyVars, injVars
<1>8. Main => UNCHANGED <<pend, inj>>
  BY DEF Main, MainForward, MainSigint, MainOpen, MainEnds, MainExit, MainGraceOver, MainDown,
         MainKill, MainJoin, ExecSaves, injVars
<1> QED BY <1>3, <1>4, <1>5, <1>6, <1>7, <1>8 DEF PtyNext, RunOver


LEMMA TrackedStep ==
  ASSUME RunAssumption, PtyAssumption, InOrder(run), OneEach(run), SecretInv, Preset, Tracked,
         [PtyNext]_ptyVars, ~byHand'
  PROVE  Tracked'
<1>0. PtyTypeOK /\ BannerLate /\ NoFields /\ HandInv
  BY HandOnce DEF SecretInv
<1>1. CASE InjType
  BY <1>0, <1>1, TypeServes
<1>2. CASE ~InjType
  <2>1. Sought'
    BY <1>0, <1>2, SeeksStep
  <2>2. Reached' /\ KeyServed' /\ LoginServed' /\ SusServed' /\ InnerServed' /\ HopsDone'
    <3>1. CASE InjRecord
      BY <1>0, <3>1, RecordKeeps
    <3>2. CASE ~InjRecord
      BY <1>0, <1>2, <3>2, QuietStep, QuietKeeps
    <3> QED BY <3>1, <3>2
  <2> QED BY <2>1, <2>2 DEF Tracked
<1> QED BY <1>1, <1>2

LEMMA TrackedInit == ASSUME PtyInit PROVE Tracked
<1>1. /\ inj.pc = "idle" /\ ~pend.inj /\ served = {} /\ peer.at = 1
      /\ recorded.fields = {} /\ recorded.elev = 0 /\ ~recorded.login /\ ~recorded.inner
  BY DEF PtyInit
<1>2. ~Asked /\ ~InFlight /\ \A p : ~Passed(p)
  BY <1>1 DEF Asked, InFlight, Passed
<1> QED BY <1>1, <1>2 DEF Tracked, Sought, Reached, KeyServed, LoginServed, SusServed, InnerServed,
                         HopsDone, Flies, LoginFlies

\* Why the scanner leaves the prompt at the end of the window alone, when the
\* record has its secret.
LEMMA Refused ==
  ASSUME RunAssumption, PtyAssumption, PtyTypeOK, HandInv, Preset, PromptAtEnd(window),
         ~ArmsInjection(window), NEW p, p = Last(window)
  PROVE  /\ p = "key" /\ HasField("outer", "key_passphrase") => "key_passphrase" \in recorded.fields
         /\ p = "login" /\ HasField("outer", "password")
              => recorded.login \/ "password" \in recorded.fields
         /\ p = "inner" /\ Dual /\ run.hint /\ HasField("outer", "password") => recorded.inner
         /\ p \in Sus /\ ~Outer /\ HasField("outer", "password") =>
              IF run.ssh /\ (p = "su" => run.su) THEN recorded.elev # 0
              ELSE "password" \in recorded.fields
         /\ p \in Sus /\ Dual /\ run.ssh /\ (p = "su" => run.su) /\ HasField("outer", "password")
              => ~recorded.inner \/ recorded.elev # 0
<1> DEFINE f == FieldForPrompt(window)
<1>1. /\ Has(window, {"key"}) <=> p = "key"
      /\ Has(window, Logins) <=> p \in Logins
      /\ Has(window, Logins \cup Sus) <=> p \in Logins \cup Sus
      /\ Has(window, {"inner"}) <=> p = "inner"
  <2>1. {"key"} \subseteq Secrets /\ Logins \subseteq Secrets /\ Logins \cup Sus \subseteq Secrets
        /\ {"inner"} \subseteq Secrets
    BY DEF Secrets, Logins, Sus
  <2> QED BY <2>1, WindowHas
<1>2. /\ "login" \in Logins /\ "inner" \in Logins /\ "key" \notin Logins
      /\ \A q \in Sus : q \notin Logins /\ q # "key" /\ (q = "sudo" \/ q = "su")
      /\ "sudo" \in Sus /\ "su" \in Sus
      /\ "password" # Nil /\ "key_passphrase" # Nil
  BY PtyAssumption DEF Logins, Sus, PtyAssumption, FieldNames
<1>3. f # Nil /\ ShouldArm(window, f) => Already(f) /\ ~MayRepeat(window, f)
  BY DEF ArmsInjection
<1>4. HasField("outer", "password") /\ p \in Logins \cup Sus => f = "password"
  BY <1>1, <1>2 DEF FieldForPrompt
<1>5. Dual => Outer
  BY DEF Dual, Outer
<1>6. /\ p \in Logins => IsSshLogin(window)
      /\ p \in Sus => /\ ~IsSshLogin(window)
                      /\ IsElevation(window) <=> run.ssh /\ (p = "su" => run.su)
      /\ p \in Logins => ~IsElevation(window)
  BY <1>1, <1>2 DEF IsSshLogin, IsElevation
<1>7. ElevationDue(window) \/ recorded.elev # 0
  BY DEF ElevationDue
<1> HIDE DEF f
<1>8. CASE p = "key" /\ HasField("outer", "key_passphrase")
  <2>1. f = "key_passphrase"
    BY <1>1, <1>8 DEF FieldForPrompt, f
  <2> QED BY <1>2, <1>3, <1>8, <2>1 DEF ShouldArm, Already
<1>9. SecondHop(window, f) <=> IsSshLogin(window) /\ LoginDone(f) /\ ~recorded.inner
  BY DEF SecondHop
<1>10. ASSUME p = "login", HasField("outer", "password"), ~recorded.login,
              "password" \notin recorded.fields
       PROVE  FALSE
  <2>1. f = "password" /\ ~Already(f) /\ ~LoginDone(f) /\ ~IsInnerHop(window)
    BY <1>1, <1>2, <1>4, <1>10 DEF Already, LoginDone, IsInnerHop
  <2>2. ArmsOuter(window, f) /\ ArmsHere(window, f)
    BY <1>2, <1>6, <1>9, <1>10, <2>1 DEF ArmsOuter, ArmsHere
  <2> QED BY <1>2, <1>3, <2>1, <2>2 DEF ShouldArm
<1>11. ASSUME p = "inner", Dual, run.hint, HasField("outer", "password"), ~recorded.inner
       PROVE  FALSE
  <2>1. f = "password" /\ IsSshLogin(window) /\ IsInnerHop(window)
    BY <1>1, <1>2, <1>4, <1>6, <1>11 DEF IsInnerHop
  <2>2. ArmsOuter(window, f)
    BY <1>11, <2>1 DEF ArmsOuter
  <2>3. Already(f) => MayRepeat(window, f)
    BY <1>9, <1>11, <2>1 DEF MayRepeat, LoginDone
  <2> QED BY <1>2, <1>3, <1>5, <1>11, <2>1, <2>2, <2>3 DEF ShouldArm
<1>12. ASSUME p \in Sus, ~Outer, HasField("outer", "password")
       PROVE  IF run.ssh /\ (p = "su" => run.su) THEN recorded.elev # 0
              ELSE "password" \in recorded.fields
  <2>1. f = "password" /\ ~IsSshLogin(window)
    BY <1>4, <1>6, <1>12
  <2>2. CASE IsElevation(window)
    <3>1. ArmsHere(window, f) <=> ElevationDue(window)
      BY <2>1, <2>2 DEF ArmsHere
    <3>2. MayRepeat(window, f)
      BY <2>1, <2>2 DEF MayRepeat
    <3> QED BY <1>2, <1>3, <1>6, <1>7, <1>12, <2>1, <2>2, <3>1, <3>2 DEF ShouldArm
  <2>3. CASE ~IsElevation(window)
    <3>1. ArmsHere(window, f)
      BY <2>1, <2>3 DEF ArmsHere
    <3> QED BY <1>2, <1>3, <1>6, <1>12, <2>1, <2>3, <3>1 DEF ShouldArm, Already
  <2> QED BY <2>2, <2>3
<1>13. ASSUME p \in Sus, Dual, run.ssh, p = "su" => run.su, HasField("outer", "password"),
              recorded.inner
       PROVE  recorded.elev # 0
  <2>1. f = "password" /\ ~IsSshLogin(window) /\ IsElevation(window)
    BY <1>4, <1>6, <1>13
  <2>2. ArmsOuter(window, f) <=> ElevationDue(window)
    BY <1>13, <2>1 DEF ArmsOuter
  <2>3. MayRepeat(window, f)
    BY <2>1 DEF MayRepeat
  <2> QED BY <1>2, <1>3, <1>5, <1>7, <1>13, <2>1, <2>2, <2>3 DEF ShouldArm
<1> QED BY <1>8, <1>10, <1>11, <1>12, <1>13

\* Of two prompts that were reached the one the program waits at is the later.
LEMMA Latest ==
  ASSUME RunAssumption, PtyTypeOK, OneEach(run), Reached, peer.st = "asking",
         NEW S, "failed" \notin S, served \cap S # {}
  PROVE  /\ Ask \in Sus /\ S = Sus => Ask \in served
         /\ Ask = "inner" /\ S = {"inner"} \cup Sus => Ask \in served
         /\ Ask = "login" /\ S = Logins \cup Sus => Ask \in served
         /\ Ask = "key" /\ S = Secrets => Ask \in served
         /\ ~run.ssh /\ Ask \in Logins \cup Sus /\ S = Logins \cup Sus => Ask \in served
<1>1. /\ run \in Runs /\ Len(run.asks) \in Nat
      /\ peer.at \in 1..Len(run.asks) /\ run.asks[peer.at] = Ask
  BY RunFacts DEF PtyTypeOK, PeerTypeOK, Ask
<1>2. PICK q : q \in served /\ q \in S
  OBVIOUS
<1>3. PICK i \in 1..peer.at : i <= Len(run.asks) /\ run.asks[i] = q
  BY <1>2 DEF Reached
<1>4. i \in 1..Len(run.asks)
  BY <1>1, <1>3
<1>5. CASE i = peer.at
  BY <1>1, <1>2, <1>3, <1>5
<1>6. CASE i < peer.at
  <2>1. ~run.ssh => ~(q \in Logins \cup Sus /\ Ask \in Logins \cup Sus)
    BY <1>1, <1>3, <1>4, <1>6 DEF OneEach
  <2> QED BY <1>1, <1>2, <1>3, <1>4, <1>6, <2>1, Once
<1> QED BY <1>1, <1>3, <1>5, <1>6


\* What a route has behind it at a prompt of its second host.
LEMMA Behind ==
  ASSUME RunAssumption, PtyTypeOK, OneEach(run), HopsDone, Dual, run.hint, LateBanner, ~InFlight,
         peer.st = "asking", Ask \in {"inner"} \cup Sus, Contains(run.asks, "login")
  PROVE  /\ TellsHops /\ HasField("outer", "password") /\ recorded.login
         /\ Ask \in Sus => recorded.inner /\ run.ssh
<1>1. /\ run \in Runs /\ Len(run.asks) \in Nat
      /\ peer.at \in 1..Len(run.asks) /\ run.asks[peer.at] = Ask
  BY RunFacts DEF PtyTypeOK, PeerTypeOK, Ask
<1>2. /\ "login" \notin {"inner"} \cup Sus /\ "inner" \notin Sus
      /\ "login" \in Logins /\ "inner" \in Logins
  BY DEF Logins, Sus
<1>3. PICK i \in 1..Len(run.asks) : run.asks[i] = "login"
  BY DEF Contains
<1>4. i < peer.at
  <2>1. i # peer.at
    BY <1>1, <1>2, <1>3
  <2>2. ~(peer.at < i)
    BY <1>1, <1>2, <1>3, Once
  <2> QED BY <1>1, <1>3, <2>1, <2>2
<1>5. Passed("login")
  BY <1>1, <1>3, <1>4 DEF Passed
<1>6. run.good /\ HasField("outer", "password") /\ recorded.login
  BY <1>5 DEF HopsDone, LoginFlies, Flies
<1>7. TellsHops
  BY <1>6 DEF TellsHops, LateBanner, Outer, Dual
<1>8. ASSUME Ask \in Sus PROVE recorded.inner /\ run.ssh
  <2>1. Contains(run.asks, "inner")
    <3>1. \E p \in Sus : Contains(run.asks, p)
      BY <1>1, <1>8 DEF Contains
    <3> QED BY <3>1 DEF OneEach, Dual
  <2>2. PICK j \in 1..Len(run.asks) : run.asks[j] = "inner"
    BY <2>1 DEF Contains
  <2>3. j < peer.at
    <3>1. j # peer.at
      BY <1>1, <1>2, <1>8, <2>2
    <3>2. ~(peer.at < j)
      BY <1>1, <1>8, <2>2, Once
    <3> QED BY <1>1, <2>2, <3>1, <3>2
  <2>4. Passed("inner")
    BY <1>1, <2>2, <2>3 DEF Passed
  <2>5. recorded.inner
    BY <1>7, <2>4 DEF HopsDone, LoginFlies, Flies
  <2>6. run.ssh
    BY <1>1, <1>2, <1>3, <1>4, <1>8 DEF OneEach
  <2> QED BY <2>5, <2>6
<1> QED BY <1>6, <1>7, <1>8

\* A prompt that was not overlooked and is in hand has been served.
LEMMA AllServed ==
  ASSUME RunAssumption, PtyAssumption, OneEach(run), PtyTypeOK, ~byHand => HandInv,
         ~byHand /\ Preset => Tracked, NoneOverlooked
  PROVE  InHandServed
<1>1. SUFFICES ASSUME AtRest, ~byHand, peer.st = "asking", PromptAtEnd(window), Last(window) = Ask,
                      InHand(Ask), "failed" \notin served
               PROVE  Ask \in served
  BY DEF InHandServed
<1>2. Preset /\ HandInv /\ Tracked
  BY <1>1 DEF InHand
<1>3. Reached /\ KeyServed /\ LoginServed /\ SusServed /\ InnerServed /\ HopsDone
  BY <1>2 DEF Tracked
<1>4. /\ HasField(Owner(Ask), Wanted(Ask)) /\ NoKeyQuestion /\ LateBanner
      /\ Ask = "su" => run.su
      /\ Outer /\ ~Dual => Ask = "login"
      /\ Dual /\ Owner(Ask) = "inner" => run.hint /\ Contains(run.asks, "login")
      /\ Owner(Ask) = "inner" => Dual
  BY <1>1 DEF InHand, NoKeyQuestion, LateBanner
<1>5. /\ "login" \in Logins /\ "inner" \in Logins /\ "login" \notin Sus
      /\ \A q \in Sus : q # "yesno" /\ q # "key" /\ q # "inner"
      /\ "failed" \notin Secrets /\ "failed" \notin Logins \cup Sus /\ "failed" \notin Sus
      /\ "failed" \notin {"inner"} \cup Sus /\ "sudo" # "su"
  BY DEF Secrets, Logins, Sus
<1>6. Ask \in Prompts /\ peer.at \in peer.at..Len(run.asks)
  <2>1. peer.at \in 1..Len(run.asks) /\ Ask \in Prompts /\ run.asks \in Seq(Prompts)
    BY <1>1, RunFacts DEF PtyTypeOK
  <2> QED BY <2>1
<1>7. Ask \in Sus \/ ~SusLeft
  BY <1>6 DEF SusLeft, Ask
<1>8. Ask # "yesno"
  BY <1>4, NothingWanted DEF Owner, Wanted, Sus
<1>9. Ask = "key" \/ Ask = "login" \/ Ask = "inner" \/ Ask \in Sus
  BY <1>6, <1>8 DEF Prompts, Secrets, Logins
<1>10. ~InFlight
  BY <1>1 DEF AtRest, InFlight
<1>11. ~ArmsInjection(window)
  BY <1>1, <1>2, <1>8 DEF NoneOverlooked, Answerable
<1>12. CASE Ask = "key"
  <2>1. HasField("outer", "key_passphrase")
    BY <1>4, <1>5, <1>12 DEF Owner, Wanted
  <2>2. "key_passphrase" \in recorded.fields
    BY <1>1, <1>2, <1>11, <1>12, <2>1, Refused
  <2>3. served \cap Secrets # {}
    BY <1>3, <1>4, <2>2 DEF KeyServed
  <2> QED BY <1>1, <1>3, <1>5, <1>12, <2>3, Latest
<1>13. CASE Ask = "login"
  <2>1. HasField("outer", "password")
    BY <1>4, <1>5, <1>13 DEF Owner, Wanted
  <2>2. recorded.login \/ "password" \in recorded.fields
    BY <1>1, <1>2, <1>11, <1>13, <2>1, Refused
  <2>3. served \cap (Logins \cup Sus) # {}
    BY <1>3, <1>4, <1>5, <1>7, <1>13, <2>2 DEF LoginServed
  <2> QED BY <1>1, <1>3, <1>5, <1>13, <2>3, Latest
<1>14. CASE Ask = "inner"
  <2>1. Dual /\ run.hint /\ Contains(run.asks, "login")
    BY <1>4, <1>14 DEF Owner
  <2>2. TellsHops /\ HasField("outer", "password")
    BY <1>1, <1>3, <1>4, <1>10, <1>14, <2>1, Behind
  <2>3. recorded.inner
    BY <1>1, <1>2, <1>11, <1>14, <2>1, <2>2, Refused
  <2>4. served \cap ({"inner"} \cup Sus) # {}
    BY <1>3, <1>5, <1>7, <1>14, <2>1, <2>2, <2>3 DEF InnerServed
  <2> QED BY <1>1, <1>3, <1>5, <1>14, <2>4, Latest
<1>15. CASE Ask \in Sus
  <2>1. recorded.elev # 0 => Ask \in served
    <3>1. recorded.elev # 0 => served \cap Sus # {}
      BY <1>3 DEF SusServed
    <3> QED BY <1>1, <1>3, <1>5, <1>15, <3>1, Latest
  <2>2. CASE Outer
    <3>1. Dual /\ run.hint /\ Contains(run.asks, "login")
      BY <1>4, <1>5, <1>15, <2>2 DEF Owner
    <3>2. TellsHops /\ HasField("outer", "password") /\ recorded.inner /\ run.ssh
      BY <1>1, <1>3, <1>4, <1>10, <1>15, <3>1, Behind
    <3>3. recorded.elev # 0
      BY <1>1, <1>2, <1>4, <1>11, <1>15, <3>1, <3>2, Refused
    <3> QED BY <2>1, <3>3
  <2>3. CASE ~Outer
    <3>1. HasField("outer", "password")
      BY <1>4, <1>5, <1>15, <2>3 DEF Owner, Wanted
    <3>2. IF run.ssh THEN recorded.elev # 0 ELSE "password" \in recorded.fields
      BY <1>1, <1>2, <1>4, <1>11, <1>15, <2>3, <3>1, Refused
    <3>3. ASSUME ~run.ssh PROVE Ask \in served
      <4>1. served \cap (Logins \cup Sus) # {}
        BY <1>3, <1>4, <3>2, <3>3 DEF LoginServed
      <4> QED BY <1>1, <1>3, <1>5, <1>15, <3>3, <4>1, Latest
    <3> QED BY <2>1, <3>2, <3>3
  <2> QED BY <2>2, <2>3
<1> QED BY <1>9, <1>12, <1>13, <1>14, <1>15

ServedInv == SecretInv /\ Noticed /\ (~byHand /\ Preset => Tracked)

\* In runs that ask for each secret once and in order, no prompt is left standing
\* whose secret the record has (arm_prompt_if_needed, should_arm_vault_inject and
\* what the injector records for them).
THEOREM PromptsServed ==
  ASSUME \A r \in Runs : InOrder(r) /\ OneEach(r) PROVE PtySpec => []PromptServed
<1>1. PtyInit => ServedInv
  <2>1. PtyInit => Noticed
    BY DEF PtyInit, Noticed, PromptAtEnd
  <2> QED BY <2>1, PtyAssumption, RunAssumption, SecretInit, TrackedInit DEF ServedInv
<1>2. ServedInv /\ [PtyNext]_ptyVars => ServedInv'
  <2>1. SUFFICES ASSUME ServedInv, [PtyNext]_ptyVars PROVE ServedInv'
    OBVIOUS
  <2>2. SecretInv /\ PtyTypeOK /\ Noticed /\ (~byHand /\ Preset => Tracked) /\ run \in Runs
    BY <2>1 DEF ServedInv, SecretInv, PtyTypeOK, PeerTypeOK
  <2>3. SecretInv' /\ Noticed'
    BY <2>1, <2>2, PtyAssumption, RunAssumption, SecretStep, NoticedStep
  <2>4. ASSUME ~byHand', Preset' PROVE Tracked'
    <3>1. ~byHand /\ Preset
      BY <2>1, <2>4, HandOnce DEF Preset
    <3> QED BY <2>1, <2>2, <2>4, <3>1, PtyAssumption, RunAssumption, TrackedStep
  <2> QED BY <2>3, <2>4 DEF ServedInv
<1>3. ServedInv => PromptServed
  <2>1. SUFFICES ASSUME ServedInv PROVE PromptServed
    OBVIOUS
  <2>2. PtyTypeOK /\ (~byHand => HandInv) /\ (~byHand /\ Preset => Tracked) /\ run \in Runs
    BY <2>1 DEF ServedInv, SecretInv, PtyTypeOK, PeerTypeOK
  <2>3. NoneOverlooked
    BY <2>1 DEF ServedInv, Noticed, Attended, NoneOverlooked, AtRest
  <2>4. InHandServed
    BY <2>2, <2>3, PtyAssumption, RunAssumption, AllServed
  <2> QED BY <2>3, <2>4 DEF PromptServed
<1> QED BY <1>1, <1>2, <1>3, PTL DEF PtySpec

=============================================================================
