----------------------- MODULE ManageInstance_proofs ------------------------
(***************************************************************************)
(* Proofs about ManageInstance: types; that the start lock leaves at most  *)
(* one standalone server up; and that the record of a server that answers  *)
(* is kept. The lock is held from before the second look for a server to   *)
(* the end of the process: the invariant says so of every place where a    *)
(* brokre manage that is past its first look can be.                       *)
(***************************************************************************)
EXTENDS ManageInstance, TLAPS

Places == {"off", "free", "read", "probe", "remove", "hint", "lock", "bind",
           "truncate", "write", "serving", "unlink", "gone"}

\* A process that has not begun has no past.
Fresh == \A p \in Procs : at[p] = "off" => look[p] = "first" /\ made[p] = 0

\* What registers is up.
Bound == \A p \in Procs : at[p] \in {"truncate", "write"} => made[p] >= 1

\* brokre manage makes no calls but its first, and mcp takes no lock.
OneLook ==
  /\ \A p \in Manages : look[p] # "refresh" /\ at[p] # "hint"
  /\ \A p \in Mcps : at[p] # "lock"

\* Past its first look, and not refused the lock.
Guarded(p) ==
  /\ Alive(p)
  /\ \/ made[p] >= 1
     \/ at[p] = "bind"
     \/ at[p] # "lock" /\ look[p] = "again"

Locked ==
  /\ \A p, q \in lock : p = q
  /\ \A p \in Manages : Guarded(p) => p \in lock

IInv == TypeOK /\ Fresh /\ Bound /\ OneLook /\ Locked

-----------------------------------------------------------------------------
LEMMA OwnerType == \A s \in Servers : Owner(s) \in Procs
BY DEF Servers, Owner, Procs

LEMMA ServerOfManage == \A p \in Manages : <<p, 1>> \in Servers /\ Owner(<<p, 1>>) = p
BY DEF Servers, Owner

\* A process that ends takes nothing of the others with it.
LEMMA EndKeeps ==
  ASSUME IInv, NEW p \in Procs, NEW asked, EndAfterAsking(p, asked),
         rec' \in Servers \cup {None, Blank}
  PROVE  IInv'
<1> USE DEF IInv, EndAfterAsking, Goto
<1>1. TypeOK'
  BY DEF TypeOK
<1>2. Fresh' /\ Bound' /\ OneLook'
  BY DEF TypeOK, Fresh, Bound, OneLook
<1>3. \A q \in Manages : Guarded(q)' => q # p /\ Guarded(q)
  BY DEF TypeOK, Guarded, Alive, Procs
<1>4. Locked'
  BY <1>3 DEF Locked
<1> QED BY <1>1, <1>2, <1>4

LEMMA FailKeeps ==
  ASSUME IInv, NEW p \in Procs, at[p] # "off", CallFails(p), rec' \in Servers \cup {None, Blank}
  PROVE  IInv'
<1>1. CASE p \in Manages
  BY <1>1, EndKeeps DEF CallFails, End
<1>2. CASE p \notin Manages
  <2> USE <1>2 DEF IInv, CallFails, Return, Goto
  <2>1. TypeOK'
    BY DEF TypeOK
  <2>0. /\ at' = [at EXCEPT ![p] = "free"] /\ look' = [look EXCEPT ![p] = "first"]
        /\ UNCHANGED <<made, lock>>
        /\ at \in [Procs -> Places] /\ look \in [Procs -> {"first", "again", "refresh"}]
    BY DEF TypeOK, Places
  <2>2. Fresh' /\ Bound'
    BY <2>0 DEF Fresh, Bound
  <2>4. OneLook'
    BY <2>0 DEF OneLook, Procs
  <2>3. Locked'
    BY <2>0 DEF Locked, Guarded, Alive, Procs
  <2> QED BY <2>1, <2>2, <2>3, <2>4
<1> QED BY <1>1, <1>2

LEMMA FoundKeeps ==
  ASSUME IInv, NEW p \in Procs, NEW s \in Servers \cup {None}, Found(p, s), UNCHANGED rec
  PROVE  IInv'
<1>1. CASE p \in Manages
  BY <1>1, EndKeeps DEF Found, IInv, TypeOK
<1>2. CASE p \notin Manages
  <2> USE <1>2 DEF IInv, Found, Return, Goto
  <2>5. /\ hint' \in [Procs -> Servers \cup {None}] /\ \A q \in Manages : hint'[q] = None
        /\ target' \in [Procs -> Servers \cup {None}]
    BY DEF TypeOK, Procs
  <2>6. /\ at' \in [Procs -> Places] /\ look' \in [Procs -> {"first", "again", "refresh"}]
        /\ seen' \in [Procs -> Servers \cup {None}]
    BY DEF TypeOK, Places
  <2>7. idle' \subseteq Servers /\ fresh' \subseteq Procs \cup Servers
        /\ UNCHANGED <<rec, open, lock, made, expired, exiting, busy>>
    BY DEF TypeOK
  <2>1. TypeOK'
    BY <2>5, <2>6, <2>7 DEF TypeOK, Places
  <2>0. /\ at' = [at EXCEPT ![p] = "free"] /\ look' = [look EXCEPT ![p] = "first"]
        /\ UNCHANGED <<made, lock>>
        /\ at \in [Procs -> Places] /\ look \in [Procs -> {"first", "again", "refresh"}]
    BY DEF TypeOK, Places
  <2>2. Fresh' /\ Bound'
    BY <2>0 DEF Fresh, Bound
  <2>4. OneLook'
    BY <2>0 DEF OneLook, Procs
  <2>3. Locked'
    BY <2>0 DEF Locked, Guarded, Alive, Procs
  <2> QED BY <2>1, <2>2, <2>3, <2>4
<1> QED BY <1>1, <1>2

\* A brokre manage that finds no server goes on to the lock, or holds it.
LEMMA NotFoundKeeps ==
  ASSUME IInv, NEW p \in Procs, at[p] \in {"read", "remove"}, NotFound(p),
         rec' \in Servers \cup {None, Blank}, open' \subseteq open,
         UNCHANGED <<lock, seen, hint, target, serverVars, fresh>>
  PROVE  IInv'
<1> USE DEF IInv, NotFound, serverVars
<1>0. at'[p] \in {"lock", "bind", "read", "hint"} /\ look'[p] \in {"again", "refresh"}
  BY DEF TypeOK
<1>1. TypeOK'
  BY <1>0 DEF TypeOK
<1>2. Fresh' /\ Bound'
  BY <1>0 DEF TypeOK, Fresh, Bound
<1>3. OneLook'
  <2>1. at \in [Procs -> Places] /\ look \in [Procs -> {"first", "again", "refresh"}]
    BY DEF TypeOK, Places
  <2>2. /\ p \in Manages => at'[p] \in {"lock", "bind"}
        /\ p \notin Manages => at'[p] # "lock"
    BY <2>1 DEF OneLook
  <2> QED BY <2>1, <2>2, <1>0, ProcsAssumption DEF OneLook, Procs
<1>4. \A q \in Manages : Guarded(q)' => Guarded(q)
  <2> SUFFICES ASSUME NEW q \in Manages, Guarded(q)' PROVE Guarded(q)
    OBVIOUS
  <2>1. CASE q = p
    <3>1. at'[p] = IF look[p] = "first" THEN "lock" ELSE "bind"
      BY <2>1 DEF TypeOK, OneLook
    <3> QED BY <2>1, <3>1 DEF TypeOK, OneLook, Guarded, Alive
  <2>2. CASE q # p
    BY <2>2 DEF TypeOK, Guarded, Alive, Procs
  <2> QED BY <2>1, <2>2
<1>5. Locked'
  BY <1>4 DEF Locked
<1> QED BY <1>1, <1>2, <1>3, <1>5

LEMMA InitIInv == Init => IInv
<1> SUFFICES ASSUME Init PROVE IInv
  OBVIOUS
<1>1. TypeOK
  BY ProcsAssumption DEF Init, TypeOK, Procs
<1>2. Fresh /\ Bound /\ OneLook
  BY DEF Init, Fresh, Bound, OneLook, Procs
<1>3. Locked
  BY DEF Init, Locked, Guarded, Alive, Procs
<1> QED BY <1>1, <1>2, <1>3 DEF IInv

-----------------------------------------------------------------------------
(* One lemma per action that changes more than bookkeeping. *)

LEMMA LaunchKeeps ==
  ASSUME IInv, NEW p \in Procs, Launch(p)
  PROVE  IInv'
<1> USE DEF IInv, Launch, Goto, serverVars
<1>1. TypeOK'
  BY DEF TypeOK
<1>2. Fresh' /\ Bound' /\ OneLook'
  BY DEF TypeOK, Fresh, Bound, OneLook, Procs
<1>3. \A q \in Manages : Guarded(q)' => Guarded(q)
  BY DEF TypeOK, Fresh, Guarded, Alive, Procs
<1> QED BY <1>1, <1>2, <1>3 DEF Locked

LEMMA CallKeeps ==
  ASSUME IInv, NEW p \in Mcps, NEW kind \in {"first", "refresh"}, Call(p, kind)
  PROVE  IInv'
<1> USE ProcsAssumption DEF IInv, Call, Goto, serverVars, Procs
<1>1. TypeOK'
  BY DEF TypeOK
<1>2. Fresh' /\ Bound' /\ OneLook'
  BY DEF TypeOK, Fresh, Bound, OneLook
<1>3. \A q \in Manages : Guarded(q)' => Guarded(q)
  BY DEF TypeOK, Guarded, Alive
<1> QED BY <1>1, <1>2, <1>3 DEF Locked

LEMMA ReadRecordKeeps ==
  ASSUME IInv, NEW p \in Procs, ReadRecord(p)
  PROVE  IInv'
<1>1. CASE rec \in Servers
  <2> USE <1>1 DEF IInv, ReadRecord, Goto, serverVars
  <2>1. TypeOK'
    BY DEF TypeOK
  <2>2. Fresh' /\ Bound' /\ OneLook'
    BY DEF TypeOK, Fresh, Bound, OneLook, Procs
  <2>3. \A q \in Manages : Guarded(q)' => Guarded(q)
    BY DEF TypeOK, Guarded, Alive, Procs
  <2> QED BY <2>1, <2>2, <2>3 DEF Locked
<1>2. CASE rec \notin Servers
  <2>1. rec' \in Servers \cup {None, Blank}
    BY DEF IInv, TypeOK, ReadRecord
  <2> QED BY <1>2, <2>1, NotFoundKeeps DEF ReadRecord
<1> QED BY <1>1, <1>2

LEMMA ProbeKeeps ==
  ASSUME IInv, NEW p \in Procs, Probe(p)
  PROVE  IInv'
<1>1. CASE Answers(seen[p])
  <2>1. seen[p] \in Servers \cup {None}
    BY DEF IInv, TypeOK
  <2> QED BY <1>1, <2>1, FoundKeeps DEF Probe
<1>2. CASE ~Answers(seen[p])
  <2> USE <1>2 DEF IInv, Probe, Goto, serverVars
  <2>1. TypeOK'
    BY DEF TypeOK
  <2>2. Fresh' /\ Bound' /\ OneLook'
    BY DEF TypeOK, Fresh, Bound, OneLook, Procs
  <2>3. \A q \in Manages : Guarded(q)' => Guarded(q)
    BY DEF TypeOK, Guarded, Alive, Procs
  <2> QED BY <2>1, <2>2, <2>3 DEF Locked
<1> QED BY <1>1, <1>2

LEMMA RemoveKeeps ==
  ASSUME IInv, NEW p \in Procs, Remove(p)
  PROVE  IInv'
BY NotFoundKeeps DEF Remove

\* No brokre manage is here.
LEMMA ProbeHintKeeps ==
  ASSUME IInv, NEW p \in Procs, ProbeHint(p)
  PROVE  IInv'
<1>1. PICK s \in Servers \cup {None} :
        \/ Answers(s) /\ Found(p, s)
        \/ ~Answers(s) /\ look[p] = "refresh" /\ CallFails(p)
        \/ /\ ~Answers(s) /\ look[p] = "again"
           /\ Goto(p, "bind")
           /\ hint' = [hint EXCEPT ![p] = None]
           /\ UNCHANGED <<open, lock, look, seen, target, serverVars, fresh>>
  BY DEF ProbeHint, Kept, IInv, TypeOK
<1>2. CASE Found(p, s)
  BY <1>2, FoundKeeps DEF ProbeHint
<1>3. CASE CallFails(p)
  BY <1>3, FailKeeps DEF ProbeHint, IInv, TypeOK
<1>4. CASE /\ Goto(p, "bind") /\ hint' = [hint EXCEPT ![p] = None]
           /\ UNCHANGED <<open, lock, look, seen, target, serverVars, fresh>>
  <2> USE <1>4 DEF IInv, ProbeHint, Goto, serverVars
  <2>1. TypeOK'
    BY DEF TypeOK
  <2>2. Fresh' /\ Bound' /\ OneLook'
    BY DEF TypeOK, Fresh, Bound, OneLook, Procs
  <2>3. \A q \in Manages : Guarded(q)' => Guarded(q)
    BY DEF TypeOK, OneLook, Guarded, Alive, Procs
  <2> QED BY <2>1, <2>2, <2>3 DEF Locked
<1> QED BY <1>1, <1>2, <1>3, <1>4

LEMMA TryLockKeeps ==
  ASSUME IInv, NEW p \in Manages, TryLock(p)
  PROVE  IInv'
<1>0. p \in Procs
  BY DEF Procs
<1>1. CASE lock = {}
  <2> USE <1>0, <1>1 DEF IInv, TryLock, Goto, serverVars
  <2>1. TypeOK'
    BY DEF TypeOK
  <2>2. Fresh' /\ Bound' /\ OneLook'
    BY DEF TypeOK, Fresh, Bound, OneLook, Procs
  <2>3. \A q \in Manages : Guarded(q)' => q = p \/ Guarded(q)
    BY DEF TypeOK, Guarded, Alive, Procs
  <2> QED BY <2>1, <2>2, <2>3 DEF Locked
<1>2. CASE lock # {}
  BY <1>0, <1>2, FailKeeps DEF TryLock, IInv, TypeOK
<1> QED BY <1>1, <1>2

LEMMA BindKeeps ==
  ASSUME IInv, NEW p \in Procs, Bind(p)
  PROVE  IInv'
<1>1. CASE CallFails(p)
  BY <1>1, FailKeeps DEF Bind, IInv, TypeOK
<1>2. CASE ~CallFails(p)
  <2> USE <1>2 DEF IInv, Bind, Goto
  <2>0. made[p] \in 0..MaxServers /\ made[p] < MaxServers /\ (p \in Manages => made[p] < 1)
    BY ProcsAssumption DEF TypeOK
  <2>4. made[p] + 1 \in 0..MaxServers /\ made' = [made EXCEPT ![p] = made[p] + 1]
    BY <2>0, ProcsAssumption
  <2>5. made' \in [Procs -> 0..MaxServers] /\ \A q \in Manages : made'[q] <= 1
    BY <2>0, <2>4 DEF TypeOK, Procs
  <2>6. /\ at' \in [Procs -> Places]
        /\ UNCHANGED <<rec, open, lock, look, seen, hint, target, idle, expired, exiting, busy,
                        fresh>>
    BY DEF TypeOK, Places
  <2>1. TypeOK'
    BY <2>5, <2>6 DEF TypeOK, Places
  <2>2. Fresh' /\ Bound' /\ OneLook'
    BY <2>0, ProcsAssumption DEF TypeOK, Fresh, Bound, OneLook, Procs
  <2>3. \A q \in Manages : Guarded(q)' => Guarded(q)
    BY DEF TypeOK, Guarded, Alive, Procs
  <2> QED BY <2>1, <2>2, <2>3 DEF Locked
<1> QED BY <1>1, <1>2

LEMMA TruncateKeeps ==
  ASSUME IInv, NEW p \in Procs, Truncate(p)
  PROVE  IInv'
<1>1. CASE CallFails(p) /\ UNCHANGED rec
  BY <1>1, FailKeeps DEF Truncate, IInv, TypeOK
<1>2. CASE ~(CallFails(p) /\ UNCHANGED rec)
  <2> USE <1>2 DEF IInv, Truncate, Goto, serverVars
  <2>1. TypeOK'
    BY DEF TypeOK
  <2>2. Fresh' /\ Bound' /\ OneLook'
    BY DEF TypeOK, Fresh, Bound, OneLook, Procs
  <2>3. \A q \in Manages : Guarded(q)' => Guarded(q)
    BY DEF TypeOK, Bound, Guarded, Alive, Procs
  <2> QED BY <2>1, <2>2, <2>3 DEF Locked
<1> QED BY <1>1, <1>2

LEMMA WriteKeeps ==
  ASSUME IInv, NEW p \in Procs, Write(p)
  PROVE  IInv'
<1>1. CASE CallFails(p) /\ UNCHANGED rec
  BY <1>1, FailKeeps DEF Write, IInv, TypeOK
<1>2. CASE ~(CallFails(p) /\ UNCHANGED rec)
  <2> USE <1>2 DEF IInv, Write, Goto, serverVars
  <2>0. Newest(p) \in Servers
    BY ProcsAssumption DEF TypeOK, Bound, Newest, Servers, Procs
  <2>1. rec' \in Servers \cup {None, Blank} /\ open' \subseteq Procs
        /\ fresh' \subseteq Procs \cup Servers /\ UNCHANGED <<lock, serverVars>>
    BY <2>0 DEF TypeOK
  <2>2. /\ at' \in [Procs -> Places] /\ look' \in [Procs -> {"first", "again", "refresh"}]
        /\ seen' \in [Procs -> Servers \cup {None}]
    BY DEF TypeOK, Places
  <2>3. /\ hint' \in [Procs -> Servers \cup {None}] /\ \A q \in Manages : hint'[q] = None
        /\ target' \in [Procs -> Servers \cup {None}]
    BY <2>0, ProcsAssumption DEF TypeOK, Procs
  <2>4. TypeOK'
    BY <2>1, <2>2, <2>3 DEF TypeOK, Places
  <2>5. Fresh' /\ Bound' /\ OneLook'
    BY DEF TypeOK, Fresh, Bound, OneLook, Procs
  <2>6. \A q \in Manages : Guarded(q)' => Guarded(q)
    BY DEF TypeOK, Bound, Guarded, Alive, Procs
  <2> QED BY <2>4, <2>5, <2>6 DEF Locked
<1> QED BY <1>1, <1>2

\* SIGINT, or the idle thread, with the record its own.
LEMMA StopKeeps ==
  ASSUME IInv, NEW p \in Procs, Stop(p)
  PROVE  IInv'
<1>1. CASE Owns(p)
  <2> USE <1>1 DEF IInv, Stop, Goto, serverVars
  <2>1. TypeOK'
    BY DEF TypeOK
  <2>2. Fresh' /\ Bound' /\ OneLook'
    BY DEF TypeOK, Fresh, Bound, OneLook, Procs
  <2>3. \A q \in Manages : Guarded(q)' => Guarded(q)
    BY DEF TypeOK, Guarded, Alive, Procs
  <2> QED BY <2>1, <2>2, <2>3 DEF Locked
<1>2. CASE ~Owns(p)
  BY <1>2, EndKeeps DEF Stop, End, IInv, TypeOK
<1> QED BY <1>1, <1>2

LEMMA ServerKeeps ==
  ASSUME IInv, NEW s \in Servers, ServerStep(s)
  PROVE  IInv'
<1>0. Owner(s) \in Procs
  BY OwnerType
<1>1. CASE End(Owner(s)) /\ (rec' = None \/ UNCHANGED rec)
  BY <1>0, <1>1, EndKeeps DEF End, IInv, TypeOK
<1>2. CASE ~(End(Owner(s)) /\ (rec' = None \/ UNCHANGED rec))
  <2> USE <1>0, <1>2 DEF IInv, ServerStep, IdleThread, Age, Request, Occupy, Release, Expire,
                       IdleReadOwn, IdleUnlink
  <2>1. /\ UNCHANGED <<rec, open, lock, procVars, made>>
        /\ idle' \subseteq idle \cup {s} /\ exiting' \subseteq exiting \cup {s}
        /\ busy' \subseteq busy \cup {s} /\ fresh' \subseteq fresh \cup {s}
        /\ \/ UNCHANGED expired
           \/ expired' = expired \cup {s} /\ Owner(s) \notin Manages
    OBVIOUS
  <2>2. TypeOK'
    BY <2>1 DEF TypeOK, procVars
  <2>3. Fresh' /\ Bound' /\ OneLook' /\ Locked'
    BY <2>1 DEF Fresh, Bound, OneLook, Locked, Guarded, Alive, procVars
  <2> QED BY <2>2, <2>3
<1> QED BY <1>1, <1>2

LEMMA NextKeeps == IInv /\ [Next]_vars => IInv'
<1> SUFFICES ASSUME IInv, [Next]_vars PROVE IInv'
  OBVIOUS
<1>1. ASSUME NEW p \in Procs, Launch(p) \/ Step(p) \/ Stop(p) \/ Die(p)
      PROVE  IInv'
  <2>1. CASE Launch(p)      BY <2>1, LaunchKeeps
  <2>2. CASE ReadRecord(p)  BY <2>2, ReadRecordKeeps
  <2>3. CASE Probe(p)       BY <2>3, ProbeKeeps
  <2>4. CASE Remove(p)      BY <2>4, RemoveKeeps
  <2>5. CASE ProbeHint(p)   BY <2>5, ProbeHintKeeps
  <2>6. CASE TryLock(p)
    <3>1. p \in Manages
      BY <2>6 DEF TryLock, IInv, OneLook, Procs
    <3> QED BY <2>6, <3>1, TryLockKeeps
  <2>7. CASE Bind(p)        BY <2>7, BindKeeps
  <2>8. CASE Truncate(p)    BY <2>8, TruncateKeeps
  <2>9. CASE Write(p)       BY <2>9, WriteKeeps
  <2>10. CASE Stop(p)       BY <2>10, StopKeeps
  <2>11. CASE Unlink(p) \/ Die(p)
    BY <2>11, EndKeeps DEF Unlink, Die, End, IInv, TypeOK
  <2> QED BY <1>1, <2>1, <2>2, <2>3, <2>4, <2>5, <2>6, <2>7, <2>8, <2>9, <2>10, <2>11 DEF Step
<1>2. ASSUME NEW p \in Mcps, NEW kind \in {"first", "refresh"}, Call(p, kind)
      PROVE  IInv'
  BY <1>2, CallKeeps
<1>3. ASSUME NEW s \in Servers, ServerStep(s)
      PROVE  IInv'
  BY <1>3, ServerKeeps
<1>4. CASE UNCHANGED vars
  BY <1>4 DEF vars, procVars, serverVars, IInv, TypeOK, Fresh, Bound, OneLook, Locked, Guarded,
     Alive
<1> QED BY <1>1, <1>2, <1>3, <1>4 DEF Next, Over

-----------------------------------------------------------------------------
\* IInv holds always.
THEOREM Invariance == Spec => []IInv
BY InitIInv, NextKeeps, PTL DEF Spec

\* Types: the record is a server, nothing or torn, whoever writes and dies; and
\* the session of a standalone server never expires.
THEOREM TypeCorrect == Spec => []TypeOK
<1>1. IInv => TypeOK
  BY DEF IInv
<1> QED BY <1>1, Invariance, PTL

\* However many brokre manage start, die and remove the record at each other's
\* steps, at most one server of theirs is up.
THEOREM StandaloneIsOne == Spec => []OneStandalone
<1>1. IInv => OneStandalone
  <2> SUFFICES ASSUME IInv, NEW p \in Manages, NEW q \in Manages,
                      Up(<<p, 1>>), Up(<<q, 1>>)
               PROVE  p = q
    BY DEF OneStandalone
  <2>1. Guarded(p) /\ Guarded(q)
    BY ServerOfManage DEF Up, Owner, Guarded
  <2> QED BY <2>1 DEF IInv, Locked
<1> QED BY <1>1, Invariance, PTL

-----------------------------------------------------------------------------
(* The record of a server that answers. A thread that begins when the record is *)
(* written reads this record or none; before it may remove the record or        *)
(* register a server of its own it has found that the server does not answer,   *)
(* which is final.                                                              *)

\* A server on record has been started.
Registered == rec \in Servers => rec[2] <= made[Owner(rec)]

\* What a thread that began after the record was written makes of it: it has
\* read it, it found that its server does not answer, or it is its own. It does
\* not go on to register another.
Heeds(p) ==
  /\ at[p] \in {"probe", "remove"} => seen[p] = rec
  /\ at[p] = "remove" => ~Answers(rec)
  /\ at[p] \notin {"hint", "bind", "truncate", "write"}
  /\ at[p] = "unlink" => Owner(rec) = p
Watched ==
  rec \in Servers => /\ \A p \in Procs \cap fresh : Heeds(p)
                     /\ \A s \in exiting \cap fresh : rec = s

NoServer == None \notin Servers /\ Blank \notin Servers

LEMMA NoServers == NoServer
BY DEF NoServer, None, Blank, Servers

\* A process that has ended stays so, and an expired session ends with its
\* process.
Later ==
  /\ \A q \in Procs : at[q] = "gone" => at'[q] = "gone"
  /\ \A s \in expired : s \in expired' \/ at'[Owner(s)] = "gone"

\* Thread p takes a step, the record stays.
Moves(p) ==
  /\ \A q \in Procs \ {p} : at'[q] = at[q] /\ seen'[q] = seen[q] /\ (q \in fresh' => q \in fresh)
  /\ \A s \in exiting' \cap fresh' : s \in exiting \cap fresh \/ rec = s
  /\ \A q \in Procs : made[q] <= made'[q]

\* A server that does not answer never does again.
LEMMA Silent ==
  ASSUME IInv, Registered, Later, rec \in Servers, ~Answers(rec), rec' = rec
  PROVE  ~Answers(rec)'
<1>1. Owner(rec) \in Procs /\ rec[2] \in Nat \ {0} /\ rec[2] <= made[Owner(rec)]
  BY OwnerType, ProcsAssumption DEF Servers, Registered
<1>2. at[Owner(rec)] # "off"
  BY <1>1 DEF IInv, Fresh
<1>3. CASE at[Owner(rec)] = "gone"
  BY <1>1, <1>3 DEF Later, Answers, Up, Alive
<1>4. CASE at[Owner(rec)] # "gone"
  <2>1. rec \in expired
    BY <1>1, <1>2, <1>4 DEF Answers, Up, Alive
  <2> QED
    BY <1>1, <2>1 DEF Later, Answers, Up, Alive
<1> QED
  BY <1>3, <1>4

\* Where the record stays, only the thread that moves need be looked at.
LEMMA MovesKeep ==
  ASSUME IInv, IInv', Registered, Watched, NEW p \in Procs, Later, Moves(p), rec' = rec,
         rec \in Servers /\ p \in fresh' => Heeds(p)'
  PROVE  Registered' /\ Watched'
<1>1. Registered'
  <2>1. CASE rec \in Servers
    <3>1. /\ Owner(rec) \in Procs /\ rec[2] \in Nat /\ rec[2] <= made[Owner(rec)]
          /\ made[Owner(rec)] <= made'[Owner(rec)] /\ made[Owner(rec)] \in Nat
      BY <2>1, OwnerType, ProcsAssumption DEF Servers, Registered, Moves, IInv, TypeOK
    <3>2. made'[Owner(rec)] \in Nat
      BY <3>1 DEF IInv, TypeOK
    <3> QED
      BY <3>1, <3>2 DEF Registered
  <2>2. CASE rec \notin Servers
    BY <2>2 DEF Registered
  <2> QED
    BY <2>1, <2>2
<1>2. ASSUME rec \in Servers, NEW q \in Procs \cap fresh' PROVE Heeds(q)'
  <2>1. CASE q = p
    BY <1>2, <2>1
  <2>2. CASE q # p
    <3>1. Heeds(q) /\ at'[q] = at[q] /\ seen'[q] = seen[q]
      BY <1>2, <2>2 DEF Moves, Watched
    <3>2. ~Answers(rec) => ~Answers(rec)'
      BY <1>2, Silent
    <3> QED
      BY <3>1, <3>2 DEF Heeds
  <2> QED
    BY <2>1, <2>2
<1>3. Watched'
  BY <1>2 DEF Watched, Moves
<1> QED
  BY <1>1, <1>3

\* A record that is no server's is nobody's to heed.
LEMMA GoneKeeps ==
  ASSUME rec' \notin Servers
  PROVE  Registered' /\ Watched'
BY DEF Registered, Watched

\* A process that ends, or returns from its call, forgets.
LEMMA EndLater ==
  ASSUME IInv, NEW p \in Procs, NEW asked, EndAfterAsking(p, asked)
  PROVE  Later /\ Moves(p) /\ p \notin fresh'
<1>1. /\ at \in [Procs -> Places] /\ seen \in [Procs -> Servers \cup {None}]
      /\ expired \subseteq Servers /\ made \in [Procs -> 0..MaxServers] /\ MaxServers \in Nat
  BY ProcsAssumption DEF IInv, TypeOK, Places
<1>2. Later
  BY <1>1 DEF EndAfterAsking, Goto, Later
<1>3. /\ \A q \in Procs \ {p} :
           at'[q] = at[q] /\ seen'[q] = seen[q] /\ (q \in fresh' => q \in fresh)
      /\ p \notin fresh' /\ exiting' \subseteq exiting /\ fresh' \subseteq fresh
  BY <1>1 DEF EndAfterAsking, Goto
<1>4. \A q \in Procs : made[q] <= made'[q]
  BY <1>1 DEF EndAfterAsking
<1> QED
  BY <1>2, <1>3, <1>4 DEF Moves

LEMMA ReturnLater ==
  ASSUME IInv, NEW p \in Procs, at[p] # "gone", Return(p), UNCHANGED <<made, expired, exiting>>
  PROVE  Later /\ Moves(p) /\ p \notin fresh'
<1>1. /\ at \in [Procs -> Places] /\ seen \in [Procs -> Servers \cup {None}]
      /\ made \in [Procs -> 0..MaxServers] /\ MaxServers \in Nat
  BY ProcsAssumption DEF IInv, TypeOK, Places
<1>2. /\ at' = [at EXCEPT ![p] = "free"] /\ seen' = [seen EXCEPT ![p] = None]
      /\ fresh' = fresh \ {p}
  BY DEF Return, Goto
<1>3. Later
  BY <1>1, <1>2 DEF Later
<1>4. \A q \in Procs : made[q] <= made'[q]
  BY <1>1
<1> QED
  BY <1>1, <1>2, <1>3, <1>4 DEF Moves

\* Whatever a failing call does, it is over.
LEMMA FailLater ==
  ASSUME IInv, NEW p \in Procs, at[p] # "gone", CallFails(p)
  PROVE  Later /\ Moves(p) /\ p \notin fresh'
BY EndLater, ReturnLater DEF CallFails, End

LEMMA FoundLater ==
  ASSUME IInv, NEW p \in Procs, at[p] # "gone", NEW s, Found(p, s)
  PROVE  Later /\ Moves(p) /\ p \notin fresh'
BY EndLater, ReturnLater DEF Found

\* A step of a process within its call.
LEMMA StepLater ==
  ASSUME IInv, NEW p \in Procs, at[p] # "gone",
         NEW step, at' = [at EXCEPT ![p] = step],
         seen' = seen \/ (\E s : seen' = [seen EXCEPT ![p] = s]),
         fresh' \subseteq fresh \cup {p},
         UNCHANGED <<expired, exiting>>,
         made' = made \/ made' = [made EXCEPT ![p] = @ + 1]
  PROVE  Later /\ Moves(p)
<1>1. /\ at \in [Procs -> Places] /\ seen \in [Procs -> Servers \cup {None}]
      /\ made \in [Procs -> 0..MaxServers] /\ MaxServers \in Nat
  BY ProcsAssumption DEF IInv, TypeOK, Places
<1>2. Later
  BY <1>1 DEF Later
<1>3. \A q \in Procs : made[q] <= made'[q]
  BY <1>1
<1>4. \A q \in Procs \ {p} : at'[q] = at[q] /\ seen'[q] = seen[q] /\ (q \in fresh' => q \in fresh)
  BY <1>1
<1>5. p \notin exiting
  BY ServersAssumption DEF IInv, TypeOK
<1>6. \A s \in exiting' \cap fresh' : s \in exiting \cap fresh \/ rec = s
  BY <1>5
<1> QED
  BY <1>2, <1>3, <1>4, <1>6 DEF Moves

-----------------------------------------------------------------------------
(* One step per action. *)

LEMMA StepWatched ==
  ASSUME IInv, IInv', Registered, Watched,
         NEW p \in Procs, Launch(p) \/ Step(p) \/ Stop(p) \/ Die(p)
  PROVE  Registered' /\ Watched'
<1>1. /\ at \in [Procs -> Places] /\ seen \in [Procs -> Servers \cup {None}]
      /\ rec \in Servers \cup {None, Blank} /\ NoServer
      /\ rec \in Servers /\ p \in fresh => Heeds(p)
  BY NoServers DEF IInv, TypeOK, Places, Watched
<1>2. CASE Launch(p)
  <2>1. Later /\ Moves(p)
    BY <1>2, StepLater DEF Launch, Goto, serverVars
  <2>2. at'[p] \in {"read", "free"}
    BY <1>1, <1>2 DEF Launch, Goto
  <2> QED
    BY <1>2, <2>1, <2>2, MovesKeep DEF Launch, Heeds
<1>3. CASE ReadRecord(p)
  <2>1. CASE rec \in Servers
    <3>1. /\ at' = [at EXCEPT ![p] = "probe"] /\ seen' = [seen EXCEPT ![p] = rec]
          /\ UNCHANGED <<rec, serverVars, fresh>> /\ at[p] = "read"
      BY <1>3, <2>1 DEF ReadRecord, Goto
    <3>2. Later /\ Moves(p)
      BY <3>1, StepLater DEF serverVars
    <3>3. Heeds(p)'
      BY <1>1, <3>1 DEF Heeds
    <3> QED
      BY <3>1, <3>2, <3>3, MovesKeep
  <2>2. CASE rec \notin Servers
    BY <1>3, <2>2, GoneKeeps DEF ReadRecord
  <2> QED
    BY <2>1, <2>2
<1>4. CASE Probe(p)
  <2>1. CASE Answers(seen[p])
    BY <1>4, <2>1, FoundLater, MovesKeep DEF Probe
  <2>2. CASE ~Answers(seen[p])
    <3>1. /\ at' = [at EXCEPT ![p] = "remove"] /\ at[p] = "probe"
          /\ UNCHANGED <<rec, seen, serverVars, fresh>>
      BY <1>4, <2>2 DEF Probe, Goto
    <3>2. Later /\ Moves(p)
      BY <3>1, StepLater DEF serverVars
    <3>3. rec \in Servers /\ p \in fresh => seen[p] = rec /\ ~Answers(rec)
      BY <1>1, <2>2, <3>1 DEF Heeds
    <3>4. rec \in Servers /\ p \in fresh' => Heeds(p)'
      BY <1>1, <3>1, <3>2, <3>3, Silent DEF Heeds
    <3> QED
      BY <3>1, <3>2, <3>4, MovesKeep
  <2> QED
    BY <2>1, <2>2
<1>5. CASE Remove(p)
  BY <1>1, <1>5, GoneKeeps DEF Remove, NoServer
<1>6. CASE ProbeHint(p)
  <2>1. at[p] = "hint" /\ rec' = rec
    BY <1>6 DEF ProbeHint
  <2>2. CASE (\E s : Found(p, s)) \/ CallFails(p)
    BY <2>1, <2>2, FoundLater, FailLater, MovesKeep
  <2>3. CASE Goto(p, "bind") /\ UNCHANGED <<open, lock, look, seen, target, serverVars, fresh>>
    <3>1. Later /\ Moves(p)
      BY <2>1, <2>3, StepLater DEF Goto, serverVars
    <3>2. rec \in Servers => p \notin fresh'
      BY <1>1, <2>1, <2>3 DEF Heeds
    <3> QED
      BY <2>1, <3>1, <3>2, MovesKeep
  <2> QED
    BY <1>6, <2>2, <2>3 DEF ProbeHint
<1>7. CASE TryLock(p)
  <2>1. CASE lock = {}
    <3>1. /\ at' = [at EXCEPT ![p] = "read"] /\ at[p] = "lock"
          /\ UNCHANGED <<rec, seen, serverVars, fresh>>
      BY <1>7, <2>1 DEF TryLock, Goto
    <3>2. Later /\ Moves(p)
      BY <3>1, StepLater DEF serverVars
    <3>3. Heeds(p)'
      BY <1>1, <3>1 DEF Heeds
    <3> QED
      BY <3>1, <3>2, <3>3, MovesKeep
  <2>2. CASE lock # {}
    BY <1>7, <2>2, FailLater, MovesKeep DEF TryLock
  <2> QED
    BY <2>1, <2>2
<1>8. CASE Bind(p)
  <2>1. at[p] = "bind" /\ rec' = rec
    BY <1>8 DEF Bind
  <2>2. CASE CallFails(p)
    BY <2>1, <2>2, FailLater, MovesKeep
  <2>3. CASE ~CallFails(p)
    <3>1. /\ at' = [at EXCEPT ![p] = "truncate"] /\ made' = [made EXCEPT ![p] = @ + 1]
          /\ UNCHANGED <<seen, expired, exiting, fresh>>
      BY <1>8, <2>3 DEF Bind, Goto
    <3>2. Later /\ Moves(p)
      BY <2>1, <3>1, StepLater
    <3>3. rec \in Servers => p \notin fresh'
      BY <1>1, <2>1, <3>1 DEF Heeds
    <3> QED
      BY <2>1, <3>2, <3>3, MovesKeep
  <2> QED
    BY <2>2, <2>3
<1>9. CASE Truncate(p)
  <2>1. CASE CallFails(p) /\ UNCHANGED rec
    BY <1>9, <2>1, FailLater, MovesKeep DEF Truncate
  <2>2. CASE rec' = Blank
    BY <1>1, <2>2, GoneKeeps DEF NoServer
  <2> QED
    BY <1>9, <2>1, <2>2 DEF Truncate
<1>10. CASE Write(p)
  <2>1. CASE CallFails(p) /\ UNCHANGED rec
    BY <1>10, <2>1, FailLater, MovesKeep DEF Write
  <2>2. CASE ~(CallFails(p) /\ UNCHANGED rec) /\ p \in open
    <3>1. /\ rec' = Newest(p) \/ rec' = Blank
          /\ fresh' = {} /\ made' = made
      BY <1>10, <2>2 DEF Write, serverVars
    <3>2. Registered'
      <4>1. CASE rec' = Blank
        BY <1>1, <4>1, GoneKeeps DEF NoServer
      <4>2. CASE rec' = Newest(p)
        <5>1. made[p] \in 0..MaxServers /\ MaxServers \in Nat
          BY ProcsAssumption DEF IInv, TypeOK
        <5>2. made[p] <= made[p]
          BY <5>1
        <5> QED
          BY <3>1, <4>2, <5>2 DEF Registered, Newest, Owner
      <4> QED
        BY <3>1, <4>1, <4>2
    <3> QED
      BY <3>1, <3>2 DEF Watched
  <2>3. CASE ~(CallFails(p) /\ UNCHANGED rec) /\ p \notin open
    <3>1. /\ UNCHANGED <<rec, serverVars>> /\ fresh' = fresh \ {p} /\ at[p] = "write"
          /\ seen' = [seen EXCEPT ![p] = None]
          /\ \E step : at' = [at EXCEPT ![p] = step]
      BY <1>10, <2>3 DEF Write, Goto
    <3>2. Later /\ Moves(p)
      BY <3>1, StepLater DEF serverVars
    <3> QED
      BY <3>1, <3>2, MovesKeep
  <2> QED
    BY <2>1, <2>2, <2>3
<1>11. CASE Unlink(p)
  BY <1>1, <1>11, GoneKeeps DEF Unlink, NoServer
<1>12. CASE Stop(p)
  <2>1. CASE Owns(p)
    <3>1. /\ at' = [at EXCEPT ![p] = "unlink"] /\ fresh' = fresh \cup {p}
          /\ UNCHANGED <<rec, seen, serverVars>> /\ at[p] = "serving"
      BY <1>12, <2>1 DEF Stop, Goto
    <3>2. Later /\ Moves(p)
      BY <3>1, StepLater DEF serverVars
    <3>3. Heeds(p)'
      BY <1>1, <2>1, <3>1 DEF Heeds, Owns
    <3> QED
      BY <3>1, <3>2, <3>3, MovesKeep
  <2>2. CASE ~Owns(p)
    BY <1>12, <2>2, EndLater, MovesKeep DEF Stop, End
  <2> QED
    BY <2>1, <2>2
<1>13. CASE Die(p)
  BY <1>13, EndLater, MovesKeep DEF Die, End
<1> QED
  BY <1>2, <1>3, <1>4, <1>5, <1>6, <1>7, <1>8, <1>9, <1>10, <1>11, <1>12, <1>13 DEF Step

LEMMA CallWatched ==
  ASSUME IInv, IInv', Registered, Watched, NEW p \in Mcps, NEW kind, Call(p, kind)
  PROVE  Registered' /\ Watched'
<1>1. /\ at' = [at EXCEPT ![p] = "read"] /\ fresh' = fresh \cup {p} /\ at[p] = "free"
      /\ seen' = [seen EXCEPT ![p] = None] /\ UNCHANGED <<rec, serverVars>>
  BY DEF Call, Goto
<1>2. Later /\ Moves(p) /\ p \in Procs
  BY <1>1, StepLater DEF serverVars, Procs
<1>3. Heeds(p)'
  BY <1>1, <1>2 DEF Heeds, IInv, TypeOK
<1> QED
  BY <1>1, <1>2, <1>3, MovesKeep

\* A standalone brokre manage has one server, so the record that is its own is
\* that server's.
LEMMA OneServer ==
  ASSUME NEW s \in Servers, NEW r \in Servers, Owner(s) \in Manages, Owner(r) = Owner(s)
  PROVE  r = s
BY ProcsAssumption DEF Servers, Owner

LEMMA ServerWatched ==
  ASSUME IInv, IInv', Registered, Watched, NEW s \in Servers, ServerStep(s)
  PROVE  Registered' /\ Watched'
<1>1. /\ at \in [Procs -> Places] /\ seen \in [Procs -> Servers \cup {None}]
      /\ made \in [Procs -> 0..MaxServers] /\ MaxServers \in Nat /\ expired \subseteq Servers
      /\ NoServer /\ Owner(s) \in Procs /\ s \notin Procs
      /\ \A q \in Procs : made[q] <= made[q]
  BY NoServers, OwnerType, ProcsAssumption, ServersAssumption DEF IInv, TypeOK, Places
<1>2. CASE End(Owner(s)) /\ (rec' = None \/ UNCHANGED rec)
  BY <1>1, <1>2, EndLater, MovesKeep, GoneKeeps DEF End, NoServer
<1>3. CASE ~(End(Owner(s)) /\ (rec' = None \/ UNCHANGED rec))
  <2>1. /\ UNCHANGED <<rec, at, seen, made>> /\ expired \subseteq expired'
        /\ fresh' \subseteq fresh \cup {s}
        /\ \/ exiting' = exiting /\ fresh' = fresh
           \/ /\ exiting' = exiting \cup {s} /\ Owner(s) \in Manages
              /\ Owns(Owner(s))
    BY <1>3 DEF ServerStep, IdleThread, Age, Request, Occupy, Release, Expire,
                   IdleReadOwn, IdleUnlink, procVars
  <2>2. \A x \in exiting' \cap fresh' : x \in exiting \cap fresh \/ rec = x
    BY <2>1, OneServer DEF Owns
  <2>3. Later /\ Moves(Owner(s))
    BY <1>1, <2>1, <2>2 DEF Later, Moves
  <2>4. rec \in Servers /\ Owner(s) \in fresh' => Heeds(Owner(s))'
    <3>1. rec \in Servers /\ Owner(s) \in fresh' => Heeds(Owner(s))
      BY <1>1, <2>1 DEF Watched
    <3> QED
      BY <2>1, <2>3, <3>1, Silent DEF Heeds
  <2> QED
    BY <1>1, <2>1, <2>3, <2>4, MovesKeep
<1> QED
  BY <1>2, <1>3

LEMMA NextWatched ==
  IInv /\ Registered /\ Watched /\ [Next]_vars => Registered' /\ Watched'
<1> SUFFICES ASSUME IInv, Registered, Watched, [Next]_vars
             PROVE  Registered' /\ Watched'
  OBVIOUS
<1>1. IInv'
  BY NextKeeps
<1>2. CASE UNCHANGED vars
  BY <1>2 DEF vars, procVars, serverVars, Registered, Watched, Heeds, Answers, Up, Alive
<1> QED
  BY <1>1, <1>2, StepWatched, CallWatched, ServerWatched DEF Next, Over

\* What a thread that began after the record was written knows of it, always.
THEOREM Watchful == Spec => [](Registered /\ Watched)
<1>1. Init => Registered /\ Watched
  BY NoServers DEF NoServer, Init, Registered, Watched
<1> QED
  BY <1>1, NextWatched, Invariance, PTL DEF Spec

\* A thread that takes the record away is the server's own, or was under way
\* when the record was written.
LEMMA StepTakes ==
  ASSUME IInv, IInv', Watched, NEW p \in Procs, Launch(p) \/ Step(p) \/ Stop(p) \/ Die(p),
         rec \in Servers, Answers(rec), rec' # rec
  PROVE  Changes(p) /\ (p \notin fresh \/ p = Owner(rec))
<1>1. at \in [Procs -> Places] /\ (p \in fresh => Heeds(p))
  BY DEF IInv, TypeOK, Places, Watched
<1>2. Remove(p) \/ Truncate(p) \/ Write(p) \/ Unlink(p)
  BY DEF Launch, Step, Stop, Die, ReadRecord, Probe, ProbeHint, TryLock, Bind
<1>3. at[p] \in {"remove", "truncate", "write", "unlink"}
  BY <1>2 DEF Remove, Truncate, Write, Unlink
<1>4. at'[p] # at[p]
  <2>1. CASE Remove(p)
    <3>1. at[p] = "remove" /\ NotFound(p) /\ look[p] \in {"first", "again", "refresh"}
      BY <2>1 DEF Remove, IInv, TypeOK
    <3> QED
      BY <1>1, <3>1 DEF NotFound
  <2>2. CASE Truncate(p)
    BY <1>1, <2>2 DEF Truncate, Goto
  <2>3. CASE Write(p)
    BY <1>1, <2>3 DEF Write, Goto
  <2>4. CASE Unlink(p)
    BY <1>1, <2>4 DEF Unlink, End, EndAfterAsking, Goto
  <2> QED
    BY <1>2, <2>1, <2>2, <2>3, <2>4
<1>5. p \in fresh => p = Owner(rec)
  BY <1>1, <1>3 DEF Heeds
<1> QED
  BY <1>3, <1>4, <1>5 DEF Changes

LEMMA ServerTakes ==
  ASSUME IInv, Watched, NEW s \in Servers, ServerStep(s),
         rec \in Servers, rec' # rec
  PROVE  Changes(s) /\ (s \notin fresh \/ s = rec)
<1>1. IdleUnlink(s)
  BY DEF ServerStep, IdleThread, Age, Request, Occupy, Release, Expire, IdleReadOwn
<1>2. s \in exiting \ exiting'
  BY <1>1 DEF IdleUnlink, End, EndAfterAsking
<1> QED
  BY <1>2 DEF Watched, Changes

\* The record of a server that answers is taken away by nobody who came after
\* it, for any number of processes and servers, whoever starts, stops, dies or
\* expires at each other's steps.
THEOREM RecordStays == Spec => RecordKept
<1> DEFINE Safe == \A s \in Servers :
                     rec = s /\ Answers(s) /\ rec' # s =>
                       \E t \in Procs \cup Servers :
                         Changes(t) /\ (t \notin fresh \/ t \in {s, Owner(s)})
<1>1. IInv /\ IInv' /\ Watched /\ [Next]_vars => Safe
  <2> SUFFICES ASSUME IInv, IInv', Watched, [Next]_vars, rec \in Servers, Answers(rec), rec' # rec
               PROVE  \E t \in Procs \cup Servers :
                        Changes(t) /\ (t \notin fresh \/ t \in {rec, Owner(rec)})
    OBVIOUS
  <2>1. \/ \E p \in Procs : Launch(p) \/ Step(p) \/ Stop(p) \/ Die(p)
        \/ \E s \in Servers : ServerStep(s)
    BY DEF Next, Call, Over, vars
  <2> QED
    BY <2>1, StepTakes, ServerTakes
<1>2. IInv /\ Watched /\ [Next]_vars => [Safe]_vars
  BY <1>1, NextKeeps
<1> QED
  BY <1>2, Invariance, Watchful, PTL DEF Spec, RecordKept
=============================================================================
