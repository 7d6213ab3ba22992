----------------------- MODULE BastionSession_proofs ------------------------
(***************************************************************************)
(* Proofs about BastionSession: type correctness, the admission bound and  *)
(* the finality of a lock, for any number of threads, any limits and any   *)
(* interleaving.                                                           *)
(***************************************************************************)
EXTENDS BastionSession, TLAPS

\* Labels at which a thread's copy of the session is of no consequence.
FreePCs == {"idle", "load", "touch", "prompt", "find", "acquire", "elicit",
            "poll", "ask"}

\* Every control step that does not load or save: the thread moves to a free
\* label and its copy is dropped or was of no consequence already.
Freed(p) ==
  /\ \E l \in FreePCs : pc' = [pc EXCEPT ![p] = l]
  /\ hand' = [hand EXCEPT ![p] = Absent]

\* At every other label it holds a session.
HandInv == \A p \in Procs : pc[p] \notin FreePCs => hand[p] \in Session

\* A session in the file or in hand carries the deadlines of its unlock and of
\* its latest renewal.
Honest(s) ==
  /\ s.uid <= issued
  /\ s.expires_at = granted[s.uid] + MaxLifetime
  /\ s.idle_expires_at <= lastUse[s.uid] + IdleLimit

GrantInv ==
  /\ \A u \in Uids : lastUse[u] <= now
  /\ file \in Session => Honest(file)
  /\ \A p \in Procs : hand[p] \in Session => Honest(hand[p])

\* What a lock relies on: which sessions may be in the file or on the way to
\* it.
RevokeInv ==
  /\ \A u \in saved : u <= issued
  /\ revoked \subseteq saved
  /\ file \in Session => file.uid \in saved
  /\ \A p \in Procs : pc[p] \in {"check", "purge", "touch_trunc", "touch_write"}
                        => hand[p].uid \in saved
  /\ \A p \in Procs : pc[p] \in {"unlock_trunc", "unlock_write"}
                        => hand[p].uid \notin saved
  /\ \A p, q \in Procs : /\ pc[p] \in {"unlock_trunc", "unlock_write"}
                         /\ pc[q] \in {"unlock_trunc", "unlock_write"}
                         /\ hand[p].uid = hand[q].uid
                         => p = q

IInv == TypeOK /\ HandInv /\ GrantInv /\ RevokeInv /\ RevokedStaysDead

-----------------------------------------------------------------------------
\* The callers of is_unlocked only ever free their copy.
LEMMA CallersFree ==
  ASSUME NEW p \in Procs, Admitted(p) \/ Denied(p) \/ Return(p)
  PROVE  Freed(p)
BY DEF Admitted, Denied, Return, Goto, Ask, Freed, FreePCs

\* ... and keep their own variables well typed.
LEMMA CallersTyped ==
  ASSUME TypeOK, NEW p \in Procs, Admitted(p) \/ Denied(p) \/ Return(p)
  PROVE  /\ pc' \in [Procs -> PCs]
         /\ site' \in [Procs -> Sites]
         /\ mode' \in [Procs -> AllModes]
         /\ hand' \in [Procs -> Session \cup {Absent}]
         /\ opener' \in SUBSET Procs
         /\ polls' \in [Procs -> 0..PollLimit]
BY ParameterAssumption DEF Admitted, Denied, Return, Goto, Ask, TypeOK, PCs,
   Sites, AllModes

-----------------------------------------------------------------------------
\* A thread that renews or unlocks takes a well-formed session in hand.
LEMMA NewSessions ==
  ASSUME TypeOK
  PROVE  /\ file \in Session =>
              /\ file.uid \in Uids
              /\ [file EXCEPT !.idle_expires_at = now + IdleLimit] \in Session
         /\ issued < MaxUnlocks =>
              /\ issued + 1 \in Uids
              /\ [uid |-> issued + 1, expires_at |-> now + MaxLifetime,
                  idle_expires_at |-> now + IdleLimit] \in Session
<1>1. ASSUME file \in Session
      PROVE  /\ file.uid \in Uids
             /\ [file EXCEPT !.idle_expires_at = now + IdleLimit] \in Session
  <2>1. now + IdleLimit \in Nat
    BY ParameterAssumption DEF TypeOK
  <2> QED BY <1>1, <2>1 DEF Session
<1>2. ASSUME issued < MaxUnlocks PROVE issued + 1 \in Uids
  BY <1>2, ParameterAssumption DEF TypeOK, Uids
<1>3. now + MaxLifetime \in Nat /\ now + IdleLimit \in Nat
  BY ParameterAssumption DEF TypeOK
<1> QED BY <1>1, <1>2, <1>3 DEF Session

\* Type correctness of BastionSession, step by step.
LEMMA TypeStep == TypeOK /\ HandInv /\ [Next]_vars => TypeOK' /\ HandInv'
<1> SUFFICES ASSUME TypeOK, HandInv, [Next]_vars PROVE TypeOK' /\ HandInv'
  OBVIOUS
<1> USE ParameterAssumption
<1>1. ASSUME NEW p \in Procs, Load(p) PROVE TypeOK' /\ HandInv'
  <2>1. CASE file \in Session
    BY <1>1, <2>1 DEF Load, TypeOK, HandInv, FreePCs, disk, history, PCs
  <2>2. CASE file \notin Session
    BY <1>1, <2>2, CallersTyped, CallersFree
    DEF Load, TypeOK, HandInv, Freed, FreePCs, disk, history
  <2> QED BY <2>1, <2>2
<1>2. ASSUME NEW p \in Procs, Check(p) PROVE TypeOK' /\ HandInv'
  <2>1. CASE Expired(hand[p])
    BY <1>2, <2>1 DEF Check, TypeOK, HandInv, FreePCs, disk, history, PCs
  <2>2. CASE ~Expired(hand[p])
    BY <1>2, <2>2, CallersTyped, CallersFree
    DEF Check, TypeOK, HandInv, Freed, FreePCs, disk, history
  <2> QED BY <2>1, <2>2
<1>3. ASSUME NEW p \in Procs, Purge(p) PROVE TypeOK' /\ HandInv'
  BY <1>3, CallersTyped, CallersFree
  DEF Purge, RemoveFile, TypeOK, HandInv, Freed, FreePCs, history
<1>4. ASSUME NEW p \in Procs, TouchLoad(p) PROVE TypeOK' /\ HandInv'
  <2>1. CASE file \in Session
    BY <1>4, <2>1, NewSessions
    DEF TouchLoad, TypeOK, HandInv, FreePCs, disk, PCs
  <2>2. CASE file \notin Session
    BY <1>4, <2>2, CallersTyped, CallersFree
    DEF TouchLoad, TypeOK, HandInv, Freed, FreePCs, disk
  <2> QED BY <2>1, <2>2
<1>5. ASSUME NEW p \in Procs, Truncate(p) PROVE TypeOK' /\ HandInv'
  BY <1>5 DEF Truncate, TypeOK, HandInv, FreePCs, history, PCs
<1>6. ASSUME NEW p \in Procs, Write(p) PROVE TypeOK' /\ HandInv'
  <2>1. hand[p] \in Session /\ hand[p].uid \in Uids
    BY <1>6 DEF Write, HandInv, FreePCs, Session
  <2> QED
    BY <1>6, <2>1, CallersTyped, CallersFree
    DEF Write, TypeOK, HandInv, Freed, FreePCs
<1>7. ASSUME NEW p \in Procs, Grant(p) PROVE TypeOK' /\ HandInv'
  BY <1>7, NewSessions DEF Grant, TypeOK, HandInv, FreePCs, disk, PCs
<1>8. ASSUME NEW p \in Procs, TryAcquire(p) PROVE TypeOK' /\ HandInv'
  BY <1>8 DEF TryAcquire, Ask, TypeOK, HandInv, FreePCs, disk, history, PCs,
              Sites
<1>9. ASSUME NEW p \in Procs, Elicited(p) PROVE TypeOK' /\ HandInv'
  BY <1>9 DEF Elicited, Ask, Goto, TypeOK, HandInv, FreePCs, disk, history,
              PCs, Sites
<1>10. ASSUME NEW p \in Procs, PollAgain(p) PROVE TypeOK' /\ HandInv'
  BY <1>10 DEF PollAgain, TypeOK, HandInv, FreePCs, disk, history, PCs, Sites
<1>11. ASSUME NEW p \in Procs, ManageFound(p) \/ StatusServed(p) \/ RefreshManage(p)
       PROVE  TypeOK' /\ HandInv'
  BY <1>11 DEF ManageFound, StatusServed, RefreshManage, Ask, Goto, TypeOK,
               HandInv, FreePCs, disk, history, PCs, Sites
<1>12. ASSUME NEW p \in Procs, StartGate(p) \/ StartUnlock(p)
       PROVE  TypeOK' /\ HandInv'
  BY <1>12 DEF StartGate, StartUnlock, TypeOK, HandInv, FreePCs, disk,
               history, PCs, Sites
<1>13. ASSUME NEW p \in Procs, Return(p), UNCHANGED <<disk, history>>,
              linked' \in [Procs -> BOOLEAN]
       PROVE  TypeOK' /\ HandInv'
  BY <1>13, CallersTyped, CallersFree
  DEF TypeOK, HandInv, Freed, FreePCs, disk, history
<1>14. CASE Lock \/ HandleSetKey
  <2>1. {hand[p].uid : p \in {q \in Procs : pc[q] = "touch_trunc"}} \in SUBSET Uids
    BY DEF HandInv, FreePCs, Session
  <2> QED
    BY <1>14, <2>1 DEF Lock, HandleSetKey, Revoke, RemoveFile, TypeOK, HandInv
<1>15. CASE RunSetKey \/ Tick
  <2>1. UNCHANGED <<file, threads, history>>
    BY <1>15 DEF RunSetKey, Tick
  <2>2. key' \in BOOLEAN
    BY <1>15 DEF RunSetKey, Tick, TypeOK
  <2>3. now' \in 0..MaxTime
    BY <1>15 DEF RunSetKey, Tick, TypeOK
  <2> QED
    BY <2>1, <2>2, <2>3 DEF TypeOK, HandInv, threads, history
<1>18. ASSUME NEW p \in Procs, Served(p) PROVE TypeOK' /\ HandInv'
  <2>1. CASE NoManage(p)
    BY <2>1, <1>13 DEF NoManage, TypeOK
  <2> QED BY <1>18, <1>11, <2>1 DEF Served
<1>16. CASE UNCHANGED vars
  BY <1>16 DEF vars, disk, threads, history, TypeOK, HandInv
<1>17. ASSUME NEW p \in Procs, Outcome(p) PROVE TypeOK' /\ HandInv'
  <2>1. CASE AnswerPrompt(p)
    BY <2>1, <1>7, <1>13 DEF AnswerPrompt, TypeOK
  <2>2. CASE GiveUp(p)
    BY <2>2, <1>13 DEF GiveUp, TypeOK
  <2>3. CASE Crash(p)
    BY <2>3, <1>13 DEF Crash, TypeOK
  <2> QED BY <1>17, <1>9, <2>1, <2>2, <2>3 DEF Outcome
<1> QED
  BY <1>1, <1>2, <1>3, <1>4, <1>5, <1>6, <1>7, <1>8, <1>10, <1>12, <1>14,
     <1>15, <1>16, <1>17, <1>18 DEF Next, Step, Start, HandleUnlock

-----------------------------------------------------------------------------
\* A step that frees a thread's copy and changes no file, clock or history
\* keeps the invariants.
LEMMA FreedKeeps ==
  ASSUME TypeOK, HandInv, GrantInv, RevokeInv, RevokedStaysDead,
         NEW p \in Procs, Freed(p), TypeOK', UNCHANGED <<now, history>>,
         file' = file \/ file' \notin Session,
         linked' = linked \/ linked' = [linked EXCEPT ![p] = FALSE]
           \/ linked' = [q \in Procs |-> FALSE]
  PROVE  GrantInv' /\ RevokeInv' /\ RevokedStaysDead'
<1>1. Absent \notin Session
  BY NullAssumption
<1>2. pc'[p] \in FreePCs /\ hand'[p] = Absent
  BY DEF Freed, TypeOK
<1>3. \A q \in Procs : q # p => pc'[q] = pc[q] /\ hand'[q] = hand[q]
  BY DEF Freed, TypeOK
<1>4. \A q \in Procs : linked'[q] => linked[q]
  BY DEF TypeOK
<1>5. GrantInv'
  BY <1>1, <1>2, <1>3 DEF GrantInv, Honest, history, TypeOK
<1>6. RevokeInv'
  BY <1>2, <1>3 DEF RevokeInv, FreePCs, history
<1>7. RevokedStaysDead'
  BY <1>2, <1>3, <1>4 DEF RevokedStaysDead, FreePCs, history
<1> QED BY <1>5, <1>6, <1>7

\* The invariants are preserved by every step.
LEMMA InvStep == IInv /\ [Next]_vars => IInv'
<1> SUFFICES ASSUME IInv, [Next]_vars PROVE IInv'
  OBVIOUS
<1>t. TypeOK' /\ HandInv'
  BY TypeStep DEF IInv
<1> SUFFICES GrantInv' /\ RevokeInv' /\ RevokedStaysDead'
  BY <1>t DEF IInv
<1> USE DEF IInv
<1>n. Absent \notin Session /\ Torn \notin Session
  BY NullAssumption
<1>k. ASSUME NEW p \in Procs, NEW l \in PCs, pc[p] # "touch_trunc",
             pc' = [pc EXCEPT ![p] = l], l \in FreePCs \cup {"purge"},
             l = "purge" => pc[p] = "check",
             UNCHANGED <<disk, hand, linked, history>>
      PROVE  GrantInv' /\ RevokeInv' /\ RevokedStaysDead'
  <2>1. pc'[p] = l /\ \A q \in Procs : q # p => pc'[q] = pc[q]
    BY <1>k DEF TypeOK
  <2>2. GrantInv'
    BY <1>k DEF GrantInv, Honest, disk, history
  <2>3. RevokeInv'
    BY <1>k, <2>1 DEF RevokeInv, FreePCs, disk, history
  <2>4. RevokedStaysDead'
    BY <1>k, <2>1 DEF RevokedStaysDead, FreePCs, disk, history
  <2> QED BY <2>2, <2>3, <2>4
<1>1. ASSUME NEW p \in Procs, Load(p)
      PROVE  GrantInv' /\ RevokeInv' /\ RevokedStaysDead'
  <2>1. CASE file \in Session
    <3>1. /\ pc'[p] = "check" /\ hand'[p] = file
          /\ \A q \in Procs : q # p => pc'[q] = pc[q] /\ hand'[q] = hand[q]
          /\ UNCHANGED <<disk, linked, history>>
      BY <1>1, <2>1 DEF Load, TypeOK
    <3>2. GrantInv'
      BY <3>1 DEF GrantInv, Honest, disk, history
    <3>3. RevokeInv'
      BY <2>1, <3>1 DEF RevokeInv, disk, history
    <3>4. RevokedStaysDead'
      BY <3>1 DEF RevokedStaysDead, disk, history
    <3> QED BY <3>2, <3>3, <3>4
  <2>2. CASE file \notin Session
    BY <1>1, <2>2, <1>t, CallersFree, FreedKeeps DEF Load, disk
  <2> QED BY <2>1, <2>2
<1>2. ASSUME NEW p \in Procs, Check(p)
      PROVE  GrantInv' /\ RevokeInv' /\ RevokedStaysDead'
  <2>1. CASE Expired(hand[p])
    BY <1>2, <2>1, <1>k DEF Check, PCs
  <2>2. CASE ~Expired(hand[p])
    BY <1>2, <2>2, <1>t, CallersFree, FreedKeeps DEF Check, disk
  <2> QED BY <2>1, <2>2
<1>3. ASSUME NEW p \in Procs, Purge(p)
      PROVE  GrantInv' /\ RevokeInv' /\ RevokedStaysDead'
  BY <1>3, <1>n, <1>t, CallersFree, FreedKeeps DEF Purge, RemoveFile
<1>4. ASSUME NEW p \in Procs, TouchLoad(p)
      PROVE  GrantInv' /\ RevokeInv' /\ RevokedStaysDead'
  <2>1. CASE file \in Session
    <3>0. PICK s \in Session : s = [file EXCEPT !.idle_expires_at = now + IdleLimit]
      BY <2>1, NewSessions
    <3>1. /\ s.uid = file.uid /\ s.expires_at = file.expires_at
          /\ s.idle_expires_at = now + IdleLimit
          /\ file.uid \in Uids
      BY <2>1, <3>0 DEF Session
    <3>2. /\ pc'[p] = "touch_trunc" /\ hand'[p] = s
          /\ \A q \in Procs : q # p => pc'[q] = pc[q] /\ hand'[q] = hand[q]
          /\ lastUse' = [lastUse EXCEPT ![file.uid] = now]
          /\ UNCHANGED <<disk, linked, issued, granted, saved, revoked, carried>>
      BY <1>4, <2>1, <3>0 DEF TouchLoad, TypeOK
    <3>3. GrantInv'
      <4>1. \A u \in Uids : lastUse'[u] <= now /\ lastUse[u] <= lastUse'[u]
        BY <3>1, <3>2 DEF GrantInv, TypeOK
      <4>2. \A v \in Session : Honest(v) => Honest(v)'
        <5> SUFFICES ASSUME NEW v \in Session, Honest(v) PROVE Honest(v)'
          OBVIOUS
        <5>1. v.uid \in Uids /\ v.idle_expires_at \in Nat
          BY DEF Session
        <5>2. lastUse[v.uid] \in Nat /\ lastUse'[v.uid] \in Nat
          BY <5>1, <1>t DEF TypeOK
        <5> QED BY <3>2, <4>1, <5>1, <5>2, ParameterAssumption DEF Honest
      <4>3. Honest(s)'
        <5>1. lastUse'[file.uid] = now
          BY <3>1, <3>2 DEF TypeOK
        <5>2. now + IdleLimit \in Nat
          BY ParameterAssumption DEF TypeOK
        <5> QED
          BY <2>1, <3>1, <3>2, <5>1, <5>2 DEF GrantInv, Honest
      <4> QED
        BY <2>1, <3>2, <4>1, <4>2, <4>3 DEF GrantInv, disk
    <3>4. RevokeInv'
      BY <2>1, <3>1, <3>2 DEF RevokeInv, disk
    <3>5. RevokedStaysDead'
      BY <2>1, <3>1, <3>2 DEF RevokedStaysDead, disk
    <3> QED BY <3>3, <3>4, <3>5
  <2>2. CASE file \notin Session
    BY <1>4, <2>2, <1>t, CallersFree, FreedKeeps DEF TouchLoad, disk, history
  <2> QED BY <2>1, <2>2
<1>5. ASSUME NEW p \in Procs, Truncate(p)
      PROVE  GrantInv' /\ RevokeInv' /\ RevokedStaysDead'
  <2>1. /\ \/ pc[p] = "touch_trunc" /\ pc'[p] = "touch_write"
           \/ pc[p] = "unlock_trunc" /\ pc'[p] = "unlock_write"
        /\ \A q \in Procs : q # p => pc'[q] = pc[q] /\ linked'[q] = linked[q]
        /\ file' \notin Session
        /\ UNCHANGED <<now, hand, history>>
    <3>1. file' \notin Session /\ UNCHANGED <<now, hand, history>>
      BY <1>5, <1>n DEF Truncate
    <3>2. \A q \in Procs : q # p => pc'[q] = pc[q] /\ linked'[q] = linked[q]
      BY <1>5 DEF Truncate, TypeOK
    <3>3. \/ pc[p] = "touch_trunc" /\ pc'[p] = "touch_write"
          \/ pc[p] = "unlock_trunc" /\ pc'[p] = "unlock_write"
      BY <1>5 DEF Truncate, TypeOK
    <3> QED BY <3>1, <3>2, <3>3
  <2>2. GrantInv'
    BY <2>1 DEF GrantInv, Honest, history
  <2>3. RevokeInv'
    BY <2>1 DEF RevokeInv, history
  <2>4. RevokedStaysDead'
    BY <2>1 DEF RevokedStaysDead, RevokeInv, history
  <2> QED BY <2>2, <2>3, <2>4
<1>6. ASSUME NEW p \in Procs, Write(p)
      PROVE  GrantInv' /\ RevokeInv' /\ RevokedStaysDead'
  <2>1. CASE ~linked[p]
    BY <1>6, <2>1, <1>t, CallersFree, FreedKeeps DEF Write, history
  <2>2. CASE linked[p]
    <3> DEFINE h == hand[p]
    <3>1. /\ Freed(p) /\ pc'[p] \in FreePCs /\ hand'[p] = Absent
          /\ \A q \in Procs : q # p => pc'[q] = pc[q] /\ hand'[q] = hand[q]
          /\ \A q \in Procs : linked'[q] => linked[q]
          /\ UNCHANGED <<now, key, issued, granted, lastUse, revoked, carried>>
      BY <1>6, CallersFree DEF Write, Freed, TypeOK
    <3>2. /\ file' = h \/ file' \notin Session
          /\ saved' = saved \cup {h.uid}
          /\ pc[p] \in {"touch_write", "unlock_write"}
          /\ h \in Session /\ Honest(h)
      BY <1>6, <2>2, <1>n DEF Write, HandInv, FreePCs, GrantInv
    <3>3. pc[p] = "touch_write" => h.uid \in saved /\ h.uid \notin revoked \ carried
      BY <2>2, <3>2 DEF RevokeInv, RevokedStaysDead
    <3>4. pc[p] = "unlock_write" => h.uid \notin saved /\ h.uid \notin revoked
      BY <3>2 DEF RevokeInv
    <3> HIDE DEF h
    <3>5. GrantInv'
      BY <1>n, <3>1, <3>2 DEF GrantInv, Honest
    <3>6. RevokeInv'
      <4>1. \A q \in Procs : q # p /\ pc[q] \in {"unlock_trunc", "unlock_write"}
              => hand[q].uid # h.uid
        BY <3>2, <3>3 DEF RevokeInv, h
      <4>2. (\A u \in saved : u <= issued)' /\ (revoked \subseteq saved)'
        BY <3>1, <3>2 DEF RevokeInv, Honest
      <4>3. (file \in Session => file.uid \in saved)'
        BY <3>2
      <4>4. \A q \in Procs :
              /\ pc'[q] \in {"check", "purge", "touch_trunc", "touch_write"}
                   => hand'[q].uid \in saved'
              /\ pc'[q] \in {"unlock_trunc", "unlock_write"}
                   => q # p /\ hand'[q] = hand[q] /\ pc[q] = pc'[q]
                      /\ hand'[q].uid \notin saved'
        BY <3>1, <3>2, <4>1 DEF RevokeInv, FreePCs
      <4> QED BY <4>2, <4>3, <4>4 DEF RevokeInv
    <3>7. RevokedStaysDead'
      BY <3>1, <3>2, <3>3, <3>4 DEF RevokedStaysDead, FreePCs
    <3> QED BY <3>5, <3>6, <3>7
  <2> QED BY <2>1, <2>2
<1>7. ASSUME NEW p \in Procs, Grant(p), pc[p] \in FreePCs
      PROVE  GrantInv' /\ RevokeInv' /\ RevokedStaysDead'
  <2>0. PICK s \in Session :
          s = [uid |-> issued + 1, expires_at |-> now + MaxLifetime,
               idle_expires_at |-> now + IdleLimit]
    BY <1>7, NewSessions DEF Grant
  <2>1. /\ s.uid = issued + 1 /\ s.expires_at = now + MaxLifetime
        /\ s.idle_expires_at = now + IdleLimit
        /\ issued + 1 \in Uids
    BY <1>7, <2>0, NewSessions DEF Grant
  <2>2. /\ hand'[p] = s /\ pc'[p] = "unlock_trunc"
        /\ \A q \in Procs : q # p => pc'[q] = pc[q] /\ hand'[q] = hand[q]
        /\ issued' = issued + 1
        /\ granted' = [granted EXCEPT ![issued + 1] = now]
        /\ lastUse' = [lastUse EXCEPT ![issued + 1] = now]
        /\ UNCHANGED <<disk, linked, saved, revoked, carried>>
    BY <1>7, <2>0 DEF Grant, TypeOK
  <2>3. GrantInv'
    <3>1. Honest(s)'
      <4>1. granted'[issued + 1] = now /\ lastUse'[issued + 1] = now
        BY <2>1, <2>2 DEF TypeOK
      <4>2. now + IdleLimit \in Nat /\ issued + 1 <= issued + 1
        BY ParameterAssumption DEF TypeOK
      <4>3. now + IdleLimit <= now + IdleLimit
        BY <4>2
      <4> QED BY <2>1, <2>2, <4>1, <4>2, <4>3 DEF Honest
    <3>2. \A v \in Session : Honest(v) => Honest(v)'
      <4> SUFFICES ASSUME NEW v \in Session, Honest(v) PROVE Honest(v)'
        OBVIOUS
      <4>1. v.uid \in Uids /\ v.uid # issued + 1 /\ v.uid <= issued + 1
        BY DEF Session, Honest, Uids, TypeOK
      <4> QED BY <2>1, <2>2, <4>1 DEF Honest, TypeOK
    <3>3. (\A u \in Uids : lastUse[u] <= now)'
      BY <2>1, <2>2 DEF GrantInv, TypeOK, disk
    <3> QED BY <2>2, <3>1, <3>2, <3>3 DEF GrantInv, disk
  <2>4. RevokeInv'
    <3>1. issued + 1 \notin saved /\ \A u \in saved : u <= issued + 1
      BY DEF RevokeInv, TypeOK, Uids
    <3>2. \A q \in Procs : pc[q] \in {"unlock_trunc", "unlock_write"}
             => hand[q].uid # issued + 1
      <4> SUFFICES ASSUME NEW q \in Procs,
                          pc[q] \in {"unlock_trunc", "unlock_write"}
                   PROVE  hand[q].uid # issued + 1
        OBVIOUS
      <4>1. hand[q] \in Session /\ Honest(hand[q])
        BY DEF GrantInv, HandInv, FreePCs
      <4> QED BY <4>1 DEF Honest, TypeOK, Session, Uids
    <3> QED BY <2>1, <2>2, <3>1, <3>2 DEF RevokeInv, disk
  <2>5. RevokedStaysDead'
    BY <2>2 DEF RevokedStaysDead, disk
  <2> QED BY <2>3, <2>4, <2>5
<1>8. ASSUME NEW p \in Procs,
             \/ TryAcquire(p) \/ Elicited(p)
             \/ ManageFound(p) \/ StatusServed(p) \/ RefreshManage(p)
      PROVE  GrantInv' /\ RevokeInv' /\ RevokedStaysDead'
  <2>1. Freed(p)
    BY <1>8 DEF TryAcquire, Elicited, ManageFound, StatusServed,
                RefreshManage, Ask, Goto, Freed, FreePCs
  <2> QED
    BY <1>8, <2>1, <1>t, FreedKeeps
    DEF TryAcquire, Elicited, ManageFound, StatusServed, RefreshManage, disk
<1>9. ASSUME NEW p \in Procs, PollAgain(p) \/ StartGate(p) \/ StartUnlock(p)
      PROVE  GrantInv' /\ RevokeInv' /\ RevokedStaysDead'
  BY <1>9, <1>k DEF PollAgain, StartGate, StartUnlock, FreePCs, PCs
<1>10. ASSUME NEW p \in Procs, Return(p),
              UNCHANGED <<disk, history>>,
              linked' = linked \/ linked' = [linked EXCEPT ![p] = FALSE]
       PROVE  GrantInv' /\ RevokeInv' /\ RevokedStaysDead'
  <2>1. Freed(p)
    BY <1>10, CallersFree
  <2> QED BY <1>10, <2>1, <1>t, FreedKeeps DEF disk
<1>11. CASE Lock \/ HandleSetKey
  <2>1. /\ file' \notin Session
        /\ \A p \in Procs : ~linked'[p]
        /\ revoked' = revoked \cup saved
        /\ \A p \in Procs : pc[p] = "touch_trunc" => hand[p].uid \in carried'
        /\ UNCHANGED <<now, pc, hand, issued, granted, lastUse, saved>>
    BY <1>11, <1>n DEF Lock, HandleSetKey, Revoke, RemoveFile
  <2>2. GrantInv'
    BY <2>1 DEF GrantInv, Honest
  <2>3. RevokeInv'
    BY <2>1 DEF RevokeInv
  <2>4. RevokedStaysDead'
    BY <2>1 DEF RevokedStaysDead
  <2> QED BY <2>2, <2>3, <2>4
<1>12. CASE RunSetKey \/ Tick
  <2>1. now <= now' /\ UNCHANGED <<file, threads, history>>
    BY <1>12 DEF RunSetKey, Tick, TypeOK
  <2>2. GrantInv'
    BY <2>1, <1>t DEF GrantInv, Honest, threads, history, TypeOK
  <2>3. RevokeInv' /\ RevokedStaysDead'
    BY <2>1 DEF RevokeInv, RevokedStaysDead, threads, history
  <2> QED BY <2>2, <2>3
<1>13. CASE UNCHANGED vars
  BY <1>13 DEF vars, disk, threads, history, GrantInv, Honest, RevokeInv,
               RevokedStaysDead
<1>14. ASSUME NEW p \in Procs, Outcome(p)
       PROVE  GrantInv' /\ RevokeInv' /\ RevokedStaysDead'
  <2>1. CASE AnswerPrompt(p)
    BY <2>1, <1>7, <1>10 DEF AnswerPrompt, FreePCs
  <2>2. CASE GiveUp(p) \/ Crash(p)
    BY <2>2, <1>10 DEF GiveUp, Crash
  <2> QED BY <1>14, <1>8, <2>1, <2>2 DEF Outcome
<1>16. ASSUME NEW p \in Procs, Served(p)
       PROVE  GrantInv' /\ RevokeInv' /\ RevokedStaysDead'
  <2>1. CASE NoManage(p)
    BY <2>1, <1>10 DEF NoManage
  <2> QED BY <1>16, <1>8, <2>1 DEF Served
<1>15. ASSUME NEW p \in Procs, HandleUnlock(p)
       PROVE  GrantInv' /\ RevokeInv' /\ RevokedStaysDead'
  BY <1>15, <1>7 DEF HandleUnlock, FreePCs
<1> QED
  BY <1>1, <1>2, <1>3, <1>4, <1>5, <1>6, <1>8, <1>9, <1>11, <1>12, <1>13,
     <1>14, <1>15, <1>16 DEF Next, Step, Start

\* The invariants hold initially.
LEMMA InvInit == Init => IInv
<1> SUFFICES ASSUME Init PROVE IInv
  OBVIOUS
<1>1. TypeOK
  BY ParameterAssumption DEF Init, TypeOK, PCs, Sites, AllModes, Uids
<1>2. HandInv /\ GrantInv
  BY NullAssumption, ParameterAssumption DEF Init, HandInv, FreePCs, GrantInv
<1>3. RevokeInv /\ RevokedStaysDead
  BY NullAssumption DEF Init, RevokeInv, RevokedStaysDead
<1> QED BY <1>1, <1>2, <1>3 DEF IInv

\* IInv is an invariant of the session file protocol.
THEOREM Invariance == Spec => []IInv
<1>1. Init => IInv
  BY InvInit
<1>2. IInv /\ [Next]_vars => IInv'
  BY InvStep
<1> QED BY <1>1, <1>2, PTL DEF Spec

\* Type correctness.
THEOREM TypeCorrect == Spec => []TypeOK
<1>1. IInv => TypeOK
  BY DEF IInv
<1> QED BY <1>1, Invariance, PTL

\* A lock is final for every session no renewal had in hand.
THEOREM LockFinality == Spec => []RevokedStaysDead
<1>1. IInv => RevokedStaysDead
  BY DEF IInv
<1> QED BY <1>1, Invariance, PTL

\* No interleaving makes session_valid accept a session past the maximum
\* lifetime of its unlock or past the idle limit of its last renewal.
THEOREM AdmissionBound == Spec => []AdmissionBounded
<1>1. IInv => AdmissionBounded
  <2> SUFFICES ASSUME IInv, NEW p \in Procs, pc[p] = "check",
                      ~Expired(hand[p])
               PROVE  /\ now <= granted[hand[p].uid] + MaxLifetime
                      /\ now <= lastUse[hand[p].uid] + IdleLimit
    BY DEF AdmissionBounded
  <2>1. hand[p] \in Session /\ Honest(hand[p])
    BY DEF IInv, HandInv, GrantInv, FreePCs
  <2>2. /\ hand[p].uid \in Uids /\ hand[p].expires_at \in Nat
        /\ hand[p].idle_expires_at \in Nat
    BY <2>1 DEF Session
  <2> QED
    BY <2>1, <2>2, ParameterAssumption DEF Honest, Expired, IInv, TypeOK
<1> QED BY <1>1, Invariance, PTL

=============================================================================
