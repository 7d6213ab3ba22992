------------------------ MODULE ElevatedPool_proofs ------------------------
(***************************************************************************)
(* Proofs about ElevatedPool: types, that a command is never typed behind  *)
(* another one, that an answer is the command's own output, and that the   *)
(* end of a command is seen.                                               *)
(***************************************************************************)
EXTENDS ElevatedPool, SequenceTheorems, TLAPS

\* The sessions that a call can still reach.
Held == Pooled \cup {mine[c] : c \in Calls}

\* The command has not been typed.
Untyped(c) ==
  \/ at[c] \in {"idle", "lock", "spawn", "ready", "clear", "type"}
  \/ at[c] = "poll" /\ job[c] = Setup

\* Calls that do not hold the pool hold no session, sessions are opened in
\* order, and one that is not ready is not in the pool.
Placed ==
  /\ \A c \in Calls :
       /\ at[c] \notin {"ready", "clear", "type", "poll"} => mine[c] = None
       /\ at[c] \in {"ready", "clear", "type", "poll"} => mine[c] \in 1..opened
       /\ at[c] = "ready" => mine[c] \notin Pooled
       /\ at[c] \in {"spawn", "ready"} => job[c] = Setup
       /\ at[c] \in {"clear", "type", "poll"} => job[c] \in {Setup, c}
       /\ at[c] \in {"idle", "lock"} => job[c] = Setup
       /\ outcome[c] # "none" => at[c] = "done"
  /\ \A k \in Keys : pool[k] \in 0..opened
  /\ \A s \in Sessions : s > opened => shell[s] = "none" /\ tty[s] = <<>> /\ buffer[s] = <<>>

\* A session that a command may be typed into has a shell that reads it, and
\* nobody has typed exit there.
Usable ==
  /\ \A s \in Sessions :
       /\ Line("ready", Setup, 0) \in ToSet(buffer[s]) \/ s \in Pooled
            => shell[s] \notin {"none", "login"}
       /\ s \in Held => "exit" \notin ToSet(tty[s])
  /\ \A c \in Calls :
       at[c] \in {"clear", "type", "poll"} => shell[mine[c]] \notin {"none", "login"}

\* A command that may still run is polled for, or its session is out of reach.
Followed ==
  \A s \in Sessions : \A c \in Calls :
    Pending(c, s) =>
      \/ at[c] = "poll" /\ job[c] = c /\ mine[c] = s
      \/ at[c] = "done" /\ outcome[c] = "failed" /\ s \notin Held

\* A line that only the command itself brings about.
Own(l, c) == l.job = c /\ l.tag \in {"begin", "out", "end", "glued"}

Unheard ==
  \A c \in Calls : Untyped(c) =>
    /\ wrote[c] = 0
    /\ \A s \in Sessions : \A l \in ToSet(buffer[s]) : ~Own(l, c)

\* The command waits in the tty, behind the hygiene command if anything.
LastOnly(c, typed) ==
  /\ typed # <<>> /\ typed[Len(typed)] = c
  /\ \A i \in 1..(Len(typed) - 1) : typed[i] # c

\* From p, lines hold what the command wrote behind its begin marker.
Written(c, lines, p) ==
  /\ p \in 1..Len(lines)
  /\ lines[p] = Line("begin", c, 0)
  /\ \A i \in 1..(p - 1) : ~Own(lines[i], c)
  /\ Len(lines) >= p + wrote[c]
  /\ \A i \in 1..wrote[c] : lines[p + i] = Line("out", c, i)

\* The command that is polled for waits, runs or has ended.
Waits(c) ==
  /\ wrote[c] = 0 /\ \A l \in ToSet(buffer[mine[c]]) : ~Own(l, c)
  /\ shell[mine[c]] # c
  /\ shell[mine[c]] = "ended" \/ LastOnly(c, tty[mine[c]])

Runs(c) ==
  /\ shell[mine[c]] \in {c, "ended"} /\ tty[mine[c]] = <<>>
  /\ \E p \in 1..Len(buffer[mine[c]]) :
       Written(c, buffer[mine[c]], p) /\ Len(buffer[mine[c]]) = p + wrote[c]

HasEnded(c) ==
  /\ shell[mine[c]] \in {"prompt", "ended"} /\ tty[mine[c]] = <<>>
  /\ \E p \in 1..Len(buffer[mine[c]]) :
       /\ Written(c, buffer[mine[c]], p) /\ Len(buffer[mine[c]]) = p + wrote[c] + 1
       /\ buffer[mine[c]][p + wrote[c] + 1] \in {Line("end", c, 0), Line("glued", c, 0)}

Polled ==
  \A c \in Calls : at[c] = "poll" /\ job[c] = c => Waits(c) \/ Runs(c) \/ HasEnded(c)

IInv ==
  /\ TypeOK
  /\ Placed /\ Usable /\ Followed /\ OneAtATime
  /\ Unheard /\ Polled /\ AnswerIsOwn

-----------------------------------------------------------------------------
(* The operators of the model. *)

\* Who holds the pool is alone: nobody else has a session.
LEMMA Alone ==
  ASSUME TypeOK, Placed, NEW c \in Calls, c \in lock
  PROVE  \A d \in Calls : d # c => d \notin lock /\ mine[d] = None
  BY DEF TypeOK, Locked, Places, Placed

\* kill and a drop type exit, free the output and touch nothing else.
Killed(dead) ==
  /\ buffer' \in [Sessions -> Seq(Lines)] /\ tty' \in [Sessions -> Seq(Jobs \cup {"exit"})]
  /\ \A s \in Sessions \ dead : buffer'[s] = buffer[s] /\ tty'[s] = tty[s]
  /\ \A s \in Sessions : ToSet(buffer'[s]) \subseteq ToSet(buffer[s])
  /\ \A s \in Sessions : ToSet(tty'[s]) \subseteq ToSet(tty[s]) \cup {"exit"}

\* That is all that kill does.
LEMMA KillEffect ==
  ASSUME TypeOK, NEW doomed, NEW dropped, Kill(doomed, dropped)
  PROVE  Killed(doomed \cup dropped)
<1>1. /\ buffer \in [Sessions -> Seq(Lines)]
      /\ tty \in [Sessions -> Seq(Jobs \cup {"exit"})]
  BY DEF TypeOK, Texts
<1>2. ASSUME NEW s \in Sessions
      PROVE  /\ buffer'[s] \in Seq(Lines)
             /\ ToSet(buffer'[s]) \subseteq ToSet(buffer[s])
             /\ s \notin doomed \cup dropped => buffer'[s] = buffer[s]
  <2>1. buffer'[s] = IF s \in doomed \cup dropped THEN <<>> ELSE buffer[s]
    BY DEF Kill
  <2>2. ToSet(<<>>) = {}
    BY DEF ToSet
  <2>3. <<>> \in Seq(Lines)
    OBVIOUS
  <2> QED BY <1>1, <2>1, <2>2, <2>3
<1>3. ASSUME NEW s \in Sessions
      PROVE  /\ tty'[s] \in Seq(Jobs \cup {"exit"})
             /\ ToSet(tty'[s]) \subseteq ToSet(tty[s]) \cup {"exit"}
             /\ s \notin doomed \cup dropped => tty'[s] = tty[s]
  <2> DEFINE exits == IF shell[s] = "ended" THEN <<>>
                      ELSE IF s \in doomed THEN <<"exit", "exit">>
                      ELSE IF s \in dropped THEN <<"exit">> ELSE <<>>
             typed == Jobs \cup {"exit"}
  <2>1. tty'[s] = tty[s] \o exits
    BY DEF Kill
  <2>2. /\ exits \in Seq(typed) /\ \A i \in 1..Len(exits) : exits[i] = "exit"
        /\ s \notin doomed \cup dropped => exits = <<>>
    <3>1. exits \in {<<>>, <<"exit">>, <<"exit", "exit">>}
      OBVIOUS
    <3>2. s \notin doomed \cup dropped => exits = <<>>
      OBVIOUS
    <3>3. "exit" \in typed
      OBVIOUS
    <3> HIDE DEF exits, typed
    <3>4. CASE exits = <<>>
      BY <3>2, <3>4
    <3>5. CASE exits = <<"exit">>
      BY <3>2, <3>3, <3>5
    <3>6. CASE exits = <<"exit", "exit">>
      BY <3>2, <3>3, <3>6
    <3> QED BY <3>1, <3>4, <3>5, <3>6
  <2>3. tty[s] \in Seq(typed)
    BY <1>1
  <2> HIDE DEF exits, typed
  <2>4. /\ tty'[s] \in Seq(typed) /\ Len(tty'[s]) = Len(tty[s]) + Len(exits)
        /\ \A i \in 1..Len(tty[s]) + Len(exits) :
             tty'[s][i] = IF i <= Len(tty[s]) THEN tty[s][i] ELSE exits[i - Len(tty[s])]
    BY <2>1, <2>2, <2>3, ConcatProperties
  <2>5. s \notin doomed \cup dropped => tty'[s] = tty[s]
    BY <2>1, <2>2, <2>3, ConcatEmptySeq
  <2>6. /\ Len(tty[s]) \in Nat /\ Len(exits) \in Nat
        /\ DOMAIN tty[s] = 1..Len(tty[s])
        /\ DOMAIN tty'[s] = 1..(Len(tty[s]) + Len(exits))
    BY <2>2, <2>3, <2>4, LenProperties
  <2>7. ASSUME NEW i \in DOMAIN tty'[s]
        PROVE  tty'[s][i] \in ToSet(tty[s]) \cup {"exit"}
    <3>1. CASE i <= Len(tty[s])
      BY <2>4, <2>6, <3>1 DEF ToSet
    <3>2. CASE ~(i <= Len(tty[s]))
      <4>1. i - Len(tty[s]) \in 1..Len(exits)
        BY <2>6, <3>2
      <4> QED BY <2>2, <2>4, <2>6, <3>2, <4>1
    <3> QED BY <3>1, <3>2
  <2>8. ToSet(tty'[s]) \subseteq ToSet(tty[s]) \cup {"exit"}
    BY <2>7 DEF ToSet
  <2> QED BY <2>4, <2>5, <2>8 DEF typed
<1>4. /\ buffer' = [s \in Sessions |-> buffer'[s]]
      /\ tty' = [s \in Sessions |-> tty'[s]]
  BY DEF Kill
<1> QED BY <1>2, <1>3, <1>4 DEF Killed

\* Output goes to the buffer of its session, while somebody can reach it.
Heard(s, line) ==
  /\ buffer' \in [Sessions -> Seq(Lines)]
  /\ \A t \in Sessions : t # s \/ s \notin Held => buffer'[t] = buffer[t]
  /\ ToSet(buffer'[s]) \subseteq ToSet(buffer[s]) \cup {line}
  /\ s \in Held =>
       /\ Len(buffer[s]) \in Nat /\ Len(buffer'[s]) = Len(buffer[s]) + 1
       /\ \A i \in 1..Len(buffer[s]) : buffer'[s][i] = buffer[s][i]
       /\ buffer'[s][Len(buffer[s]) + 1] = line

\* What a sequence holds, and what it holds once something is appended.
LEMMA Appended ==
  ASSUME NEW S, NEW q \in Seq(S), NEW e \in S
  PROVE  ToSet(Append(q, e)) = ToSet(q) \cup {e}
<1>1. /\ Len(q) \in Nat /\ DOMAIN q = 1..Len(q)
      /\ Append(q, e) \in Seq(S) /\ Len(Append(q, e)) = Len(q) + 1
      /\ \A i \in 1..Len(q) : Append(q, e)[i] = q[i]
      /\ Append(q, e)[Len(q) + 1] = e
  BY LenProperties, AppendProperties
<1>2. DOMAIN Append(q, e) = 1..(Len(q) + 1)
  BY <1>1, LenProperties
<1> QED BY <1>1, <1>2 DEF ToSet

\* What the reader thread appends, and where.
LEMMA HearEffect ==
  ASSUME TypeOK, NEW s \in Sessions, NEW line \in Lines, ReadOutput(s, line)
  PROVE  Heard(s, line)
<1>1. buffer \in [Sessions -> Seq(Lines)]
  BY DEF TypeOK, Texts
<1>2. CASE s \in Held
  <2>1. buffer' = [buffer EXCEPT ![s] = Append(@, line)]
    BY <1>2 DEF ReadOutput, Held
  <2>2. buffer'[s] = Append(buffer[s], line) /\ buffer[s] \in Seq(Lines)
    BY <1>1, <2>1
  <2>3. /\ buffer'[s] \in Seq(Lines)
        /\ Len(buffer[s]) \in Nat /\ Len(buffer'[s]) = Len(buffer[s]) + 1
        /\ \A i \in 1..Len(buffer[s]) : buffer'[s][i] = buffer[s][i]
        /\ buffer'[s][Len(buffer[s]) + 1] = line
    BY <2>2, AppendProperties, LenProperties
  <2>4. ToSet(buffer'[s]) = ToSet(buffer[s]) \cup {line}
    BY <2>2, Appended
  <2>5. /\ buffer' \in [Sessions -> Seq(Lines)]
        /\ \A t \in Sessions : t # s => buffer'[t] = buffer[t]
    BY <1>1, <2>1, <2>2, <2>3
  <2> QED BY <1>2, <2>3, <2>4, <2>5 DEF Heard
<1>3. CASE s \notin Held
  <2>1. buffer' = buffer
    BY <1>3 DEF ReadOutput, Held
  <2> QED BY <1>1, <1>3, <2>1 DEF Heard
<1> QED BY <1>2, <1>3

\* The first line that was typed leaves the tty.
LEMMA TypedTail ==
  ASSUME NEW S, NEW q \in Seq(S), q # <<>>
  PROVE  /\ Head(q) \in ToSet(q) /\ Head(q) \in S
         /\ Tail(q) \in Seq(S) /\ ToSet(Tail(q)) \subseteq ToSet(q)
<1>1. Len(q) \in Nat /\ Len(q) >= 1 /\ DOMAIN q = 1..Len(q) /\ Head(q) = q[1]
  BY EmptySeq, LenProperties
<1>2. /\ Head(q) \in S
      /\ Tail(q) \in Seq(S) /\ Len(Tail(q)) = Len(q) - 1
      /\ \A i \in 1..(Len(q) - 1) : Tail(q)[i] = q[i + 1]
  BY <1>1, HeadTailProperties
<1>3. DOMAIN Tail(q) = 1..(Len(q) - 1)
  BY <1>2, LenProperties
<1>4. ASSUME NEW i \in DOMAIN Tail(q)
      PROVE  i + 1 \in DOMAIN q /\ Tail(q)[i] = q[i + 1]
  BY <1>1, <1>2, <1>3
<1>5. 1 \in DOMAIN q
  BY <1>1
<1> QED BY <1>1, <1>2, <1>4, <1>5 DEF ToSet

\* Entries leave the pool, and no other changes.
LEMMA UpdateEffect ==
  ASSUME TypeOK, NEW doomed, NEW active, Update(doomed, active)
  PROVE  /\ pool' \in [Keys -> Sessions \cup {None}]
         /\ quiet' \subseteq Sessions /\ old' \subseteq Sessions
         /\ \A k \in Keys : pool'[k] \in {pool[k], None}
         /\ Pooled' = Pooled \ doomed
<1>1. pool \in [Keys -> Sessions \cup {None}] /\ quiet \subseteq Sessions /\ old \subseteq Sessions
  BY DEF TypeOK, Places
<1>2. /\ pool' \in [Keys -> Sessions \cup {None}]
      /\ \A k \in Keys : pool'[k] = IF pool[k] \in doomed THEN None ELSE pool[k]
  BY <1>1 DEF Update
<1>3. Pooled' = Pooled \ doomed
  BY <1>2 DEF Pooled
<1> QED BY <1>1, <1>2, <1>3 DEF Update

-----------------------------------------------------------------------------
(* The first states. *)

\* The inductive invariant holds before the first call.
LEMMA InitInv == Init => IInv
<1> SUFFICES ASSUME Init PROVE IInv
  OBVIOUS
<1> USE BoundsAssumption, JobsAssumption DEF Init
<1>1. TypeOK
  BY DEF TypeOK, Locked, Places, Texts, Sessions, None, Jobs
<1>2. Placed
  BY DEF Placed, None, Pooled, Sessions
<1>3. \A s \in Sessions : \A c \in Calls : ~Pending(c, s)
  BY DEF Pending, ToSet, Jobs
<1>4. \A s \in Sessions : s \notin Held /\ s # None
  BY DEF Held, Pooled, Sessions, None
<1>5. Usable
  BY <1>4 DEF Usable, ToSet, Held
<1>6. Followed /\ OneAtATime
  BY <1>3 DEF Followed, OneAtATime
<1>7. Unheard /\ Polled /\ AnswerIsOwn
  BY DEF Unheard, Polled, AnswerIsOwn, ToSet
<1> QED BY <1>1, <1>2, <1>5, <1>6, <1>7 DEF IInv

-----------------------------------------------------------------------------
(* What every step keeps. *)

\* Calls and sessions are somewhere.
LEMMA PlacesKept ==
  ASSUME TypeOK, [Next]_vars
  PROVE  Places'
<1> USE BoundsAssumption
    DEF TypeOK, Places, poolVars, callVars, shellVars, Goto, Return
<1>1. ASSUME NEW c \in Calls, Begin(c)
      PROVE  Places'
  BY <1>1 DEF Begin
<1>2. ASSUME NEW c \in Calls, NEW r \in Request, Enter(c, r)
      PROVE  Places'
  <2>1. PICK doomed, active : Update(doomed, active)
    BY <1>2 DEF Enter
  <2>2. /\ pool' \in [Keys -> Sessions \cup {None}]
        /\ quiet' \subseteq Sessions /\ old' \subseteq Sessions
    BY <2>1, UpdateEffect
  <2>3. /\ at' \in [Calls -> {"idle", "lock", "spawn", "ready", "clear", "type", "poll", "done"}]
        /\ key' \in [Calls -> Keys] /\ mine' \in [Calls -> Sessions \cup {None}]
        /\ job' \in [Calls -> Jobs]
    BY <1>2, <2>2 DEF Enter, Request, Jobs, None
  <2>4. outcome' \in [Calls -> {"none", "closed", "failed", "answered"}]
    BY <1>2 DEF Enter
  <2>5. alive' \subseteq Sessions /\ UNCHANGED <<opened, shell, wrote, ate>>
    BY <1>2 DEF Enter, Kill
  <2> QED BY <2>2, <2>3, <2>4, <2>5
<1>3. ASSUME NEW c \in Calls, Spawn(c)
      PROVE  Places'
  <2>1. CASE opened < MaxSessions /\ opened' = opened + 1
    <3>1. opened' \in 0..MaxSessions /\ opened' \in Sessions
      BY <2>1 DEF Sessions
    <3>2. CASE Return(c, "failed") /\ UNCHANGED <<opened, alive, shell>>
      BY <1>3, <3>2 DEF Spawn
    <3>3. CASE alive' = alive \cup {opened'} /\ shell' = [shell EXCEPT ![opened'] = "login"]
      BY <1>3, <2>1, <3>1, <3>3 DEF Spawn
    <3> QED BY <1>3, <3>2, <3>3 DEF Spawn
  <2>2. CASE Return(c, "failed") /\ UNCHANGED <<opened, alive, shell>>
    BY <1>3, <2>2 DEF Spawn
  <2> QED BY <1>3, <2>1, <2>2 DEF Spawn
<1>4. ASSUME NEW c \in Calls, WaitReady(c)
      PROVE  Places'
  BY <1>4 DEF WaitReady, Kill
<1>5. ASSUME NEW c \in Calls, ClearOutput(c)
      PROVE  Places'
  BY <1>5 DEF ClearOutput
<1>6. ASSUME NEW c \in Calls, TypeLine(c) \/ Answered(c) \/ GiveUp(c)
      PROVE  Places'
  <2>1. CASE Fail(c)
    <3>1. CASE Ready(c)
      BY <1>6, <3>1 DEF Ready, TypeLine, Answered, GiveUp, Jobs
    <3>2. CASE Return(c, "failed") /\ Update({mine[c]}, {}) /\ Kill({}, {mine[c]}) /\ UNCHANGED job
      BY <1>6, <3>2, UpdateEffect DEF TypeLine, Answered, GiveUp, Kill
    <3> QED BY <2>1, <3>1, <3>2 DEF Fail
  <2>2. CASE /\ Return(c, "answered") /\ Update({}, {mine[c]})
             /\ UNCHANGED <<opened, key, job, alive, shell, wrote, ate>>
    BY <1>6, <2>2, UpdateEffect
  <2>3. CASE UNCHANGED <<lock, pool, quiet, old, mine, job, outcome, alive>> /\ Goto(c, "poll")
    BY <1>6, <2>3 DEF TypeLine, Answered, GiveUp
  <2>4. CASE Answered(c)
    BY <1>6, <2>1, <2>2, <2>4 DEF Answered, Fail
  <2> QED BY <1>6, <2>1, <2>2, <2>3, <2>4 DEF TypeLine, GiveUp
<1>7. CASE Sweep
  BY <1>7, UpdateEffect DEF Sweep, Kill
<1>8. ASSUME NEW s \in Sessions, GrowQuiet(s) \/ GrowOld(s) \/ NoticeEnd(s)
      PROVE  Places'
  BY <1>8 DEF Pooled, GrowQuiet, GrowOld, NoticeEnd
<1>9. ASSUME NEW s \in Sessions, LoggedIn(s) \/ ShellEnds(s)
      PROVE  Places'
  BY <1>9 DEF LoggedIn, ShellEnds
<1>10. ASSUME NEW s \in Sessions, ShellReads(s)
      PROVE  Places'
  <2>1. tty[s] \in Seq(Jobs \cup {"exit"})
    BY DEF Texts
  <2>2. Head(tty[s]) \in Jobs \cup {"exit"}
    BY <1>10, <2>1, TypedTail DEF ShellReads
  <2> QED BY <1>10, <2>2 DEF ShellReads
<1>11. ASSUME NEW s \in Sessions, JobWrites(s)
      PROVE  Places'
  BY <1>11 DEF JobWrites
<1>12. ASSUME NEW s \in Sessions, JobEnds(s)
      PROVE  Places'
  BY <1>12 DEF JobEnds
<1>13. ASSUME NEW s \in Sessions, Eats(s)
      PROVE  Places'
  BY <1>13 DEF Eats
<1>14. CASE UNCHANGED vars
  BY <1>14 DEF vars
<1> QED
  BY <1>1, <1>2, <1>3, <1>4, <1>5, <1>6, <1>7, <1>8, <1>9, <1>10, <1>11, <1>12, <1>13, <1>14
     DEF Next, CallStep, Over

\* Who holds the pool is who is at work under its mutex, one call at a time.
LEMMA LockedKept ==
  ASSUME TypeOK, [Next]_vars
  PROVE  Locked'
<1> USE DEF TypeOK, Locked, Places, poolVars, callVars, shellVars, Goto, Return, Update, Ready, Fail
<1>1. ASSUME NEW c \in Calls, Begin(c)
      PROVE  Locked'
  BY <1>1 DEF Begin
<1>2. ASSUME NEW c \in Calls, NEW r \in Request, Enter(c, r)
      PROVE  Locked'
  BY <1>2 DEF Enter
<1>3. ASSUME NEW c \in Calls, Spawn(c)
      PROVE  Locked'
  BY <1>3 DEF Spawn
<1>4. ASSUME NEW c \in Calls, WaitReady(c)
      PROVE  Locked'
  BY <1>4 DEF WaitReady
<1>5. ASSUME NEW c \in Calls, ClearOutput(c)
      PROVE  Locked'
  BY <1>5 DEF ClearOutput
<1>6. ASSUME NEW c \in Calls, TypeLine(c)
      PROVE  Locked'
  BY <1>6 DEF TypeLine
<1>7. ASSUME NEW c \in Calls, Answered(c)
      PROVE  Locked'
  BY <1>7 DEF Answered
<1>8. ASSUME NEW c \in Calls, GiveUp(c)
      PROVE  Locked'
  BY <1>8 DEF GiveUp
<1>9. CASE Sweep
  BY <1>9 DEF Sweep
<1>10. ASSUME NEW s \in Sessions,
              \/ GrowQuiet(s) \/ GrowOld(s) \/ NoticeEnd(s)
              \/ LoggedIn(s) \/ ShellReads(s) \/ JobWrites(s)
              \/ JobEnds(s) \/ Eats(s) \/ ShellEnds(s)
      PROVE  Locked'
  BY <1>10 DEF GrowQuiet, GrowOld, NoticeEnd, LoggedIn, ShellReads, JobWrites, JobEnds, Eats,
     ShellEnds
<1>11. CASE UNCHANGED vars
  BY <1>11 DEF vars
<1> QED
  BY <1>1, <1>2, <1>3, <1>4, <1>5, <1>6, <1>7, <1>8, <1>9, <1>10, <1>11 DEF Next, CallStep, Over

-----------------------------------------------------------------------------
(* What the actions do to calls, sessions and shells. *)

\* Only clocks move, or a thread notices that ssh has ended.
Calm ==
  UNCHANGED <<pool, opened, at, mine, job, outcome, answer, buffer, shell, tty, wrote>>

\* A call comes to the mutex.
Begun(c) ==
  /\ at[c] = "idle" /\ Goto(c, "lock")
  /\ UNCHANGED <<pool, opened, mine, job, outcome, answer, buffer, shell, tty, wrote>>

\* While nobody holds the pool, some of its sessions are killed.
Purged(dead) ==
  /\ lock = {} /\ dead \subseteq Pooled /\ Killed(dead)
  /\ \A k \in Keys : pool'[k] \in {pool[k], None}
  /\ Pooled' = Pooled \ dead
  /\ UNCHANGED <<opened, answer, shell, wrote>>

\* A call has found a session, will spawn one, or is through.
Entered(c) ==
  /\ at[c] = "lock"
  /\ \/ /\ Goto(c, "done") /\ mine' = [mine EXCEPT ![c] = None] /\ UNCHANGED job
        /\ outcome' \in {[outcome EXCEPT ![c] = how] : how \in {"closed", "failed"}}
     \/ /\ Goto(c, "spawn") /\ mine' = [mine EXCEPT ![c] = None]
        /\ UNCHANGED <<job, outcome>>
     \/ /\ Goto(c, "clear") /\ job' = [job EXCEPT ![c] = c]
        /\ mine' \in {[mine EXCEPT ![c] = s] : s \in Pooled'}
        /\ UNCHANGED outcome

Opened(c) ==
  /\ at[c] = "spawn" /\ Goto(c, "ready")
  /\ opened' = opened + 1 /\ opened' \in Sessions
  /\ mine' = [mine EXCEPT ![c] = opened']
  /\ shell' = [shell EXCEPT ![opened'] = "login"]
  /\ UNCHANGED <<pool, job, outcome, answer, buffer, tty, wrote>>

\* A call fails, and its session is dropped.
Left(c) ==
  /\ at[c] \in {"spawn", "ready", "type", "poll"}
  /\ at[c] \in {"type", "poll"} => job[c] = c
  /\ Return(c, "failed") /\ Killed({mine[c]})
  /\ \A k \in Keys : pool'[k] \in {pool[k], None}
  /\ Pooled' = Pooled \ {mine[c]}
  /\ UNCHANGED <<opened, job, answer, shell, wrote>>

\* The session of a call is ready.
Met(c) ==
  /\ at[c] = "ready" /\ Goto(c, "clear")
  /\ Line("ready", Setup, 0) \in ToSet(buffer[mine[c]])
  /\ UNCHANGED <<pool, opened, mine, job, outcome, answer, buffer, shell, tty, wrote>>

Cleared(c) ==
  /\ at[c] = "clear" /\ Goto(c, "type")
  /\ buffer' = [buffer EXCEPT ![mine[c]] = <<>>]
  /\ UNCHANGED <<pool, opened, mine, job, outcome, answer, shell, tty, wrote>>

\* The hygiene command is over: the session is pooled.
Pools(c) ==
  /\ at[c] \in {"type", "poll"} /\ Goto(c, "clear")
  /\ job[c] = Setup /\ job' = [job EXCEPT ![c] = c]
  /\ pool' = [pool EXCEPT ![key[c]] = mine[c]]
  /\ UNCHANGED <<opened, mine, outcome, answer, buffer, shell, tty, wrote>>

Typed(c) ==
  /\ at[c] = "type" /\ Goto(c, "poll")
  /\ shell[mine[c]] # "ended"
  /\ tty' = [tty EXCEPT ![mine[c]] = Append(@, job[c])]
  /\ ToSet(tty'[mine[c]]) = ToSet(tty[mine[c]]) \cup {job[c]}
  /\ buffer' \in [Sessions -> Seq(Lines)]
  /\ \A s \in Sessions : s # mine[c] => buffer'[s] = buffer[s]
  /\ ToSet(buffer'[mine[c]]) \subseteq ToSet(buffer[mine[c]]) \cup {Line("echo", job[c], 0)}
  /\ UNCHANGED <<pool, opened, mine, job, outcome, answer, shell, wrote>>

\* What a call types is lost with the ssh that has ended.
Lost(c) ==
  /\ at[c] = "type" /\ Goto(c, "poll")
  /\ shell[mine[c]] = "ended"
  /\ UNCHANGED <<pool, opened, mine, job, outcome, answer, buffer, shell, tty, wrote>>

Replied(c) ==
  /\ at[c] = "poll" /\ job[c] = c /\ Return(c, "answered")
  /\ answer' \in {[answer EXCEPT ![c] = found] : found \in Parses(buffer[mine[c]], c)}
  /\ UNCHANGED <<pool, opened, job, buffer, shell, tty, wrote>>

CallMoves(c) ==
  \/ \E dead : Purged(dead) /\ Entered(c)
  \/ Opened(c) \/ Left(c) \/ Met(c) \/ Cleared(c) \/ Pools(c)
  \/ Typed(c) \/ Lost(c) \/ Replied(c)

\* A shell reads, runs and writes while the calls stay where they are.
Apart == UNCHANGED <<pool, opened, at, mine, job, outcome, answer>>

Welcomes(s) ==
  /\ shell[s] = "login" /\ shell' = [shell EXCEPT ![s] = "prompt"]
  /\ Heard(s, Line("ready", Setup, 0)) /\ UNCHANGED <<tty, wrote>>

Exits(s) ==
  /\ shell[s] = "prompt" /\ "exit" \in ToSet(tty[s])
  /\ shell' = [shell EXCEPT ![s] = "ended"] /\ tty' = [tty EXCEPT ![s] = <<>>]
  /\ UNCHANGED <<buffer, wrote>>

Starts(s) ==
  /\ shell[s] = "prompt" /\ tty[s] # <<>>
  /\ Head(tty[s]) \in Jobs /\ Head(tty[s]) \in ToSet(tty[s])
  /\ shell' = [shell EXCEPT ![s] = Head(tty[s])]
  /\ tty' = [tty EXCEPT ![s] = Tail(@)] /\ ToSet(tty'[s]) \subseteq ToSet(tty[s])
  /\ Heard(s, Line("begin", Head(tty[s]), 0)) /\ UNCHANGED wrote

Writes(s) ==
  /\ shell[s] \in Calls
  /\ wrote' = [wrote EXCEPT ![shell[s]] = @ + 1]
  /\ Heard(s, Line("out", shell[s], wrote[shell[s]] + 1)) /\ UNCHANGED <<shell, tty>>

Finishes(s) ==
  /\ shell[s] \in Jobs /\ shell' = [shell EXCEPT ![s] = "prompt"]
  /\ \/ Heard(s, Line("end", shell[s], 0))
     \/ shell[s] \in Calls /\ Heard(s, Line("glued", shell[s], 0))
  /\ UNCHANGED <<tty, wrote>>

Swallows(s) ==
  /\ shell[s] \in Calls \cup {"login"} /\ tty[s] # <<>>
  /\ tty' = [tty EXCEPT ![s] = Tail(@)] /\ ToSet(tty'[s]) \subseteq ToSet(tty[s])
  /\ UNCHANGED <<buffer, shell, wrote>>

Breaks(s) ==
  /\ shell[s] \notin {"none", "ended"}
  /\ shell' = [shell EXCEPT ![s] = "ended"] /\ tty' = [tty EXCEPT ![s] = <<>>]
  /\ UNCHANGED <<buffer, wrote>>

ShellMoves(s) ==
  /\ Apart
  /\ \/ Welcomes(s) \/ Exits(s) \/ Starts(s) \/ Writes(s)
     \/ Finishes(s) \/ Swallows(s) \/ Breaks(s)

Moves ==
  \/ Calm
  \/ \E c \in Calls : Begun(c) \/ CallMoves(c)
  \/ (\E dead : Purged(dead)) /\ UNCHANGED <<at, mine, job, outcome>>
  \/ \E s \in Sessions : ShellMoves(s)

\* Under the mutex a call sweeps, and finds a session or not.
LEMMA EnterMoves ==
  ASSUME TypeOK, NEW c \in Calls, NEW r \in Request, Enter(c, r)
  PROVE  CallMoves(c)
<1> DEFINE dead == Swept \cup Refused(r)
<1>1. Killed(dead)
  <2>1. Killed((IF r.policy = "new" THEN Swept \cup Refused(r) ELSE Swept) \cup Refused(r))
    BY KillEffect DEF Enter
  <2>2. (IF r.policy = "new" THEN Swept \cup Refused(r) ELSE Swept) \cup Refused(r) = dead
    OBVIOUS
  <2> QED BY <2>1, <2>2
<1>2. /\ \A k \in Keys : pool'[k] \in {pool[k], None}
      /\ pool' \in [Keys -> Sessions \cup {None}]
      /\ Pooled' = Pooled \ dead
  BY UpdateEffect DEF Enter
<1>3. Purged(dead)
  BY <1>1, <1>2 DEF Enter, Purged, Swept, Refused, Pooled, Request
<1>4. Entered(c)
  <2>1. pool'[r.key] # None => pool'[r.key] \in Pooled'
    BY <1>2 DEF Pooled, Request
  <2>2. CASE Return(c, "closed") /\ UNCHANGED <<key, job>>
    BY <2>2 DEF Enter, Entered, Return
  <2>3. CASE Return(c, "failed") /\ UNCHANGED <<key, job>>
    BY <2>3 DEF Enter, Entered, Return
  <2>4. CASE /\ mine' = [mine EXCEPT ![c] = pool'[r.key]] /\ UNCHANGED outcome
             /\ \/ mine'[c] = None /\ Goto(c, "spawn") /\ UNCHANGED job
                \/ mine'[c] # None /\ Goto(c, "clear") /\ job' = [job EXCEPT ![c] = c]
    <3>1. mine'[c] = pool'[r.key]
      BY <2>4 DEF TypeOK, Places
    <3> QED BY <2>1, <2>4, <3>1 DEF Enter, Entered
  <2> QED BY <2>2, <2>3, <2>4 DEF Enter
<1> QED BY <1>3, <1>4 DEF CallMoves

\* What a call does while it holds the pool.
LEMMA OthersMove ==
  ASSUME TypeOK, Placed, NEW c \in Calls,
         Spawn(c) \/ WaitReady(c) \/ ClearOutput(c) \/ TypeLine(c) \/ Answered(c) \/ GiveUp(c)
  PROVE  CallMoves(c)
<1> USE DEF poolVars, callVars, shellVars
<1>1. /\ pool \in [Keys -> Sessions \cup {None}] /\ mine \in [Calls -> Sessions \cup {None}]
      /\ buffer \in [Sessions -> Seq(Lines)] /\ tty \in [Sessions -> Seq(Jobs \cup {"exit"})]
      /\ job \in [Calls -> Jobs] /\ key \in [Calls -> Keys]
  BY DEF TypeOK, Places, Texts
<1>2. at[c] \in {"ready", "clear", "type", "poll"} => mine[c] \in Sessions
  BY BoundsAssumption DEF TypeOK, Places, Placed, Sessions
<1>3. CASE Spawn(c)
  <2>1. CASE opened < MaxSessions /\ opened' = opened + 1
    <3>1. opened' \in Sessions
      BY <2>1, BoundsAssumption DEF TypeOK, Places, Sessions
    <3>2. opened' # opened
      BY <2>1 DEF TypeOK, Places
    <3> QED BY <1>3, <2>1, <3>1, <3>2 DEF Spawn, Opened, CallMoves
  <2>2. CASE Return(c, "failed") /\ UNCHANGED <<opened, alive, shell>>
    <3>1. mine[c] = None
      BY <1>3 DEF Spawn, Placed
    <3>2. Killed({mine[c]})
      BY <1>1, <1>3 DEF Spawn, Killed
    <3>3. Pooled' = Pooled \ {mine[c]}
      BY <1>3, <3>1 DEF Spawn, Pooled
    <3> QED BY <1>3, <2>2, <3>2, <3>3 DEF Spawn, Left, CallMoves
  <2> QED BY <1>3, <2>1, <2>2 DEF Spawn
<1>4. CASE WaitReady(c)
  <2>1. CASE Goto(c, "clear")
    BY <1>4, <2>1 DEF WaitReady, Met, CallMoves, Return, Goto, TypeOK, Places
  <2>2. CASE Return(c, "failed") /\ Kill({}, {mine[c]})
    <3>1. Killed({} \cup {mine[c]})
      BY <2>2, KillEffect
    <3>2. Killed({mine[c]})
      BY <3>1
    <3>3. Pooled' = Pooled \ {mine[c]}
      BY <1>4 DEF WaitReady, Pooled, Placed
    <3> QED BY <1>4, <2>2, <3>2, <3>3 DEF WaitReady, Left, CallMoves
  <2> QED BY <1>4, <2>1, <2>2 DEF WaitReady
<1>5. CASE ClearOutput(c)
  BY <1>5 DEF ClearOutput, Cleared, CallMoves
<1>6. ASSUME at[c] \in {"type", "poll"}, Fail(c), UNCHANGED <<opened, answer, shell, wrote>>
      PROVE  CallMoves(c)
  <2>1. CASE Ready(c)
    BY <1>6, <2>1 DEF Ready, Pools, CallMoves
  <2>2. CASE /\ job[c] = c /\ Return(c, "failed")
             /\ Update({mine[c]}, {}) /\ Kill({}, {mine[c]}) /\ UNCHANGED job
    <3>1. Killed({} \cup {mine[c]})
      BY <2>2, KillEffect
    <3>2. Killed({mine[c]})
      BY <3>1
    <3>3. /\ \A k \in Keys : pool'[k] \in {pool[k], None}
          /\ Pooled' = Pooled \ {mine[c]}
      BY <2>2, UpdateEffect
    <3> QED BY <1>6, <2>2, <3>2, <3>3 DEF Left, CallMoves
  <2> QED BY <1>6, <2>1, <2>2 DEF Fail
<1>7. CASE TypeLine(c)
  <2>1. /\ mine[c] \in Sessions
        /\ tty[mine[c]] \in Seq(Jobs \cup {"exit"})
        /\ buffer[mine[c]] \in Seq(Lines)
    BY <1>1, <1>2, <1>7 DEF TypeLine
  <2>2. CASE Fail(c)
    BY <1>6, <1>7, <2>2 DEF TypeLine
  <2>3. CASE /\ shell[mine[c]] = "ended" /\ Goto(c, "poll")
             /\ UNCHANGED <<lock, pool, quiet, old, mine, job, outcome, alive, buffer, tty>>
    BY <1>7, <2>3 DEF TypeLine, Lost, CallMoves
  <2>4. ASSUME /\ shell[mine[c]] # "ended" /\ Goto(c, "poll")
               /\ UNCHANGED <<lock, pool, quiet, old, mine, job, outcome, alive>>
               /\ tty' = [tty EXCEPT ![mine[c]] = Append(@, job[c])],
               NEW echo \in {<<>>, <<Line("echo", job[c], 0)>>},
               buffer' = [buffer EXCEPT ![mine[c]] = @ \o echo]
        PROVE  CallMoves(c)
    <3>1. ToSet(tty'[mine[c]]) = ToSet(tty[mine[c]]) \cup {job[c]}
      <4>1. tty'[mine[c]] = Append(tty[mine[c]], job[c])
        BY <1>1, <2>1, <2>4
      <4>2. job[c] \in Jobs \cup {"exit"}
        BY <1>1
      <4> QED BY <2>1, <4>1, <4>2, Appended
    <3> DEFINE line == Line("echo", job[c], 0)
    <3>2. line \in Lines
      BY <1>1, BoundsAssumption DEF Lines, Line
    <3>3. /\ buffer'[mine[c]] \in Seq(Lines)
          /\ ToSet(buffer'[mine[c]]) \subseteq ToSet(buffer[mine[c]]) \cup {line}
      <4>1. buffer'[mine[c]] = buffer[mine[c]] \o echo
        BY <1>1, <2>1, <2>4
      <4> HIDE DEF line
      <4>2. CASE echo = <<>>
        BY <2>1, <4>1, <4>2, ConcatEmptySeq
      <4>3. CASE echo = <<line>>
        <5>1. buffer'[mine[c]] = Append(buffer[mine[c]], line)
          BY <2>1, <3>2, <4>1, <4>3
        <5> QED BY <2>1, <3>2, <5>1, Appended, AppendProperties
      <4> QED BY <2>4, <4>2, <4>3 DEF line
    <3>4. /\ buffer' \in [Sessions -> Seq(Lines)]
          /\ \A s \in Sessions : s # mine[c] => buffer'[s] = buffer[s]
      BY <1>1, <2>1, <2>4, <3>3
    <3> QED BY <1>7, <2>4, <3>1, <3>3, <3>4 DEF TypeLine, Typed, CallMoves
  <2> QED BY <1>7, <2>2, <2>3, <2>4 DEF TypeLine
<1>8. CASE GiveUp(c)
  BY <1>6, <1>8 DEF GiveUp
<1>9. CASE Answered(c)
  <2>1. CASE Ready(c) /\ UNCHANGED answer
    BY <1>6, <1>9, <2>1 DEF Answered, Fail
  <2>2. ASSUME NEW found \in Parses(buffer[mine[c]], job[c]),
               /\ job[c] = c
               /\ answer' = [answer EXCEPT ![c] = found]
               /\ Update({}, {mine[c]})
               /\ Return(c, "answered")
               /\ UNCHANGED <<job, alive, buffer, tty>>
        PROVE  CallMoves(c)
    <3>1. pool' = pool
      BY <1>1, <2>2 DEF Update
    <3> QED BY <1>9, <2>2, <3>1 DEF Answered, Replied, CallMoves
  <2> QED BY <1>9, <2>1, <2>2 DEF Answered
<1> QED BY <1>3, <1>4, <1>5, <1>7, <1>8, <1>9

\* What the threads and the shell of a session do.
LEMMA ShellsMove ==
  ASSUME TypeOK, NEW s \in Sessions,
         LoggedIn(s) \/ ShellReads(s) \/ JobWrites(s) \/ JobEnds(s) \/ Eats(s) \/ ShellEnds(s)
  PROVE  ShellMoves(s)
<1> USE DEF poolVars, callVars, shellVars
<1>1. /\ buffer \in [Sessions -> Seq(Lines)] /\ tty \in [Sessions -> Seq(Jobs \cup {"exit"})]
      /\ shell \in [Sessions -> {"none", "login", "prompt", "ended"} \cup Jobs]
      /\ wrote \in [Calls -> 0..MaxOut] /\ MaxOut \in Nat
  BY BoundsAssumption DEF TypeOK, Places, Texts
<1>2. Apart
  BY DEF LoggedIn, ShellReads, JobWrites, JobEnds, Eats, ShellEnds, Apart
<1>3. \A j \in Jobs : \A tag \in {"ready", "begin", "end", "glued"} : Line(tag, j, 0) \in Lines
  BY <1>1 DEF Lines, Line
<1>4. Setup \in Jobs /\ Calls \subseteq Jobs
  BY DEF Jobs
<1>5. CASE LoggedIn(s)
  <2>1. Heard(s, Line("ready", Setup, 0))
    BY <1>3, <1>4, <1>5, HearEffect DEF LoggedIn
  <2> QED BY <1>2, <1>5, <2>1 DEF LoggedIn, Welcomes, ShellMoves
<1>6. CASE ShellReads(s)
  <2>1. /\ Head(tty[s]) \in ToSet(tty[s]) /\ Head(tty[s]) \in Jobs \cup {"exit"}
        /\ ToSet(Tail(tty[s])) \subseteq ToSet(tty[s])
    BY <1>1, <1>6, TypedTail DEF ShellReads
  <2>2. CASE Head(tty[s]) = "exit"
    BY <1>2, <1>6, <2>1, <2>2 DEF ShellReads, Exits, ShellMoves
  <2>3. CASE Head(tty[s]) # "exit"
    <3>1. Head(tty[s]) \in Jobs
      BY <2>1, <2>3
    <3>2. Heard(s, Line("begin", Head(tty[s]), 0))
      BY <1>3, <1>6, <2>3, <3>1, HearEffect DEF ShellReads
    <3>3. tty'[s] = Tail(tty[s])
      BY <1>1, <1>6, <2>3 DEF ShellReads
    <3> QED BY <1>2, <1>6, <2>1, <2>3, <3>1, <3>2, <3>3 DEF ShellReads, Starts, ShellMoves
  <2> QED BY <2>2, <2>3
<1>7. CASE JobWrites(s)
  <2>1. /\ wrote[shell[s]] + 1 \in 0..MaxOut
        /\ wrote'[shell[s]] = wrote[shell[s]] + 1
    BY <1>1, <1>7 DEF JobWrites
  <2>2. Line("out", shell[s], wrote[shell[s]] + 1) \in Lines
    BY <1>4, <1>7, <2>1 DEF JobWrites, Lines, Line
  <2>3. Heard(s, Line("out", shell[s], wrote[shell[s]] + 1))
    BY <1>7, <2>1, <2>2, HearEffect DEF JobWrites
  <2> QED BY <1>2, <1>7, <2>3 DEF JobWrites, Writes, ShellMoves
<1>8. CASE JobEnds(s)
  <2>1. shell[s] \in Jobs
    BY <1>8 DEF JobEnds
  <2>2. \/ Heard(s, Line("end", shell[s], 0))
        \/ shell[s] \in Calls /\ Heard(s, Line("glued", shell[s], 0))
    BY <1>3, <1>8, <2>1, HearEffect DEF JobEnds
  <2> QED BY <1>2, <1>8, <2>2 DEF JobEnds, Finishes, ShellMoves
<1>9. CASE Eats(s)
  <2>1. ToSet(Tail(tty[s])) \subseteq ToSet(tty[s]) /\ tty'[s] = Tail(tty[s])
    BY <1>1, <1>9, TypedTail DEF Eats
  <2> QED BY <1>2, <1>9, <2>1 DEF Eats, Swallows, ShellMoves
<1>10. CASE ShellEnds(s)
  BY <1>2, <1>10 DEF ShellEnds, Breaks, ShellMoves
<1> QED BY <1>5, <1>6, <1>7, <1>8, <1>9, <1>10

\* Every step of the model is one of these moves.
LEMMA StepMoves ==
  ASSUME TypeOK, Placed, [Next]_vars
  PROVE  Moves
<1> USE DEF poolVars, callVars, shellVars
<1>1. ASSUME NEW c \in Calls, Begin(c)
      PROVE  Begun(c)
  BY <1>1 DEF Begin, Begun
<1>2. ASSUME NEW c \in Calls, CallStep(c)
      PROVE  CallMoves(c)
  BY <1>2, EnterMoves, OthersMove DEF CallStep
<1>3. CASE Sweep
  <2>1. Killed(Swept \cup {})
    BY <1>3, KillEffect DEF Sweep
  <2>2. Killed(Swept)
    BY <2>1
  <2>3. /\ \A k \in Keys : pool'[k] \in {pool[k], None}
        /\ Pooled' = Pooled \ Swept
    BY <1>3, UpdateEffect DEF Sweep
  <2>4. Purged(Swept)
    BY <1>3, <2>2, <2>3 DEF Sweep, Purged, Swept
  <2> QED BY <1>3, <2>4 DEF Sweep, Moves
<1>4. ASSUME NEW s \in Sessions, GrowQuiet(s) \/ GrowOld(s) \/ NoticeEnd(s)
      PROVE  Calm
  BY <1>4 DEF GrowQuiet, GrowOld, NoticeEnd, Calm
<1>5. CASE UNCHANGED vars
  BY <1>5 DEF vars, Calm, Moves
<1> QED BY <1>1, <1>2, <1>3, <1>4, <1>5, ShellsMove DEF Next, Moves, Over

\* Texts are made of lines, and what is typed of jobs and exits.
LEMMA TextsKept ==
  ASSUME TypeOK, Placed, [Next]_vars
  PROVE  Texts'
<1> USE DEF Goto, Return
<1>1. /\ buffer \in [Sessions -> Seq(Lines)] /\ tty \in [Sessions -> Seq(Jobs \cup {"exit"})]
      /\ answer \in [Calls -> Seq(Lines)] /\ job \in [Calls -> Jobs]
  BY DEF TypeOK, Places, Texts
<1>2. ASSUME NEW dead, Purged(dead)
      PROVE  Texts'
  BY <1>1, <1>2 DEF Purged, Killed, Texts
<1>3. ASSUME NEW c \in Calls, CallMoves(c)
      PROVE  Texts'
  <2>1. CASE Opened(c) \/ Met(c) \/ Pools(c) \/ Lost(c)
    BY <1>1, <2>1 DEF Opened, Met, Pools, Lost, Texts
  <2>2. CASE Left(c)
    BY <1>1, <2>2 DEF Left, Killed, Texts
  <2>3. CASE Cleared(c)
    <3>1. <<>> \in Seq(Lines)
      OBVIOUS
    <3> QED BY <1>1, <2>3, <3>1 DEF Cleared, Texts
  <2>4. CASE Typed(c)
    <3>1. ASSUME NEW s \in Sessions PROVE Append(tty[s], job[c]) \in Seq(Jobs \cup {"exit"})
      <4>1. tty[s] \in Seq(Jobs \cup {"exit"}) /\ job[c] \in Jobs \cup {"exit"}
        BY <1>1
      <4> QED BY <4>1, AppendProperties
    <3> QED BY <1>1, <2>4, <3>1 DEF Typed, Texts
  <2>5. CASE Replied(c)
    <3>1. mine[c] \in Sessions
      BY <2>5, BoundsAssumption DEF Replied, TypeOK, Places, Placed, Sessions
    <3>2. ASSUME NEW found \in Parses(buffer[mine[c]], c)
          PROVE  found \in Seq(Lines)
      <4> DEFINE lines == buffer[mine[c]]
      <4>1. lines \in Seq(Lines)
        BY <1>1, <3>1
      <4>2. PICK span \in Begins(lines, c) \X Ends(lines, c) :
              found = SubSeq(lines, span[1] + 1, span[2])
        BY DEF Parses, Spans
      <4>3. span[1] \in DOMAIN lines /\ span[2] \in DOMAIN lines
        BY <4>2 DEF Begins, Ends
      <4>4. span[1] \in 1..Len(lines) /\ span[2] \in 1..Len(lines) /\ Len(lines) \in Nat
        BY <4>1, <4>3, LenProperties
      <4>5. span[1] + 1 \in Nat /\ span[2] \in Nat /\ span[1] + 1 >= 1
        BY <4>4
      <4> HIDE DEF lines
      <4> QED BY <4>1, <4>2, <4>4, <4>5, SubSeqProperties
    <3> QED BY <1>1, <2>5, <3>2 DEF Replied, Texts
  <2> QED BY <1>2, <1>3, <2>1, <2>2, <2>3, <2>4, <2>5 DEF CallMoves
<1>4. ASSUME NEW s \in Sessions, ShellMoves(s)
      PROVE  Texts'
  <2>1. <<>> \in Seq(Jobs \cup {"exit"})
    OBVIOUS
  <2>2. tty[s] # <<>> => Tail(tty[s]) \in Seq(Jobs \cup {"exit"})
    BY <1>1, TypedTail
  <2>3. tty' \in [Sessions -> Seq(Jobs \cup {"exit"})]
    BY <1>1, <1>4, <2>1, <2>2 DEF ShellMoves, Welcomes, Exits, Starts, Writes, Finishes, Swallows,
       Breaks
  <2>4. buffer' \in [Sessions -> Seq(Lines)]
    BY <1>1, <1>4 DEF ShellMoves, Welcomes, Exits, Starts, Writes, Finishes, Swallows, Breaks, Heard
  <2> QED BY <1>1, <1>4, <2>3, <2>4 DEF ShellMoves, Apart, Texts
<1>5. CASE Calm \/ \E c \in Calls : Begun(c)
  BY <1>1, <1>5 DEF Calm, Begun, Texts
<1> QED BY <1>2, <1>3, <1>4, <1>5, StepMoves DEF Moves

\* Types are kept.
LEMMA TypesKept ==
  ASSUME TypeOK, Placed, [Next]_vars
  PROVE  TypeOK'
  BY LockedKept, PlacesKept, TextsKept DEF TypeOK

\* What can be reached could be before, unless a call has just opened it.
LEMMA HeldGrows ==
  ASSUME TypeOK, Placed, Moves, NEW s \in Sessions, s \in Held'
  PROVE  s \in Held \/ (s = opened + 1 /\ opened' = opened + 1)
<1> USE DEF Goto, Return
<1>1. /\ pool \in [Keys -> Sessions \cup {None}] /\ mine \in [Calls -> Sessions \cup {None}]
      /\ \A c \in Calls : at[c] \in {"idle", "lock", "spawn", "done"} => mine[c] = None
  BY DEF TypeOK, Places, Placed
<1>2. s # None
  BY BoundsAssumption DEF Sessions, None
<1>3. CASE UNCHANGED <<pool, mine>>
  BY <1>3 DEF Held, Pooled
<1>4. ASSUME NEW dead, Purged(dead), UNCHANGED mine
      PROVE  s \in Held
  BY <1>4 DEF Held, Purged
<1>5. ASSUME NEW c \in Calls, CallMoves(c)
      PROVE  s \in Held \/ (s = opened + 1 /\ opened' = opened + 1)
  <2>1. ASSUME NEW dead, Purged(dead), Entered(c)
        PROVE  s \in Held
    BY <1>1, <1>2, <2>1 DEF Held, Purged, Entered
  <2>2. CASE Opened(c)
    BY <1>1, <1>2, <2>2 DEF Held, Opened, Pooled
  <2>3. CASE Left(c)
    BY <1>1, <1>2, <2>3 DEF Held, Left
  <2>4. CASE Pools(c)
    BY <1>1, <1>2, <2>4 DEF Held, Pools, Pooled
  <2>5. CASE Replied(c)
    BY <1>1, <1>2, <2>5 DEF Held, Replied, Pooled
  <2>6. CASE Met(c) \/ Cleared(c) \/ Typed(c) \/ Lost(c)
    BY <1>3, <2>6 DEF Met, Cleared, Typed, Lost
  <2> QED BY <1>5, <2>1, <2>2, <2>3, <2>4, <2>5, <2>6 DEF CallMoves
<1> QED BY <1>3, <1>4, <1>5 DEF Moves, Calm, Begun, ShellMoves, Apart

\* Only to type a command makes it pending.
LEMMA PendingGrows ==
  ASSUME TypeOK, Placed, Moves, NEW c \in Calls, NEW s \in Sessions, Pending(c, s)'
  PROVE  Pending(c, s) \/ (Typed(c) /\ job[c] = c /\ s = mine[c])
<1>1. /\ tty \in [Sessions -> Seq(Jobs \cup {"exit"})]
      /\ shell \in [Sessions -> {"none", "login", "prompt", "ended"} \cup Jobs]
      /\ mine \in [Calls -> Sessions \cup {None}]
  BY DEF TypeOK, Places, Texts
<1>2. c \in Jobs /\ c \notin {"exit", "none", "login", "prompt", "ended"} /\ c # Setup
  BY JobsAssumption, BoundsAssumption DEF Jobs
<1>3. ToSet(<<>>) = {}
  BY DEF ToSet
<1>4. CASE UNCHANGED <<shell, tty>>
  BY <1>4 DEF Pending
<1>5. ASSUME NEW dead, Killed(dead), UNCHANGED shell
      PROVE  Pending(c, s)
  BY <1>2, <1>5 DEF Killed, Pending
<1>6. ASSUME NEW d \in Calls, CallMoves(d)
      PROVE  Pending(c, s) \/ (Typed(c) /\ job[c] = c /\ s = mine[c])
  <2>1. CASE Opened(d)
    BY <1>1, <1>2, <2>1 DEF Opened, Pending
  <2>2. CASE Typed(d)
    <3>1. CASE s # mine[d]
      BY <1>1, <2>2, <3>1 DEF Typed, Pending
    <3>2. CASE s = mine[d]
      <4>1. job[d] \in {Setup, d}
        BY <2>2 DEF Typed, Placed
      <4> QED BY <1>2, <2>2, <3>2, <4>1 DEF Typed, Pending
    <3> QED BY <3>1, <3>2
  <2> QED BY <1>4, <1>5, <1>6, <2>1, <2>2
      DEF CallMoves, Purged, Left, Met, Cleared, Pools, Lost, Replied
<1>7. ASSUME NEW t \in Sessions, ShellMoves(t)
      PROVE  Pending(c, s)
  BY <1>1, <1>2, <1>3, <1>7
  DEF ShellMoves, Welcomes, Exits, Starts, Writes, Finishes, Swallows, Breaks, Pending
<1> QED BY <1>4, <1>5, <1>6, <1>7 DEF Moves, Calm, Begun, Purged

\* A line of a command comes only from where the command is pending.
LEMMA BufferGrows ==
  ASSUME TypeOK, Placed, Moves, NEW c \in Calls, NEW s \in Sessions, ~Pending(c, s),
         NEW l \in ToSet(buffer'[s]), Own(l, c)
  PROVE  l \in ToSet(buffer[s])
<1>1. buffer \in [Sessions -> Seq(Lines)]
  BY DEF TypeOK, Texts
<1>2. c # Setup /\ shell[s] # c /\ c \notin ToSet(tty[s])
  BY BoundsAssumption DEF Pending
<1>3. ToSet(<<>>) = {}
  BY DEF ToSet
<1>4. ASSUME NEW dead, Killed(dead)
      PROVE  l \in ToSet(buffer[s])
  BY <1>4 DEF Killed
<1>5. ASSUME NEW d \in Calls, CallMoves(d)
      PROVE  l \in ToSet(buffer[s])
  <2>1. CASE Cleared(d)
    BY <1>1, <1>3, <2>1 DEF Cleared
  <2>2. CASE Typed(d)
    <3>1. ~Own(Line("echo", job[d], 0), c)
      BY DEF Own, Line
    <3> QED BY <2>2, <3>1 DEF Typed
  <2> QED BY <1>4, <1>5, <2>1, <2>2
      DEF CallMoves, Purged, Left, Met, Opened, Pools, Lost, Replied
<1>6. ASSUME NEW t \in Sessions, ShellMoves(t)
      PROVE  l \in ToSet(buffer[s])
  <2>1. CASE UNCHANGED buffer
    BY <2>1
  <2>2. ASSUME NEW line, Heard(t, line), t = s => ~Own(line, c)
        PROVE  l \in ToSet(buffer[s])
    BY <2>2 DEF Heard
  <2>3. CASE Welcomes(t)
    BY <1>2, <2>2, <2>3 DEF Welcomes, Own, Line
  <2>4. CASE Starts(t)
    BY <1>2, <2>2, <2>4 DEF Starts, Own, Line
  <2>5. CASE Writes(t)
    BY <1>2, <2>2, <2>5 DEF Writes, Own, Line
  <2>6. CASE Finishes(t)
    BY <1>2, <2>2, <2>6 DEF Finishes, Own, Line
  <2> QED BY <1>6, <2>1, <2>3, <2>4, <2>5, <2>6 DEF ShellMoves, Exits, Swallows, Breaks
<1> QED BY <1>4, <1>5, <1>6 DEF Moves, Calm, Begun, Purged

-----------------------------------------------------------------------------
(* The invariant, conjunct by conjunct. *)

\* Where calls are, and what they hold there.
LEMMA PlacedKept ==
  ASSUME TypeOK, Placed, TypeOK', Moves
  PROVE  Placed'
<1> USE DEF Goto, Return
<1>1. /\ pool \in [Keys -> Sessions \cup {None}] /\ mine \in [Calls -> Sessions \cup {None}]
      /\ job \in [Calls -> Jobs] /\ outcome \in [Calls -> {"none", "closed", "failed", "answered"}]
      /\ at \in [Calls -> {"idle", "lock", "spawn", "ready", "clear", "type", "poll", "done"}]
      /\ key \in [Calls -> Keys]
      /\ tty \in [Sessions -> Seq(Jobs \cup {"exit"})] /\ buffer \in [Sessions -> Seq(Lines)]
      /\ shell \in [Sessions -> {"none", "login", "prompt", "ended"} \cup Jobs]
  BY DEF TypeOK, Places, Texts
<1>2. opened \in Nat /\ opened' \in Nat /\ MaxSessions \in Nat /\ None = 0
  BY BoundsAssumption DEF TypeOK, Places, None
<1>3. opened' \in {opened, opened + 1}
  BY DEF Moves, Calm, Begun, CallMoves, Purged, Opened, Left, Met, Cleared, Pools, Typed,
         Lost, Replied, ShellMoves, Apart
<1>4. \A k \in Keys : pool'[k] \in 0..opened'
  <2>1. \A k \in Keys : pool'[k] \in 0..opened
    <3>1. CASE UNCHANGED pool
      BY <3>1 DEF Placed
    <3>2. CASE \A k \in Keys : pool'[k] \in {pool[k], None}
      BY <1>2, <3>2 DEF Placed
    <3>3. ASSUME NEW c \in Calls, Pools(c)
          PROVE  \A k \in Keys : pool'[k] \in 0..opened
      <4>1. mine[c] \in 0..opened
        BY <1>2, <3>3 DEF Pools, Placed
      <4> QED BY <1>1, <3>3, <4>1 DEF Pools, Placed
    <3> QED BY <3>1, <3>2, <3>3 DEF Moves, Calm, Begun, CallMoves, Purged, Opened, Left, Met,
            Cleared, Typed, Lost, Replied, ShellMoves, Apart
  <2> QED BY <1>2, <1>3, <2>1
<1>5. ASSUME NEW s \in Sessions, s > opened'
      PROVE  shell'[s] = "none" /\ tty'[s] = <<>> /\ buffer'[s] = <<>>
  <2>1. s > opened /\ s \in Nat
    BY <1>2, <1>3, <1>5 DEF Sessions
  <2>2. shell[s] = "none" /\ tty[s] = <<>> /\ buffer[s] = <<>>
    BY <2>1 DEF Placed
  <2>3. s \notin Pooled /\ \A c \in Calls : mine[c] # s
    <3>1. \A k \in Keys : pool[k] # s
      BY <1>2, <2>1 DEF Placed
    <3>2. \A c \in Calls : mine[c] # s
      BY <1>2, <2>1 DEF Placed
    <3> QED BY <3>1, <3>2 DEF Pooled
  <2>4. s \notin Held
    BY <2>3 DEF Held
  <2>5. ASSUME NEW dead, Killed(dead)
        PROVE  buffer'[s] = buffer[s] /\ (s \notin dead => tty'[s] = tty[s])
    <3>0. ToSet(<<>>) = {}
      BY DEF ToSet
    <3>1. ToSet(buffer'[s]) = {}
      BY <2>2, <2>5, <3>0 DEF Killed
    <3>2. buffer'[s] \in Seq(Lines)
      BY <2>5 DEF Killed
    <3>3. Len(buffer'[s]) \in Nat /\ DOMAIN buffer'[s] = 1..Len(buffer'[s])
      BY <3>2, LenProperties
    <3>4. DOMAIN buffer'[s] = {}
      BY <3>1 DEF ToSet
    <3>5. Len(buffer'[s]) = 0
      <4>1. CASE Len(buffer'[s]) # 0
        <5>1. 1 \in 1..Len(buffer'[s])
          BY <3>3, <4>1
        <5> QED BY <3>3, <3>4, <5>1
      <4> QED BY <4>1
    <3>6. buffer'[s] = <<>>
      BY <3>2, <3>5, EmptySeq
    <3> QED BY <2>2, <2>5, <3>6 DEF Killed
  <2>6. ASSUME NEW dead, Purged(dead)
        PROVE  shell'[s] = "none" /\ tty'[s] = <<>> /\ buffer'[s] = <<>>
    BY <2>2, <2>3, <2>5, <2>6 DEF Purged
  <2>7. ASSUME NEW c \in Calls, CallMoves(c)
        PROVE  shell'[s] = "none" /\ tty'[s] = <<>> /\ buffer'[s] = <<>>
    <3>1. CASE Opened(c)
      <4>1. s # opened'
        BY <1>2, <1>5
      <4> QED BY <1>1, <2>2, <3>1, <4>1 DEF Opened
    <3>2. CASE Left(c)
      BY <2>2, <2>3, <2>5, <3>2 DEF Left
    <3>3. CASE Cleared(c)
      BY <1>1, <2>2, <2>3, <3>3 DEF Cleared
    <3>4. CASE Typed(c)
      BY <1>1, <2>2, <2>3, <3>4 DEF Typed
    <3> QED BY <2>2, <2>6, <2>7, <3>1, <3>2, <3>3, <3>4
        DEF CallMoves, Met, Pools, Lost, Replied
  <2>8. ASSUME NEW t \in Sessions, ShellMoves(t)
        PROVE  shell'[s] = "none" /\ tty'[s] = <<>> /\ buffer'[s] = <<>>
    <3>1. t # s
      BY <2>2, <2>8, JobsAssumption DEF ShellMoves, Welcomes, Exits, Starts, Writes, Finishes,
         Swallows, Breaks, Jobs
    <3> QED BY <1>1, <2>2, <2>8, <3>1 DEF ShellMoves, Welcomes, Exits, Starts, Writes, Finishes,
            Swallows, Breaks, Heard
  <2> QED BY <2>2, <2>6, <2>7, <2>8 DEF Moves, Calm, Begun
<1> DEFINE Put(c) ==
      /\ at[c] \notin {"ready", "clear", "type", "poll"} => mine[c] = None
      /\ at[c] \in {"ready", "clear", "type", "poll"} => mine[c] \in 1..opened
      /\ at[c] = "ready" => mine[c] \notin Pooled
      /\ at[c] \in {"spawn", "ready"} => job[c] = Setup
      /\ at[c] \in {"clear", "type", "poll"} => job[c] \in {Setup, c}
      /\ at[c] \in {"idle", "lock"} => job[c] = Setup
      /\ outcome[c] # "none" => at[c] = "done"
<1>6. ASSUME NEW d \in Calls PROVE Put(d)'
  <2>1. Put(d)
    BY DEF Placed
  <2>2. 1..opened \subseteq 1..opened'
    BY <1>2, <1>3
  <2>3. ASSUME UNCHANGED <<at[d], mine[d], job[d], outcome[d]>>,
               Pooled' \subseteq Pooled \/ (lock # {} /\ d \notin lock)
        PROVE  Put(d)'
    <3>1. at[d] = "ready" => d \in lock
      BY DEF TypeOK, Locked
    <3> QED BY <2>1, <2>2, <2>3, <3>1
  <2>4. ASSUME NEW dead, Purged(dead), UNCHANGED <<at, mine, job, outcome>>
        PROVE  Put(d)'
    BY <2>3, <2>4 DEF Purged
  <2>5. ASSUME NEW c \in Calls, Begun(c)
        PROVE  Put(d)'
    BY <1>1, <2>1, <2>5 DEF Begun, Pooled
  <2>6. ASSUME NEW c \in Calls, CallMoves(c), d # c
        PROVE  Put(d)'
    <3>1. UNCHANGED <<at[d], mine[d], job[d], outcome[d]>>
      BY <1>1, <2>6 DEF CallMoves, Purged, Entered, Opened, Left, Met, Cleared, Pools, Typed,
         Lost, Replied
    <3>2. CASE Pools(c)
      <4>1. c \in lock
        BY <3>2 DEF Pools, TypeOK, Locked
      <4>2. d \notin lock
        BY <2>6, <4>1, Alone
      <4> QED BY <2>3, <3>1, <4>1, <4>2
    <3>3. CASE ~Pools(c)
      <4>1. Pooled' \subseteq Pooled
        BY <2>6, <3>3 DEF CallMoves, Purged, Opened, Left, Met, Cleared, Typed, Lost,
           Replied, Pooled
      <4> QED BY <2>3, <3>1, <4>1
    <3> QED BY <3>2, <3>3
  <2>7. CASE CallMoves(d)
    <3>1. ASSUME NEW dead, Purged(dead), Entered(d)
          PROVE  Put(d)'
      <4>1. \A k \in Keys : pool'[k] \in 0..opened
        BY <1>4, <3>1 DEF Purged
      <4>2. \A s \in Pooled' : s \in 1..opened
        BY <1>2, <4>1 DEF Pooled
      <4>3. outcome[d] = "none" /\ job[d] = Setup /\ opened' = opened
        BY <2>1, <3>1 DEF Entered, Purged
      <4> QED BY <1>1, <3>1, <4>2, <4>3 DEF Entered
    <3>2. CASE Opened(d)
      <4>1. mine'[d] = opened' /\ opened' \in 1..opened' /\ outcome'[d] = "none"
            /\ job'[d] = Setup /\ at'[d] = "ready"
        BY <1>1, <1>2, <2>1, <3>2 DEF Opened
      <4>2. \A k \in Keys : pool'[k] # opened'
        BY <1>2, <3>2 DEF Opened, Placed
      <4> QED BY <4>1, <4>2 DEF Pooled
    <3>3. CASE Left(d) \/ Replied(d)
      BY <1>1, <2>1, <3>3 DEF Left, Replied
    <3>4. CASE Met(d) \/ Cleared(d) \/ Pools(d) \/ Typed(d) \/ Lost(d)
      BY <1>1, <2>1, <3>4 DEF Met, Cleared, Pools, Typed, Lost
    <3> QED BY <2>7, <3>1, <3>2, <3>3, <3>4 DEF CallMoves
  <2>8. ASSUME NEW t \in Sessions, ShellMoves(t)
        PROVE  Put(d)'
    BY <2>3, <2>8 DEF ShellMoves, Apart, Pooled
  <2>9. CASE Calm
    BY <2>3, <2>9 DEF Calm, Pooled
  <2> QED BY <2>4, <2>5, <2>6, <2>7, <2>8, <2>9 DEF Moves
<1>7. /\ \A c \in Calls : Put(c)'
      /\ \A k \in Keys : pool'[k] \in 0..opened'
      /\ \A s \in Sessions :
           s > opened' => shell'[s] = "none" /\ tty'[s] = <<>> /\ buffer'[s] = <<>>
  BY <1>4, <1>5, <1>6
<1> QED BY <1>7 DEF Placed

\* Shells that a call may type into have logged in, and were not told to exit.
LEMMA UsableKept ==
  ASSUME TypeOK, Placed, Usable, TypeOK', Placed', Moves
  PROVE  Usable'
<1> USE DEF Goto, Return
<1>1. /\ pool \in [Keys -> Sessions \cup {None}] /\ mine \in [Calls -> Sessions \cup {None}]
      /\ job \in [Calls -> Jobs]
      /\ at \in [Calls -> {"idle", "lock", "spawn", "ready", "clear", "type", "poll", "done"}]
      /\ key \in [Calls -> Keys]
      /\ tty \in [Sessions -> Seq(Jobs \cup {"exit"})] /\ buffer \in [Sessions -> Seq(Lines)]
      /\ shell \in [Sessions -> {"none", "login", "prompt", "ended"} \cup Jobs]
  BY DEF TypeOK, Places, Texts
<1>2. /\ opened \in Nat /\ MaxSessions \in Nat /\ None = 0 /\ None \notin Sessions
      /\ "exit" \notin Jobs /\ "none" \notin Jobs /\ "login" \notin Jobs
  BY BoundsAssumption, JobsAssumption DEF TypeOK, Places, None, Sessions
<1>3. ToSet(<<>>) = {}
  BY DEF ToSet
\* No shell goes back to its login, and a new one is nobody's yet.
<1>4. ASSUME NEW s \in Sessions, shell'[s] \in {"none", "login"}
      PROVE  shell[s] \in {"none", "login"}
  <2>1. CASE UNCHANGED shell
    BY <1>4, <2>1
  <2>2. ASSUME NEW c \in Calls, Opened(c)
        PROVE  shell[s] \in {"none", "login"}
    <3>1. CASE s = opened'
      <4>1. s > opened
        BY <1>2, <2>2, <3>1 DEF Opened
      <4> QED BY <4>1 DEF Placed
    <3>2. CASE s # opened'
      BY <1>1, <1>4, <2>2, <3>2 DEF Opened
    <3> QED BY <3>1, <3>2
  <2>3. ASSUME NEW t \in Sessions, ShellMoves(t)
        PROVE  shell[s] \in {"none", "login"}
    BY <1>1, <1>2, <1>4, <2>3 DEF ShellMoves, Welcomes, Exits, Starts, Writes, Finishes,
       Swallows, Breaks
  <2> QED BY <2>1, <2>2, <2>3 DEF Moves, Calm, Begun, CallMoves, Purged, Left, Met, Cleared,
          Pools, Typed, Lost, Replied
<1>5. ASSUME NEW c \in Calls, at'[c] \in {"clear", "type", "poll"}
      PROVE  \/ at[c] \in {"clear", "type", "poll"} /\ mine'[c] = mine[c]
             \/ mine'[c] \in Pooled /\ mine'[c] \in Pooled'
             \/ Met(c) /\ mine'[c] = mine[c]
  <2>1. CASE at'[c] = at[c] /\ mine'[c] = mine[c]
    BY <1>5, <2>1
  <2>2. ASSUME NEW d \in Calls, Begun(d), d = c
        PROVE  FALSE
    BY <1>1, <1>5, <2>2 DEF Begun
  <2>3. ASSUME NEW d \in Calls, Begun(d) \/ CallMoves(d), d # c
        PROVE  at'[c] = at[c] /\ mine'[c] = mine[c]
    BY <1>1, <2>3 DEF Begun, CallMoves, Entered, Opened, Left, Met, Cleared, Pools, Typed, Lost,
       Replied
  <2>4. ASSUME NEW dead, Purged(dead), Entered(c)
        PROVE  mine'[c] \in Pooled /\ mine'[c] \in Pooled'
    BY <1>1, <1>5, <2>4 DEF Purged, Entered
  <2>5. CASE Opened(c) \/ Left(c) \/ Replied(c)
    BY <1>1, <1>5, <2>5 DEF Opened, Left, Replied
  <2>6. CASE Cleared(c) \/ Pools(c) \/ Typed(c) \/ Lost(c)
    BY <2>6 DEF Cleared, Pools, Typed, Lost
  <2>7. CASE Met(c)
    BY <2>7 DEF Met
  <2> QED BY <2>1, <2>2, <2>3, <2>4, <2>5, <2>6, <2>7
          DEF Moves, Calm, CallMoves, ShellMoves, Apart
<1>6. ASSUME NEW c \in Calls, at'[c] \in {"clear", "type", "poll"}
      PROVE  shell'[mine'[c]] \notin {"none", "login"}
  <2>1. mine'[c] \in Sessions
    <3>1. mine'[c] \in 1..opened' /\ opened' \in 0..MaxSessions
      BY <1>6 DEF Placed, TypeOK, Places
    <3> QED BY <1>2, <3>1 DEF Sessions
  <2>2. CASE at[c] \in {"clear", "type", "poll"} /\ mine'[c] = mine[c]
    BY <1>4, <2>1, <2>2 DEF Usable
  <2>3. CASE mine'[c] \in Pooled
    BY <1>4, <2>1, <2>3 DEF Usable
  <2>4. CASE Met(c) /\ mine'[c] = mine[c]
    BY <1>4, <2>1, <2>4 DEF Met, Usable
  <2> QED BY <1>5, <1>6, <2>2, <2>3, <2>4
<1>7. ASSUME NEW s \in Sessions, s \in Pooled'
      PROVE  shell'[s] \notin {"none", "login"}
  <2>1. s \in Pooled \/ \E c \in Calls : Pools(c) /\ s = mine[c]
    <3>1. CASE UNCHANGED pool
      BY <1>7, <3>1 DEF Pooled
    <3>2. ASSUME NEW dead, Pooled' = Pooled \ dead
          PROVE  s \in Pooled
      BY <1>7, <3>2
    <3>3. ASSUME NEW c \in Calls, Pools(c)
          PROVE  s \in Pooled \/ s = mine[c]
      BY <1>1, <1>7, <3>3 DEF Pools, Pooled
    <3> QED BY <3>1, <3>2, <3>3 DEF Moves, Calm, Begun, CallMoves, Purged, Opened, Left, Met,
            Cleared, Typed, Lost, Replied, ShellMoves, Apart
  <2>2. CASE s \in Pooled
    BY <1>4, <2>2 DEF Usable
  <2>3. ASSUME NEW c \in Calls, Pools(c), s = mine[c]
        PROVE  shell'[s] \notin {"none", "login"}
    BY <1>4, <2>3 DEF Pools, Usable
  <2> QED BY <2>1, <2>2, <2>3
<1>8. ASSUME NEW s \in Sessions, Line("ready", Setup, 0) \in ToSet(buffer'[s])
      PROVE  shell'[s] \notin {"none", "login"}
  <2> DEFINE line == Line("ready", Setup, 0)
  <2>1. line \in ToSet(buffer[s]) \/ Welcomes(s)
    <3>1. ASSUME NEW dead, Killed(dead)
          PROVE  line \in ToSet(buffer[s])
      BY <1>8, <3>1 DEF Killed
    <3>2. ASSUME NEW c \in Calls, CallMoves(c)
          PROVE  line \in ToSet(buffer[s])
      <4>1. CASE Cleared(c)
        BY <1>1, <1>3, <1>8, <4>1 DEF Cleared
      <4>2. CASE Typed(c)
        <5>1. line # Line("echo", job[c], 0)
          BY DEF Line
        <5> HIDE DEF line
        <5> QED BY <1>8, <4>2, <5>1 DEF Typed, line
      <4> QED BY <1>8, <3>1, <3>2, <4>1, <4>2
          DEF CallMoves, Purged, Left, Met, Opened, Pools, Lost, Replied
    <3>3. ASSUME NEW t \in Sessions, ShellMoves(t)
          PROVE  line \in ToSet(buffer[s]) \/ Welcomes(s)
      <4>1. ASSUME NEW other, Heard(t, other), other.tag # "ready"
            PROVE  line \in ToSet(buffer[s])
        BY <1>8, <4>1 DEF Heard, Line
      <4>2. CASE Welcomes(t)
        BY <1>8, <4>2 DEF Welcomes, Heard
      <4>3. CASE Starts(t)
        BY <4>1, <4>3 DEF Starts, Line
      <4>4. CASE Writes(t)
        BY <4>1, <4>4 DEF Writes, Line
      <4>5. CASE Finishes(t)
        BY <4>1, <4>5 DEF Finishes, Line
      <4> QED BY <1>8, <3>3, <4>2, <4>3, <4>4, <4>5 DEF ShellMoves, Exits, Swallows, Breaks
    <3> QED BY <1>8, <3>1, <3>2, <3>3 DEF Moves, Calm, Begun, Purged
  <2>2. CASE line \in ToSet(buffer[s])
    BY <1>4, <2>2 DEF Usable
  <2>3. CASE Welcomes(s)
    BY <1>1, <2>3 DEF Welcomes
  <2> QED BY <2>1, <2>2, <2>3
<1>9. ASSUME NEW s \in Sessions, s \in Held'
      PROVE  "exit" \notin ToSet(tty'[s])
  <2>1. CASE s = opened + 1 /\ opened' = opened + 1
    <3>1. PICK c \in Calls : Opened(c)
      <4>1. opened' # opened
        BY <1>2, <2>1
      <4> QED BY <4>1 DEF Moves, Calm, Begun, CallMoves, Purged, Left, Met, Cleared, Pools, Typed,
              Lost, Replied, ShellMoves, Apart
    <3>2. s > opened
      BY <1>2, <2>1
    <3> QED BY <1>3, <3>1, <3>2 DEF Opened, Placed
  <2>2. CASE s \in Held
    <3>1. "exit" \notin ToSet(tty[s])
      BY <2>2 DEF Usable
    <3>2. ASSUME NEW dead, Killed(dead), s \notin dead
          PROVE  "exit" \notin ToSet(tty'[s])
      BY <3>1, <3>2 DEF Killed
    <3>3. ASSUME NEW dead, Purged(dead), \A c \in Calls : mine'[c] \in Pooled' \cup {None}
          PROVE  s \notin dead
      BY <1>2, <1>9, <3>3 DEF Purged, Held
    <3>4. ASSUME NEW dead, Purged(dead), UNCHANGED <<at, mine>>
          PROVE  "exit" \notin ToSet(tty'[s])
      <4>1. \A c \in Calls : mine'[c] = None
        BY <3>4 DEF Purged, TypeOK, Locked, Places, Placed
      <4> QED BY <3>2, <3>3, <3>4, <4>1 DEF Purged
    <3>5. ASSUME NEW c \in Calls, CallMoves(c)
          PROVE  "exit" \notin ToSet(tty'[s])
      <4>1. ASSUME NEW dead, Purged(dead), Entered(c)
            PROVE  "exit" \notin ToSet(tty'[s])
        <5>1. \A d \in Calls : mine[d] = None
          BY <4>1 DEF Purged, TypeOK, Locked, Places, Placed
        <5>2. \A d \in Calls : mine'[d] \in Pooled' \cup {None}
          BY <1>1, <4>1, <5>1 DEF Entered
        <5> QED BY <3>2, <3>3, <4>1, <5>2 DEF Purged
      <4>2. CASE Left(c)
        <5>1. \A d \in Calls : mine'[d] = None
          <6>1. c \in lock
            BY <4>2 DEF Left, TypeOK, Locked
          <6> QED BY <1>1, <4>2, <6>1, Alone DEF Left
        <5>2. s # mine[c]
          BY <1>2, <1>9, <4>2, <5>1 DEF Left, Held
        <5> QED BY <3>2, <4>2, <5>2 DEF Left
      <4>3. CASE Typed(c)
        <5>1. job[c] # "exit"
          BY <1>1, <1>2
        <5>2. CASE s = mine[c]
          BY <3>1, <4>3, <5>1, <5>2 DEF Typed
        <5>3. CASE s # mine[c]
          BY <1>1, <3>1, <4>3, <5>3 DEF Typed
        <5> QED BY <5>2, <5>3
      <4> QED BY <3>1, <3>5, <4>1, <4>2, <4>3 DEF CallMoves, Opened, Met, Cleared, Pools, Lost,
         Replied
    <3>6. ASSUME NEW t \in Sessions, ShellMoves(t)
          PROVE  "exit" \notin ToSet(tty'[s])
      BY <1>1, <1>3, <3>1, <3>6 DEF ShellMoves, Welcomes, Exits, Starts, Writes, Finishes,
         Swallows, Breaks
    <3> QED BY <3>1, <3>4, <3>5, <3>6 DEF Moves, Calm, Begun
  <2> QED BY <1>9, <2>1, <2>2, HeldGrows
<1> QED BY <1>6, <1>7, <1>8, <1>9 DEF Usable

\* What the parser finds is the whole of the output, between the markers of a
\* command that has ended.
LEMMA Parsed ==
  ASSUME TypeOK, Placed, Polled, NEW c \in Calls, at[c] = "poll", job[c] = c,
         NEW found \in Parses(buffer[mine[c]], c)
  PROVE  /\ HasEnded(c)
         /\ found = Append([i \in 1..wrote[c] |-> Line("out", c, i)], Line("end", c, 0))
<1> DEFINE lines == buffer[mine[c]]
           w == wrote[c]
           out == [i \in 1..w |-> Line("out", c, i)]
<1>1. lines \in Seq(Lines) /\ w \in Nat
  <2>1. mine[c] \in Sessions
    BY BoundsAssumption DEF TypeOK, Places, Placed, Sessions
  <2> QED BY <2>1, BoundsAssumption DEF TypeOK, Places, Texts
<1>2. Len(lines) \in Nat /\ DOMAIN lines = 1..Len(lines)
  BY <1>1, LenProperties
<1>3. PICK span \in Begins(lines, c) \X Ends(lines, c) :
        span[1] < span[2] /\ found = SubSeq(lines, span[1] + 1, span[2])
  BY DEF Parses, Spans
<1>4. /\ span[1] \in 1..Len(lines) /\ lines[span[1]].tag = "begin" /\ lines[span[1]].job = c
      /\ span[2] \in 1..Len(lines) /\ lines[span[2]].tag = "end" /\ lines[span[2]].job = c
  BY <1>2, <1>3 DEF Begins, Ends
<1>5. Own(lines[span[1]], c) /\ Own(lines[span[2]], c)
  BY <1>4 DEF Own
<1>6. ~Waits(c)
  <2>1. lines[span[1]] \in ToSet(lines)
    BY <1>2, <1>4 DEF ToSet
  <2> QED BY <1>5, <2>1 DEF Waits
<1>7. ASSUME NEW p \in 1..Len(lines), Written(c, lines, p),
             NEW i \in 1..Len(lines), Own(lines[i], c)
      PROVE  i = p \/ lines[i].tag = "out" \/ i > p + w
  <2>1. p \in Nat /\ i \in Nat
    OBVIOUS
  <2>2. i >= p
    BY <1>7, <2>1 DEF Written
  <2>3. CASE i > p /\ i <= p + w
    <3>1. i - p \in 1..w /\ p + (i - p) = i
      BY <1>1, <2>1, <2>3
    <3>2. lines[i] = Line("out", c, i - p)
      BY <1>7, <3>1 DEF Written
    <3> QED BY <3>2 DEF Line
  <2> QED BY <1>1, <2>1, <2>2, <2>3
<1>8. ASSUME NEW p \in 1..Len(lines), Written(c, lines, p)
      PROVE  lines[p].tag = "begin"
  BY <1>8 DEF Written, Line
<1>9. ~Runs(c)
  <2>1. ASSUME NEW p \in 1..Len(lines), Written(c, lines, p), Len(lines) = p + w
        PROVE  FALSE
    <3>1. ~(span[2] > p + w)
      BY <1>1, <1>2, <1>4, <2>1
    <3>2. span[2] = p
      BY <1>4, <1>5, <1>7, <2>1, <3>1
    <3> QED BY <1>4, <1>8, <2>1, <3>2
  <2> QED BY <2>1 DEF Runs
<1>10. HasEnded(c)
  BY <1>6, <1>9 DEF Polled
<1>11. PICK p \in 1..Len(lines) :
         /\ Written(c, lines, p) /\ Len(lines) = p + w + 1
         /\ lines[p + w + 1] \in {Line("end", c, 0), Line("glued", c, 0)}
  BY <1>10 DEF HasEnded
<1>12. \A i \in 1..Len(lines) : i > p + w => i = p + w + 1
  BY <1>1, <1>11
<1>13. span[1] = p
  <2>1. ~(span[1] > p + w)
    BY <1>4, <1>11, <1>12 DEF Line
  <2> QED BY <1>4, <1>5, <1>7, <1>11, <2>1
<1>14. span[2] = p + w + 1
  <2>1. span[2] # p
    BY <1>4, <1>8, <1>11
  <2> QED BY <1>4, <1>5, <1>7, <1>11, <1>12, <2>1
<1>15. lines[p + w + 1] = Line("end", c, 0)
  BY <1>4, <1>11, <1>14 DEF Line
<1> DEFINE last == Line("end", c, 0)
           whole == Append(out, last)
<1>16. /\ \A i \in 1..w : out[i] = lines[p + i]
       /\ last = lines[p + w + 1]
  BY <1>11, <1>15 DEF Written
<1>17. /\ found = SubSeq(lines, p + 1, p + w + 1)
       /\ p \in Nat /\ p + 1 \in Nat /\ p + w + 1 \in Nat
  BY <1>1, <1>3, <1>13, <1>14
<1>18. /\ found \in Seq(Lines) /\ Len(found) = w + 1
       /\ \A i \in 1..(w + 1) : found[i] = lines[p + i]
  <2> HIDE DEF lines, w
  <2>1. p + 1 >= 1 /\ p + 1 <= p + w + 1 /\ p + 1 \in 1..Len(lines) /\ p + w + 1 \in 1..Len(lines)
    BY <1>1, <1>11, <1>17
  <2>2. /\ SubSeq(lines, p + 1, p + w + 1) \in Seq(Lines)
        /\ Len(SubSeq(lines, p + 1, p + w + 1)) = (p + w + 1) - (p + 1) + 1
        /\ \A i \in 1..((p + w + 1) - (p + 1) + 1) :
             SubSeq(lines, p + 1, p + w + 1)[i] = lines[(p + 1) + i - 1]
    BY <1>1, <1>11, <1>17, <2>1, SubSeqProperties
  <2>3. (p + w + 1) - (p + 1) + 1 = w + 1 /\ \A i \in 1..(w + 1) : (p + 1) + i - 1 = p + i
    BY <1>1, <1>17
  <2> QED BY <1>17, <2>2, <2>3
<1>19. /\ whole \in Seq(Lines) /\ Len(whole) = w + 1
       /\ \A i \in 1..(w + 1) : whole[i] = lines[p + i]
  <2>1. /\ \A i \in 1..w : lines[p + i] \in Lines
        /\ lines[p + w + 1] \in Lines
    <3>1. \A i \in 1..(w + 1) : p + i \in 1..Len(lines)
      BY <1>1, <1>11, <1>17
    <3>2. \A i \in 1..(w + 1) : lines[p + i] \in Lines
      BY <1>1, <3>1
    <3> HIDE DEF w, lines
    <3>3. p + w + 1 = p + (w + 1) /\ w + 1 \in 1..(w + 1) /\ 1..w \subseteq 1..(w + 1)
      BY <1>1, <1>17
    <3> QED BY <3>2, <3>3
  <2>2. out \in Seq(Lines) /\ Len(out) = w /\ last \in Lines
    <3>1. \A i \in 1..w : out[i] \in Lines
      BY <1>16, <2>1
    <3>2. last \in Lines
      BY <1>16, <2>1
    <3>3. out = [i \in 1..w |-> out[i]]
      OBVIOUS
    <3> HIDE DEF out, last, w, lines
    <3> QED BY <1>1, <3>1, <3>2, <3>3
  <2> HIDE DEF out, last, w, lines
  <2>3. /\ whole \in Seq(Lines) /\ Len(whole) = w + 1
        /\ \A i \in 1..w : whole[i] = out[i]
        /\ whole[w + 1] = last
    BY <2>2, AppendProperties
  <2>4. \A i \in 1..(w + 1) : i \in 1..w \/ i = w + 1
    BY <1>1
  <2>5. p + w + 1 = p + (w + 1)
    BY <1>1, <1>17
  <2> QED BY <1>16, <2>3, <2>4, <2>5
<1>20. found = whole
  <2> HIDE DEF whole, w, lines
  <2>1. found \in Seq(Lines) /\ whole \in Seq(Lines) /\ Len(found) = Len(whole)
    BY <1>18, <1>19
  <2>2. \A i \in 1..Len(found) : found[i] = whole[i]
    BY <1>18, <1>19
  <2> QED BY <2>1, <2>2, SeqEqual
<1> QED BY <1>10, <1>20

\* Who polls for its command holds the pool, and no other step reaches its session.
LEMMA Undisturbed ==
  ASSUME TypeOK, Placed, Moves, NEW c \in Calls, at[c] = "poll", ~CallMoves(c)
  PROVE  /\ UNCHANGED <<at[c], job[c], mine[c], outcome[c], answer[c]>>
         /\ \/ UNCHANGED <<buffer, shell, tty, wrote>>
            \/ \E s \in Sessions : ShellMoves(s)
<1>1. /\ at \in [Calls -> {"idle", "lock", "spawn", "ready", "clear", "type", "poll", "done"}]
      /\ mine \in [Calls -> Sessions \cup {None}] /\ job \in [Calls -> Jobs]
  BY DEF TypeOK, Places
<1>2. c \in lock
  BY DEF TypeOK, Locked
<1>3. ASSUME NEW d \in Calls, Begun(d)
      PROVE  /\ UNCHANGED <<at[c], job[c], mine[c], outcome[c], answer[c]>>
             /\ UNCHANGED <<buffer, shell, tty, wrote>>
  BY <1>1, <1>3 DEF Begun, Goto
<1>4. ASSUME NEW d \in Calls, CallMoves(d), d # c
      PROVE  FALSE
  <2>1. d \notin lock
    BY <1>2, <1>4, Alone
  <2>2. at[d] \in {"idle", "lock", "done"}
    BY <1>1, <2>1 DEF TypeOK, Locked
  <2> QED BY <1>2, <1>4, <2>2 DEF CallMoves, Purged, Opened, Left, Met, Cleared, Pools, Typed,
          Lost, Replied
<1> QED BY <1>2, <1>3, <1>4 DEF Moves, Calm, Purged, ShellMoves, Apart

\* A command that may still run is polled for, or its session cannot be reached.
LEMMA FollowedKept ==
  ASSUME TypeOK, Placed, Followed, Polled, Moves
  PROVE  Followed'
<1> SUFFICES ASSUME NEW s \in Sessions, NEW c \in Calls, Pending(c, s)'
             PROVE  \/ at'[c] = "poll" /\ job'[c] = c /\ mine'[c] = s
                    \/ at'[c] = "done" /\ outcome'[c] = "failed" /\ s \notin Held'
  BY DEF Followed
<1> USE DEF Goto, Return
<1>1. /\ at \in [Calls -> {"idle", "lock", "spawn", "ready", "clear", "type", "poll", "done"}]
      /\ mine \in [Calls -> Sessions \cup {None}] /\ job \in [Calls -> Jobs]
      /\ outcome \in [Calls -> {"none", "closed", "failed", "answered"}]
  BY DEF TypeOK, Places
<1>2. c # Setup /\ None \notin Sessions /\ c \notin {"none", "prompt", "ended"}
  BY BoundsAssumption, JobsAssumption DEF Sessions, None, Jobs
<1>3. CASE Typed(c) /\ job[c] = c /\ s = mine[c]
  BY <1>1, <1>3 DEF Typed
<1>4. CASE Pending(c, s)
  <2>1. CASE at[c] = "poll" /\ job[c] = c /\ mine[c] = s
    <3>1. CASE CallMoves(c)
      <4>1. Left(c) \/ Replied(c)
        BY <1>2, <2>1, <3>1 DEF CallMoves, Entered, Opened, Met, Cleared, Pools, Typed, Lost
      <4>2. CASE Left(c)
        <5>1. \A d \in Calls : mine'[d] = None
          <6>1. c \in lock
            BY <4>2 DEF Left, TypeOK, Locked
          <6> QED BY <1>1, <4>2, <6>1, Alone DEF Left
        <5>2. s \notin Held'
          BY <1>2, <2>1, <4>2, <5>1 DEF Left, Held
        <5> QED BY <1>1, <4>2, <5>2 DEF Left
      <4>3. CASE Replied(c)
        <5>1. HasEnded(c)
          BY <2>1, <4>3, Parsed DEF Replied
        <5>2. ~Pending(c, s)
          BY <1>2, <2>1, <5>1 DEF HasEnded, Pending, ToSet
        <5> QED BY <1>4, <5>2
      <4> QED BY <4>1, <4>2, <4>3
    <3>2. CASE ~CallMoves(c)
      BY <2>1, <3>2, Undisturbed
    <3> QED BY <3>1, <3>2
  <2>2. CASE at[c] = "done" /\ outcome[c] = "failed" /\ s \notin Held
    <3>1. at'[c] = "done" /\ outcome'[c] = "failed"
      BY <1>1, <2>2 DEF Moves, Calm, Begun, CallMoves, Entered, Opened, Left, Met, Cleared,
         Pools, Typed, Lost, Replied, ShellMoves, Apart
    <3>2. s # opened + 1
      <4>1. CASE s = opened + 1
        <5>1. s > opened
          BY <4>1 DEF TypeOK, Places
        <5>2. shell[s] = "none" /\ tty[s] = <<>>
          BY <5>1 DEF Placed
        <5> QED BY <1>2, <1>4, <5>2 DEF Pending, ToSet
      <4> QED BY <4>1
    <3> QED BY <2>2, <3>1, <3>2, HeldGrows
  <2> QED BY <1>4, <2>1, <2>2 DEF Followed
<1> QED BY <1>3, <1>4, PendingGrows

\* Two commands are never pending in one session.
LEMMA OneAtATimeKept ==
  ASSUME TypeOK, Placed, Followed, OneAtATime, Moves
  PROVE  OneAtATime'
<1>1. ASSUME NEW s \in Sessions, NEW c \in Calls, NEW d \in Calls,
             Typed(c), s = mine[c], Pending(d, s)
      PROVE  c = d
  <2>1. s \in Held
    BY <1>1 DEF Held
  <2>2. at[d] = "poll" /\ mine[d] = s
    BY <1>1, <2>1 DEF Followed
  <2>3. c \in lock /\ d \in lock
    BY <1>1, <2>2 DEF Typed, TypeOK, Locked
  <2> QED BY <2>3 DEF TypeOK, Locked
<1>2. ASSUME NEW c \in Calls, NEW d \in Calls, Typed(c), Typed(d)
      PROVE  c = d
  BY <1>2 DEF Typed, TypeOK, Locked
<1>3. ASSUME NEW s \in Sessions, NEW c \in Calls, NEW d \in Calls,
             Pending(c, s)', Pending(d, s)'
      PROVE  c = d
  <2>1. /\ Pending(c, s) \/ (Typed(c) /\ s = mine[c])
        /\ Pending(d, s) \/ (Typed(d) /\ s = mine[d])
    BY <1>3, PendingGrows
  <2> QED BY <1>1, <1>2, <2>1 DEF OneAtATime
<1> QED BY <1>3 DEF OneAtATime

\* Before a command is typed, nothing of it can be heard.
LEMMA UnheardKept ==
  ASSUME TypeOK, Placed, Followed, Unheard, Moves
  PROVE  Unheard'
<1> USE DEF Goto, Return
<1>1. /\ at \in [Calls -> {"idle", "lock", "spawn", "ready", "clear", "type", "poll", "done"}]
      /\ mine \in [Calls -> Sessions \cup {None}] /\ job \in [Calls -> Jobs]
      /\ wrote \in [Calls -> 0..MaxOut]
  BY DEF TypeOK, Places
<1>2. Setup \notin Calls
  BY BoundsAssumption
<1> SUFFICES ASSUME NEW c \in Calls, Untyped(c)'
             PROVE  /\ wrote'[c] = 0
                    /\ \A s \in Sessions : \A l \in ToSet(buffer'[s]) : ~Own(l, c)
  BY DEF Unheard, Own
<1>3. Untyped(c)
  <2>1. CASE UNCHANGED <<at, job>>
    BY <2>1 DEF Untyped
  <2>2. ASSUME NEW d \in Calls, Begun(d) \/ CallMoves(d), d # c
        PROVE  Untyped(c)
    <3>1. at'[c] = at[c] /\ job'[c] = job[c]
      BY <1>1, <2>2 DEF Begun, CallMoves, Entered, Opened, Left, Met, Cleared, Pools, Typed,
         Lost, Replied
    <3> QED BY <3>1 DEF Untyped
  <2>3. CASE Begun(c)
    BY <2>3 DEF Begun, Untyped
  <2>4. CASE CallMoves(c)
    BY <1>1, <1>2, <2>4 DEF CallMoves, Entered, Opened, Left, Met, Cleared, Pools, Typed, Lost,
       Replied, Untyped
  <2> QED BY <2>1, <2>2, <2>3, <2>4 DEF Moves, Calm, ShellMoves, Apart
<1>4. \A s \in Sessions : ~Pending(c, s)
  BY <1>2, <1>3 DEF Followed, Untyped
<1>5. wrote'[c] = wrote[c]
  <2>1. ASSUME NEW t \in Sessions, Writes(t)
        PROVE  wrote'[c] = wrote[c]
    BY <1>1, <1>4, <2>1 DEF Writes, Pending
  <2> QED BY <2>1 DEF Moves, Calm, Begun, CallMoves, Purged, Opened, Left, Met, Cleared,
          Pools, Typed, Lost, Replied, ShellMoves, Welcomes, Exits, Starts, Finishes, Swallows,
             Breaks
<1> QED BY <1>3, <1>4, <1>5, BufferGrows DEF Unheard

\* A command that has just been typed waits behind what its session has to read.
LEMMA TypedWaits ==
  ASSUME TypeOK, Placed, Followed, Unheard, NEW c \in Calls, job[c] = c, Typed(c) \/ Lost(c)
  PROVE  Waits(c)'
<1> DEFINE s == mine[c]
<1>1. /\ tty \in [Sessions -> Seq(Jobs \cup {"exit"})] /\ at[c] = "type"
      /\ mine \in [Calls -> Sessions \cup {None}] /\ s \in Sessions
      /\ c \in Jobs \cup {"exit"} /\ mine' = mine /\ shell' = shell /\ wrote' = wrote
  <2>1. s \in Sessions
    BY BoundsAssumption DEF Typed, Lost, TypeOK, Places, Placed, Sessions
  <2> QED BY <2>1 DEF Typed, Lost, TypeOK, Places, Texts, Jobs
<1>2. wrote[c] = 0 /\ \A l \in ToSet(buffer[s]) : ~Own(l, c)
  BY <1>1 DEF Unheard, Untyped
<1>3. ~Pending(c, s)
  BY <1>1 DEF Followed
<1>4. \A l \in ToSet(buffer'[s]) : ~Own(l, c)
  <2>1. ~Own(Line("echo", job[c], 0), c)
    BY DEF Own, Line
  <2> QED BY <1>2, <2>1 DEF Typed, Lost
<1>5. CASE Lost(c)
  BY <1>1, <1>2, <1>3, <1>4, <1>5 DEF Lost, Waits, Pending
<1>6. CASE Typed(c)
  <2>1. tty[s] \in Seq(Jobs \cup {"exit"}) /\ tty'[s] = Append(tty[s], c)
    BY <1>1, <1>6 DEF Typed
  <2>2. /\ Len(tty[s]) \in Nat /\ Len(tty'[s]) = Len(tty[s]) + 1
        /\ \A i \in 1..Len(tty[s]) : tty'[s][i] = tty[s][i]
        /\ tty'[s][Len(tty[s]) + 1] = c /\ tty'[s] # <<>>
        /\ DOMAIN tty[s] = 1..Len(tty[s])
    BY <1>1, <2>1, AppendProperties, LenProperties
  <2>3. \A i \in 1..Len(tty[s]) : tty[s][i] # c
    BY <1>3, <2>2 DEF Pending, ToSet
  <2>4. Len(tty'[s]) - 1 = Len(tty[s])
    BY <2>2
  <2> HIDE DEF s
  <2>5. LastOnly(c, tty'[s])
    <3>1. tty'[s][Len(tty'[s])] = c
      BY <2>2
    <3>2. \A i \in 1..(Len(tty'[s]) - 1) : tty'[s][i] # c
      BY <2>2, <2>3, <2>4
    <3> QED BY <2>2, <3>1, <3>2 DEF LastOnly
  <2>6. mine'[c] = s /\ shell'[s] # c
    BY <1>1, <1>3 DEF s, Pending
  <2> QED BY <1>1, <1>2, <1>4, <2>5, <2>6 DEF Waits
<1> QED BY <1>5, <1>6

\* While a command waits, its session reads, runs or ends something else, or starts it.
LEMMA WaitsOn ==
  ASSUME TypeOK, Placed, Usable, OneAtATime, NEW c \in Calls, at[c] = "poll", job[c] = c,
         ShellMoves(mine[c]), Waits(c)
  PROVE  Waits(c)' \/ Runs(c)'
<1> DEFINE s == mine[c]
<1>1. /\ tty \in [Sessions -> Seq(Jobs \cup {"exit"})] /\ buffer \in [Sessions -> Seq(Lines)]
      /\ shell \in [Sessions -> {"none", "login", "prompt", "ended"} \cup Jobs]
      /\ wrote \in [Calls -> 0..MaxOut] /\ s \in Sessions /\ mine' = mine
      /\ tty[s] \in Seq(Jobs \cup {"exit"})
  <2>1. s \in Sessions
    BY BoundsAssumption DEF TypeOK, Places, Placed, Sessions
  <2> QED BY <2>1 DEF TypeOK, Places, Texts, ShellMoves, Apart
<1>2. /\ wrote[c] = 0 /\ shell[s] # c
      /\ shell[s] = "ended" \/ LastOnly(c, tty[s])
      /\ \A l \in ToSet(buffer[s]) : ~Own(l, c)
  BY DEF Waits
<1>3. s \in Held /\ "exit" \notin ToSet(tty[s]) /\ shell[s] \notin {"none", "login"}
  BY <1>1 DEF Held, Usable
<1>4. /\ c \notin {"exit", "none", "login", "prompt", "ended"} /\ Setup # c
      /\ \A d \in Jobs : d \notin {"exit", "none", "login", "prompt", "ended"}
  BY BoundsAssumption, JobsAssumption DEF Jobs
<1>5. LastOnly(c, tty[s]) => c \in ToSet(tty[s])
  <2>1. ASSUME LastOnly(c, tty[s])
        PROVE  c \in ToSet(tty[s])
    <3>1. Len(tty[s]) \in DOMAIN tty[s] /\ tty[s][Len(tty[s])] = c
      <4>1. DOMAIN tty[s] = 1..Len(tty[s]) /\ Len(tty[s]) \in Nat /\ Len(tty[s]) # 0
        BY <1>1, <2>1, LenProperties, EmptySeq DEF LastOnly
      <4> QED BY <2>1, <4>1 DEF LastOnly
    <3> QED BY <3>1 DEF ToSet
  <2> QED BY <2>1
<1>6. \A d \in Calls : shell[s] # d
  <2>1. ASSUME NEW d \in Calls, shell[s] = d
        PROVE  FALSE
    <3>1. Pending(c, s) /\ Pending(d, s)
      BY <1>2, <1>4, <1>5, <2>1 DEF Pending, Jobs
    <3> QED BY <1>1, <1>2, <2>1, <3>1 DEF OneAtATime
  <2> QED BY <2>1
<1>7. ASSUME NEW line, Heard(s, line), ~Own(line, c)
      PROVE  \A l \in ToSet(buffer'[s]) : ~Own(l, c)
  BY <1>2, <1>7 DEF Heard
<1>8. ASSUME shell'[s] # c, \A l \in ToSet(buffer'[s]) : ~Own(l, c), UNCHANGED wrote,
             shell'[s] = "ended" \/ LastOnly(c, tty'[s])
      PROVE  Waits(c)'
  BY <1>1, <1>2, <1>8 DEF Waits
<1>9. CASE Starts(s)
  <2>1. /\ tty'[s] = Tail(tty[s]) /\ shell'[s] = Head(tty[s]) /\ wrote' = wrote
        /\ LastOnly(c, tty[s]) /\ tty[s] # <<>>
    BY <1>1, <1>2, <1>9, <1>4 DEF Starts
  <2>2. /\ Head(tty[s]) = tty[s][1] /\ Len(tty[s]) \in Nat /\ Len(tty[s]) >= 1
        /\ tty'[s] \in Seq(Jobs \cup {"exit"}) /\ Len(tty'[s]) = Len(tty[s]) - 1
        /\ \A i \in 1..(Len(tty[s]) - 1) : tty'[s][i] = tty[s][i + 1]
    <3>1. /\ tty'[s] \in Seq(Jobs \cup {"exit"}) /\ Len(tty'[s]) = Len(tty[s]) - 1
          /\ \A i \in 1..(Len(tty[s]) - 1) : tty'[s][i] = tty[s][i + 1]
      BY <1>1, <2>1, HeadTailProperties
    <3>2. Head(tty[s]) = tty[s][1] /\ Len(tty[s]) \in Nat /\ Len(tty[s]) >= 1
      BY <1>1, <2>1, EmptySeq, LenProperties
    <3> QED BY <3>1, <3>2
  <2>3. CASE Head(tty[s]) = c
    <3>1. Len(tty[s]) = 1
      <4>1. CASE Len(tty[s]) > 1
        <5>1. 1 \in 1..(Len(tty[s]) - 1)
          BY <2>2, <4>1
        <5> QED BY <2>1, <2>2, <2>3, <5>1 DEF LastOnly
      <4>2. Len(tty[s]) \in Nat /\ Len(tty[s]) >= 1
        BY <2>2
      <4>3. \A n \in Nat : n >= 1 => n = 1 \/ n > 1
        OBVIOUS
      <4> QED BY <4>1, <4>2, <4>3, Zenon
    <3>2. tty'[s] = <<>>
      BY <2>2, <3>1, EmptySeq
    <3>0. PICK p \in Nat : p = Len(buffer[s]) + 1
      BY <1>1, LenProperties
    <3>3. /\ Len(buffer[s]) \in Nat /\ Len(buffer'[s]) = p
          /\ \A i \in 1..Len(buffer[s]) : buffer'[s][i] = buffer[s][i]
          /\ buffer'[s][p] = Line("begin", c, 0)
      BY <1>3, <1>9, <2>3, <3>0 DEF Starts, Heard
    <3>4. \A i \in 1..Len(buffer[s]) : ~Own(buffer[s][i], c)
      <4>1. DOMAIN buffer[s] = 1..Len(buffer[s])
        BY <1>1, LenProperties
      <4> QED BY <1>2, <4>1 DEF ToSet
    <3>5. p \in 1..Len(buffer'[s]) /\ p - 1 = Len(buffer[s]) /\ p + 0 = p /\ p >= p
      BY <3>0, <3>3
    <3>6. wrote'[c] = 0 /\ 1..0 = {}
      BY <1>2, <2>1
    <3>7. mine'[c] = s /\ shell'[s] = c
      BY <1>1, <2>1, <2>3
    <3>8. /\ p \in 1..Len(buffer'[s])
          /\ buffer'[s][p] = Line("begin", c, 0)
          /\ \A i \in 1..(p - 1) : ~Own(buffer'[s][i], c)
          /\ Len(buffer'[s]) >= p + wrote'[c] /\ Len(buffer'[s]) = p + wrote'[c]
          /\ \A i \in 1..wrote'[c] : buffer'[s][p + i] = Line("out", c, i)
      BY <3>3, <3>4, <3>5, <3>6
    <3> HIDE DEF s
    <3>9. buffer'[mine'[c]] = buffer'[s] /\ tty'[mine'[c]] = <<>> /\ shell'[mine'[c]] = c
      BY <3>2, <3>7
    <3>10. /\ p \in 1..Len(buffer'[mine'[c]]) /\ Len(buffer'[mine'[c]]) = p + wrote'[c]
           /\ Written(c, buffer[mine[c]], p)'
      BY <3>8, <3>9 DEF Written
    <3> QED BY <3>9, <3>10 DEF Runs
  <2>4. CASE Head(tty[s]) # c
    <3>1. Len(tty[s]) # 1
      BY <2>1, <2>2, <2>4 DEF LastOnly
    <3>2. Len(tty'[s]) \in Nat /\ Len(tty'[s]) >= 1
      <4>1. /\ Len(tty[s]) \in Nat /\ Len(tty[s]) >= 1 /\ Len(tty[s]) # 1
            /\ Len(tty'[s]) = Len(tty[s]) - 1
        BY <2>2, <3>1
      <4>2. \A n \in Nat : n >= 1 /\ n # 1 => n - 1 \in Nat /\ n - 1 >= 1
        OBVIOUS
      <4> QED BY <4>1, <4>2, Zenon
    <3>3. tty'[s] # <<>>
      BY <2>2, <3>2, EmptySeq
    <3>4. tty'[s][Len(tty'[s])] = c
      <4>1. Len(tty'[s]) \in 1..(Len(tty[s]) - 1) /\ Len(tty'[s]) + 1 = Len(tty[s])
        BY <2>2, <3>2
      <4> QED BY <2>1, <2>2, <4>1 DEF LastOnly
    <3>5. \A i \in 1..(Len(tty'[s]) - 1) : tty'[s][i] # c
      <4>1. ASSUME NEW i \in 1..(Len(tty'[s]) - 1)
            PROVE  i \in 1..(Len(tty[s]) - 1) /\ i + 1 \in 1..(Len(tty[s]) - 1)
        BY <2>2, <3>2
      <4> QED BY <2>1, <2>2, <4>1 DEF LastOnly
    <3>6. LastOnly(c, tty'[s])
      BY <3>3, <3>4, <3>5 DEF LastOnly
    <3>7. \A l \in ToSet(buffer'[s]) : ~Own(l, c)
      BY <1>7, <1>9, <2>4 DEF Starts, Own, Line
    <3> QED BY <1>8, <2>1, <2>4, <3>6, <3>7
  <2> QED BY <2>3, <2>4
<1>10. CASE Finishes(s)
  <2>1. shell[s] = Setup
    BY <1>6, <1>10 DEF Finishes, Jobs
  <2>2. \A l \in ToSet(buffer'[s]) : ~Own(l, c)
    BY <1>4, <1>6, <1>7, <1>10, <2>1 DEF Finishes, Own, Line
  <2>3. /\ shell'[s] = "prompt" /\ tty' = tty /\ wrote' = wrote /\ LastOnly(c, tty[s])
    BY <1>1, <1>2, <1>4, <1>10, <2>1 DEF Finishes, Jobs
  <2>4. LastOnly(c, tty'[s])
    BY <2>3 DEF LastOnly
  <2> QED BY <1>4, <1>8, <2>2, <2>3, <2>4
<1>11. CASE Breaks(s)
  BY <1>1, <1>2, <1>4, <1>8, <1>11 DEF Breaks
<1>12. ~Welcomes(s) /\ ~Exits(s) /\ ~Writes(s) /\ ~Swallows(s)
  BY <1>3, <1>6 DEF Welcomes, Exits, Writes, Swallows
<1> QED BY <1>9, <1>10, <1>11, <1>12 DEF ShellMoves

\* A command that runs writes on or ends; once it has ended nothing follows.
LEMMA RunsOn ==
  ASSUME TypeOK, Placed, NEW c \in Calls, at[c] = "poll", job[c] = c,
         ShellMoves(mine[c]), Runs(c) \/ HasEnded(c)
  PROVE  Runs(c)' \/ HasEnded(c)'
<1> DEFINE s == mine[c]
<1>1. /\ tty \in [Sessions -> Seq(Jobs \cup {"exit"})] /\ buffer \in [Sessions -> Seq(Lines)]
      /\ shell \in [Sessions -> {"none", "login", "prompt", "ended"} \cup Jobs]
      /\ wrote \in [Calls -> 0..MaxOut] /\ s \in Sessions /\ mine' = mine
  <2>1. s \in Sessions
    BY BoundsAssumption DEF TypeOK, Places, Placed, Sessions
  <2> QED BY <2>1 DEF TypeOK, Places, Texts, ShellMoves, Apart
<1>2. /\ c \in Jobs /\ c \notin {"exit", "none", "login", "prompt", "ended"}
      /\ \A d \in Jobs : d \notin {"exit", "none", "login", "prompt", "ended"}
  BY JobsAssumption DEF Jobs
<1>3. tty[s] = <<>> /\ shell[s] \in {c, "prompt", "ended"} /\ s \in Held
  BY DEF Runs, HasEnded, Held
<1>4. "exit" \notin ToSet(<<>>)
  BY DEF ToSet
<1>5. \/ Breaks(s)
      \/ shell[s] = c /\ (Writes(s) \/ Finishes(s))
  BY <1>2, <1>3, <1>4 DEF ShellMoves, Welcomes, Exits, Starts, Writes, Finishes, Swallows, Jobs
<1>6. CASE Breaks(s)
  <2>1. /\ mine'[c] = s /\ shell'[s] = "ended" /\ tty'[s] = <<>>
        /\ buffer' = buffer /\ wrote' = wrote
    BY <1>1, <1>6 DEF Breaks
  <2>2. CASE Runs(c)
    BY <2>1, <2>2 DEF Runs, Written
  <2>3. CASE HasEnded(c)
    BY <2>1, <2>3 DEF HasEnded, Written
  <2> QED BY <2>2, <2>3
<1>7. CASE shell[s] = c /\ (Writes(s) \/ Finishes(s))
  <2>1. Runs(c)
    BY <1>2, <1>7 DEF HasEnded
  <2>2. PICK p \in 1..Len(buffer[s]) :
          Written(c, buffer[s], p) /\ Len(buffer[s]) = p + wrote[c]
    BY <2>1 DEF Runs
  <2>3. p \in Nat /\ p >= 1 /\ wrote[c] \in Nat /\ Len(buffer[s]) \in Nat
    BY <1>1, <2>2, BoundsAssumption, LenProperties
  <2>4. mine'[c] = s /\ tty'[s] = <<>>
    BY <1>1, <1>3, <1>7 DEF Writes, Finishes
  <2>5. ASSUME NEW line, Heard(s, line)
        PROVE  /\ Len(buffer'[s]) = p + wrote[c] + 1
               /\ buffer'[s][p + wrote[c] + 1] = line
               /\ \A i \in 1..(p + wrote[c]) : buffer'[s][i] = buffer[s][i]
    BY <1>3, <2>2, <2>5 DEF Heard
  <2>6. ASSUME NEW line, Heard(s, line)
        PROVE  /\ p \in 1..Len(buffer'[s])
               /\ buffer'[s][p] = Line("begin", c, 0)
               /\ \A i \in 1..(p - 1) : ~Own(buffer'[s][i], c)
               /\ \A i \in 1..wrote[c] : buffer'[s][p + i] = Line("out", c, i)
    <3>1. /\ p \in 1..(p + wrote[c] + 1) /\ p \in 1..(p + wrote[c])
          /\ \A i \in 1..(p - 1) : i \in 1..(p + wrote[c])
          /\ \A i \in 1..wrote[c] : p + i \in 1..(p + wrote[c])
      BY <2>3
    <3> QED BY <2>2, <2>5, <2>6, <3>1 DEF Written
  <2>7. CASE Writes(s)
    <3> DEFINE w == wrote[c] + 1
    <3>1. wrote'[c] = w /\ shell'[s] = c /\ Heard(s, Line("out", c, w))
      BY <1>1, <1>7, <2>7 DEF Writes
    <3>2. p + wrote[c] + 1 = p + w /\ \A i \in 1..w : i \in 1..wrote[c] \/ i = w
      BY <2>3
    <3>3. Len(buffer'[s]) = p + w /\ buffer'[s][p + w] = Line("out", c, w)
      BY <2>5, <3>1, <3>2
    <3>4. \A i \in 1..w : buffer'[s][p + i] = Line("out", c, i)
      BY <2>6, <3>1, <3>2, <3>3
    <3>5. Len(buffer'[s]) >= p + w
      BY <2>3, <3>3
    <3> HIDE DEF w, s
    <3>6. buffer'[mine'[c]] = buffer'[s] /\ tty'[mine'[c]] = <<>> /\ shell'[mine'[c]] = c
      BY <2>4, <3>1
    <3>7. /\ p \in 1..Len(buffer'[mine'[c]]) /\ Len(buffer'[mine'[c]]) = p + wrote'[c]
          /\ Written(c, buffer[mine[c]], p)'
      BY <2>6, <3>1, <3>3, <3>4, <3>5, <3>6 DEF Written
    <3> QED BY <3>6, <3>7 DEF Runs
  <2>8. CASE Finishes(s)
    <3>1. PICK line \in {Line("end", c, 0), Line("glued", c, 0)} : Heard(s, line)
      BY <1>7, <2>8 DEF Finishes
    <3>2. wrote'[c] = wrote[c] /\ shell'[s] = "prompt"
      BY <1>1, <2>8 DEF Finishes
    <3>3. Len(buffer'[s]) >= p + wrote[c]
      BY <2>3, <2>5, <3>1
    <3>4. /\ Len(buffer'[s]) = p + wrote[c] + 1
          /\ buffer'[s][p + wrote[c] + 1] \in {Line("end", c, 0), Line("glued", c, 0)}
      BY <2>5, <3>1
    <3> HIDE DEF s
    <3>5. buffer'[mine'[c]] = buffer'[s] /\ tty'[mine'[c]] = <<>> /\ shell'[mine'[c]] = "prompt"
      BY <2>4, <3>2
    <3>6. /\ p \in 1..Len(buffer'[mine'[c]]) /\ Len(buffer'[mine'[c]]) = p + wrote'[c] + 1
          /\ buffer'[mine'[c]][p + wrote'[c] + 1] \in {Line("end", c, 0), Line("glued", c, 0)}
          /\ Written(c, buffer[mine[c]], p)'
      BY <2>6, <3>1, <3>2, <3>3, <3>4, <3>5 DEF Written
    <3> QED BY <3>5, <3>6 DEF HasEnded
  <2> QED BY <1>7, <2>7, <2>8
<1> QED BY <1>5, <1>6, <1>7

\* The command that is polled for waits, runs or has ended.
LEMMA PolledKept ==
  ASSUME IInv, Moves
  PROVE  Polled'
<1> SUFFICES ASSUME NEW c \in Calls, at'[c] = "poll", job'[c] = c
             PROVE  Waits(c)' \/ Runs(c)' \/ HasEnded(c)'
  BY DEF Polled
<1> USE DEF Goto, Return
<1>1. /\ at \in [Calls -> {"idle", "lock", "spawn", "ready", "clear", "type", "poll", "done"}]
      /\ mine \in [Calls -> Sessions \cup {None}] /\ job \in [Calls -> Jobs]
      /\ tty \in [Sessions -> Seq(Jobs \cup {"exit"})] /\ buffer \in [Sessions -> Seq(Lines)]
      /\ shell \in [Sessions -> {"none", "login", "prompt", "ended"} \cup Jobs]
      /\ wrote \in [Calls -> 0..MaxOut]
  BY DEF IInv, TypeOK, Places, Texts
<1>2. c # Setup
  BY BoundsAssumption
<1>3. CASE CallMoves(c)
  <2>1. (Typed(c) \/ Lost(c)) /\ job[c] = c
    BY <1>1, <1>3 DEF CallMoves, Entered, Opened, Left, Met, Cleared, Pools, Typed, Lost, Replied
  <2> QED BY <2>1, TypedWaits DEF IInv
<1>4. CASE ~CallMoves(c)
  <2>1. at[c] = "poll" /\ job[c] = c
    <3>1. CASE UNCHANGED <<at, job>>
      BY <3>1
    <3>2. ASSUME NEW d \in Calls, Begun(d)
          PROVE  at[c] = "poll" /\ job[c] = c
      BY <1>1, <3>2 DEF Begun
    <3>3. ASSUME NEW d \in Calls, CallMoves(d), d # c
          PROVE  at[c] = "poll" /\ job[c] = c
      BY <1>1, <3>3 DEF CallMoves, Entered, Opened, Left, Met, Cleared, Pools, Typed, Lost, Replied
    <3> QED BY <1>4, <3>1, <3>2, <3>3 DEF Moves, Calm, ShellMoves, Apart
  <2>2. Waits(c) \/ Runs(c) \/ HasEnded(c)
    BY <2>1 DEF IInv, Polled
  <2> DEFINE s == mine[c]
  <2>3. s \in Sessions
    BY <2>1, BoundsAssumption DEF IInv, TypeOK, Places, Placed, Sessions
  <2>4. /\ mine'[c] = s
        /\ \/ UNCHANGED <<buffer, shell, tty, wrote>>
           \/ \E t \in Sessions : ShellMoves(t)
    BY <1>4, <2>1, Undisturbed DEF IInv
  <2>5. ASSUME mine'[c] = s, buffer'[s] = buffer[s], shell'[s] = shell[s],
               tty'[s] = tty[s], wrote'[c] = wrote[c]
        PROVE  Waits(c)' \/ Runs(c)' \/ HasEnded(c)'
    <3>1. Waits(c) => Waits(c)'
      BY <2>5 DEF Waits
    <3>2. Runs(c) => Runs(c)'
      BY <2>5 DEF Runs, Written
    <3>3. HasEnded(c) => HasEnded(c)'
      BY <2>5 DEF HasEnded, Written
    <3> QED BY <2>2, <3>1, <3>2, <3>3
  <2>6. ASSUME NEW t \in Sessions, ShellMoves(t)
        PROVE  Waits(c)' \/ Runs(c)' \/ HasEnded(c)'
    <3>1. CASE t = s
      BY <2>1, <2>2, <2>6, <3>1, WaitsOn, RunsOn DEF IInv
    <3>2. CASE t # s
      <4>1. buffer'[s] = buffer[s] /\ shell'[s] = shell[s] /\ tty'[s] = tty[s]
        BY <1>1, <2>3, <2>6, <3>2 DEF ShellMoves, Welcomes, Exits, Starts, Writes, Finishes,
           Swallows, Breaks, Heard
      <4>2. ~(Writes(t) /\ shell[t] = c)
        BY <2>1, <3>2 DEF IInv, Followed, Pending
      <4>3. wrote'[c] = wrote[c]
        BY <1>1, <2>6, <4>2 DEF ShellMoves, Welcomes, Exits, Starts, Writes, Finishes,
           Swallows, Breaks
      <4> QED BY <2>4, <2>5, <4>1, <4>3
    <3> QED BY <3>1, <3>2
  <2> QED BY <2>4, <2>5, <2>6
<1> QED BY <1>3, <1>4

\* What was answered is the command's own output, and stays all of it.
LEMMA AnswerKept ==
  ASSUME IInv, Moves
  PROVE  AnswerIsOwn'
<1> SUFFICES ASSUME NEW c \in Calls, outcome'[c] = "answered"
             PROVE  answer'[c] = Append([i \in 1..wrote'[c] |-> Line("out", c, i)],
                                        Line("end", c, 0))
  BY DEF AnswerIsOwn
<1> USE DEF Goto, Return
<1>1. /\ at \in [Calls -> {"idle", "lock", "spawn", "ready", "clear", "type", "poll", "done"}]
      /\ outcome \in [Calls -> {"none", "closed", "failed", "answered"}]
      /\ answer \in [Calls -> Seq(Lines)] /\ wrote \in [Calls -> 0..MaxOut]
  BY DEF IInv, TypeOK, Places, Texts
<1>2. CASE Replied(c)
  <2>1. PICK found \in Parses(buffer[mine[c]], c) : answer' = [answer EXCEPT ![c] = found]
    BY <1>2 DEF Replied
  <2>2. found = Append([i \in 1..wrote[c] |-> Line("out", c, i)], Line("end", c, 0))
    BY <1>2, Parsed DEF Replied, IInv
  <2>3. answer'[c] = found /\ wrote'[c] = wrote[c]
    BY <1>1, <1>2, <2>1 DEF Replied
  <2> QED BY <2>2, <2>3
<1>3. CASE ~Replied(c)
  <2>0. ASSUME NEW d \in Calls, CallMoves(d)
        PROVE  outcome[c] = "answered" /\ answer'[c] = answer[c]
    <3>1. ASSUME NEW dead, Purged(dead), Entered(d)
          PROVE  outcome[c] = "answered" /\ answer'[c] = answer[c]
      BY <1>1, <3>1 DEF Purged, Entered
    <3>2. CASE Left(d)
      BY <1>1, <3>2 DEF Left
    <3>3. CASE Replied(d)
      <4>1. d # c
        BY <1>3, <3>3
      <4> QED BY <1>1, <3>3, <4>1 DEF Replied
    <3>4. CASE UNCHANGED <<outcome, answer>>
      BY <3>4
    <3> QED BY <2>0, <3>1, <3>2, <3>3, <3>4
            DEF CallMoves, Opened, Met, Cleared, Pools, Typed, Lost
  <2>1. outcome[c] = "answered" /\ answer'[c] = answer[c]
    BY <2>0 DEF Moves, Calm, Begun, Purged, ShellMoves, Apart
  <2>2. at[c] = "done"
    BY <2>1 DEF IInv, Placed
  <2>4. ASSUME NEW t \in Sessions, Writes(t)
        PROVE  wrote'[c] = wrote[c]
    <3>1. shell[t] # c
      BY <2>1, <2>2 DEF IInv, Followed, Pending
    <3> QED BY <1>1, <2>4, <3>1 DEF Writes
  <2>5. wrote'[c] = wrote[c]
    BY <2>4 DEF Moves, Calm, Begun, CallMoves, Purged, Opened, Left, Met, Cleared,
       Pools, Typed, Lost, Replied, ShellMoves, Welcomes, Exits, Starts, Finishes, Swallows, Breaks
  <2>6. answer[c] = Append([i \in 1..wrote[c] |-> Line("out", c, i)], Line("end", c, 0))
    BY <2>1 DEF IInv, AnswerIsOwn
  <2> QED BY <2>1, <2>5, <2>6
<1> QED BY <1>2, <1>3

-----------------------------------------------------------------------------
(* The theorems. *)

\* Every state of every behaviour satisfies the inductive invariant.
THEOREM Invariance == Spec => []IInv
<1>1. IInv /\ [Next]_vars => IInv'
  <2> SUFFICES ASSUME IInv, [Next]_vars PROVE IInv'
    OBVIOUS
  <2>1. Moves /\ TypeOK'
    BY StepMoves, TypesKept DEF IInv
  <2>2. Placed'
    BY <2>1, PlacedKept DEF IInv
  <2>3. Usable'
    BY <2>1, <2>2, UsableKept DEF IInv
  <2>4. Followed' /\ OneAtATime' /\ Unheard'
    BY <2>1, FollowedKept, OneAtATimeKept, UnheardKept DEF IInv
  <2>5. Polled' /\ AnswerIsOwn'
    BY <2>1, PolledKept, AnswerKept
  <2> QED BY <2>1, <2>2, <2>3, <2>4, <2>5 DEF IInv
<1> QED BY InitInv, <1>1, PTL DEF Spec

\* Types, for any set of keys and calls and any number of sessions.
THEOREM TypeCorrect == Spec => []TypeOK
<1>1. IInv => TypeOK
  BY DEF IInv
<1> QED BY Invariance, <1>1, PTL

\* After a timeout nothing but exit is typed behind a command that may still run:
\* ElevatedSessionPool drops the session of whatever failed.
THEOREM NothingBehind == Spec => []OneAtATime
<1>1. IInv => OneAtATime
  BY DEF IInv
<1> QED BY Invariance, <1>1, PTL

\* parse_command_output gives a call all that its own command wrote, and nothing
\* that the session ran, or echoed, before.
THEOREM OwnAnswer == Spec => []AnswerIsOwn
<1>1. IInv => AnswerIsOwn
  BY DEF IInv
<1> QED BY Invariance, <1>1, PTL

\* A poll finds the markers of a command that has ended on a line of its own.
THEOREM EndFound == Spec => []EndIsSeen
<1>1. ASSUME IInv, NEW c \in Calls, Ended(c), Line("glued", c, 0) \notin ToSet(buffer[mine[c]])
      PROVE  Parses(buffer[mine[c]], c) # {}
  <2> DEFINE lines == buffer[mine[c]]
  <2>1. /\ at[c] = "poll" /\ job[c] = c
        /\ shell[mine[c]] = "prompt" /\ tty[mine[c]] = <<>>
    BY <1>1 DEF Ended
  <2>2. c # "prompt"
    BY JobsAssumption DEF Jobs
  <2>3. HasEnded(c)
    BY <1>1, <2>1, <2>2 DEF IInv, Polled, Waits, Runs, LastOnly
  <2>4. lines \in Seq(Lines) /\ wrote[c] \in Nat
    <3>1. mine[c] \in Sessions
      BY <1>1, <2>1, BoundsAssumption DEF IInv, TypeOK, Places, Placed, Sessions
    <3> QED BY <1>1, <3>1, BoundsAssumption DEF IInv, TypeOK, Places, Texts
  <2>5. Len(lines) \in Nat /\ DOMAIN lines = 1..Len(lines)
    BY <2>4, LenProperties
  <2>6. PICK p \in 1..Len(lines) :
          /\ Written(c, lines, p) /\ Len(lines) = p + wrote[c] + 1
          /\ lines[p + wrote[c] + 1] \in {Line("end", c, 0), Line("glued", c, 0)}
    BY <2>3 DEF HasEnded
  <2> DEFINE e == p + wrote[c] + 1
  <2>7. e = Len(lines) /\ e \in 1..Len(lines) /\ p < e
    BY <2>4, <2>5, <2>6
  <2>8. lines[e] = Line("end", c, 0)
    <3>1. lines[e] \in ToSet(lines)
      BY <2>5, <2>7 DEF ToSet
    <3> QED BY <1>1, <2>6, <3>1
  <2>9. p \in Begins(lines, c) /\ e \in Ends(lines, c)
    BY <2>5, <2>6, <2>7, <2>8 DEF Begins, Ends, Written, Line
  <2>10. \A x \in Ends(lines, c) : x <= e
    BY <2>5, <2>7 DEF Ends
  <2>11. \A x \in Begins(lines, c) : p <= x
    <3>1. ASSUME NEW x \in Begins(lines, c), ~(p <= x)
          PROVE  FALSE
      <4>1. x \in 1..Len(lines) /\ Own(lines[x], c)
        BY <2>5 DEF Begins, Own
      <4>2. x \in 1..(p - 1)
        BY <3>1, <4>1
      <4> QED BY <2>6, <4>1, <4>2 DEF Written
    <3> QED BY <3>1
  <2> HIDE DEF e, lines
  <2>12. <<p, e>> \in Spans(lines, c)
    BY <2>7, <2>9, <2>10, <2>11 DEF Spans
  <2> QED BY <2>12 DEF Parses, lines
<1>2. IInv => EndIsSeen
  BY <1>1 DEF EndIsSeen
<1> QED BY Invariance, <1>2, PTL

=============================================================================
