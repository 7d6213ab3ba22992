---------------------------- MODULE ElevatedPool ----------------------------
(***************************************************************************)
(* The sessions that brokre mcp keeps for privileged commands. A session   *)
(* is a root shell under ssh on a PTY; a call finds or opens the one of    *)
(* its key, types its command between two markers of its own, and polls    *)
(* the output that the session's reader thread collects until it finds     *)
(* them, all of it under the mutex of the pool. A sweeper removes sessions *)
(* that are idle, old or dead. To end a session is to type exit.           *)
(*                                                                         *)
(* What the reader thread has yet to read counts as not yet written. The   *)
(* injection of passwords during the bootstrap, and programs that a        *)
(* command leaves in the background, are left out.                         *)
(***************************************************************************)
EXTENDS Naturals, Sequences, SequencesExt

CONSTANTS
  Keys,          \* (alias, mode, user)
  Calls,         \* calls, and the commands they run
  Setup,         \* HYGIENE_COMMAND, which every session runs first
  MaxSessions,   \* bound of the model: sessions that are opened
  MaxOut         \* bound of the model: lines that a command writes

ASSUME BoundsAssumption == Setup \notin Calls /\ MaxSessions \in Nat /\ MaxOut \in Nat

Sessions == 1..MaxSessions
None == 0

Jobs == Calls \cup {Setup}

\* A command is none of the words of a shell.
ASSUME JobsAssumption == Jobs \cap {"exit", "none", "login", "prompt", "ended"} = {}

\* Lines of output: READY, the markers of a job, what it writes, the echo of its
\* line, and an end marker behind output that lacks its newline.
Line(tag, job, n) == [tag |-> tag, job |-> job, n |-> n]
Lines == [tag : {"ready", "begin", "out", "end", "glued", "echo"}, job : Jobs, n : 0..MaxOut]

VARIABLES
  lock,      \* the call that holds the pool, as a set
  pool,      \* the session of a key
  opened,    \* sessions opened so far
  quiet,     \* sessions past their idle limit
  old,       \* sessions past their lifetime
  at,        \* where a call is
  key,       \* the key of its session
  mine,      \* its session
  job,       \* what it runs there: Setup or its command
  outcome,   \* how it ended
  answer,    \* the lines between its markers and the end marker
  alive,     \* child_alive of a session
  buffer,    \* output of a session
  shell,     \* its shell: "none", "login", "prompt", "ended" or the job it runs
  tty,       \* lines typed and not read
  wrote,     \* how many lines a command has written
  ate        \* sessions whose exit was read by something else than the shell

callVars == <<at, key, mine, job, outcome, answer>>
poolVars == <<lock, pool, opened, quiet, old>>
shellVars == <<shell, tty, wrote, ate>>
vars == <<poolVars, callVars, alive, buffer, shellVars>>

Request == [key : Keys, policy : {"reuse", "new", "close"}, empty : BOOLEAN]

Locked ==
  /\ lock = {c \in Calls : at[c] \in {"spawn", "ready", "clear", "type", "poll"}}
  /\ \A c, d \in lock : c = d

Places ==
  /\ opened \in 0..MaxSessions
  /\ quiet \subseteq Sessions /\ old \subseteq Sessions
  /\ alive \subseteq Sessions /\ ate \subseteq Sessions
  /\ pool \in [Keys -> Sessions \cup {None}]
  /\ at \in [Calls -> {"idle", "lock", "spawn", "ready", "clear", "type", "poll", "done"}]
  /\ key \in [Calls -> Keys]
  /\ mine \in [Calls -> Sessions \cup {None}]
  /\ job \in [Calls -> Jobs]
  /\ outcome \in [Calls -> {"none", "closed", "failed", "answered"}]
  /\ shell \in [Sessions -> {"none", "login", "prompt", "ended"} \cup Jobs]
  /\ wrote \in [Calls -> 0..MaxOut]

Texts ==
  /\ answer \in [Calls -> Seq(Lines)]
  /\ buffer \in [Sessions -> Seq(Lines)]
  /\ tty \in [Sessions -> Seq(Jobs \cup {"exit"})]

TypeOK == Locked /\ Places /\ Texts

Init ==
  /\ lock = {} /\ pool = [k \in Keys |-> None] /\ opened = 0 /\ quiet = {} /\ old = {}
  /\ at = [c \in Calls |-> "idle"] /\ key \in [Calls -> Keys]
  /\ mine = [c \in Calls |-> None] /\ job = [c \in Calls |-> Setup]
  /\ outcome = [c \in Calls |-> "none"] /\ answer = [c \in Calls |-> <<>>]
  /\ alive = {} /\ buffer = [s \in Sessions |-> <<>>]
  /\ shell = [s \in Sessions |-> "none"] /\ tty = [s \in Sessions |-> <<>>]
  /\ wrote = [c \in Calls |-> 0] /\ ate = {}

-----------------------------------------------------------------------------
(* The pool. *)

Pooled == {pool[k] : k \in Keys} \ {None}

\* Mutant of Kill: it only marks them dead.
Kill_Silent(doomed, dropped) ==
  /\ alive' = alive \ (doomed \cup dropped)
  /\ buffer' = [s \in Sessions |-> IF s \in doomed \cup dropped THEN <<>> ELSE buffer[s]]
  /\ UNCHANGED tty

\* kill marks a session dead and types exit; dropping the session does so again,
\* and frees its output.
Kill(doomed, dropped) ==
  /\ alive' = alive \ (doomed \cup dropped)
  /\ buffer' = [s \in Sessions |-> IF s \in doomed \cup dropped THEN <<>> ELSE buffer[s]]
  /\ tty' = [s \in Sessions |->
       tty[s] \o (IF shell[s] = "ended" THEN <<>>
                  ELSE IF s \in doomed THEN <<"exit", "exit">>
                  ELSE IF s \in dropped THEN <<"exit">> ELSE <<>>)]

\* Entries that leave the pool, and those whose last_active is renewed.
Update(doomed, active) ==
  /\ pool' = [k \in Keys |-> IF pool[k] \in doomed THEN None ELSE pool[k]]
  /\ quiet' = quiet \ (doomed \cup active)
  /\ old' = old \ doomed

\* sweep_idle.
Swept == Pooled \cap (quiet \cup old \cup (Sessions \ alive))

Sweep ==
  /\ lock = {} /\ Swept # {}
  /\ Update(Swept, {}) /\ Kill(Swept, {})
  /\ UNCHANGED <<lock, opened, callVars, shell, wrote, ate>>

\* Time passes.
GrowQuiet(s) ==
  /\ s \in Pooled \ quiet
  /\ quiet' = quiet \cup {s}
  /\ UNCHANGED <<lock, pool, opened, old, callVars, alive, buffer, shellVars>>

GrowOld(s) ==
  /\ s \in Pooled \ old
  /\ old' = old \cup {s}
  /\ UNCHANGED <<lock, pool, opened, quiet, callVars, alive, buffer, shellVars>>

-----------------------------------------------------------------------------
(* ElevatedSessionPool::run, and PtySession::run_command in it. *)

Goto(c, step) == at' = [at EXCEPT ![c] = step]

Return(c, how) ==
  /\ Goto(c, "done")
  /\ outcome' = [outcome EXCEPT ![c] = how]
  /\ mine' = [mine EXCEPT ![c] = None]
  /\ lock' = lock \ {c}

Begin(c) ==
  /\ at[c] = "idle"
  /\ Goto(c, "lock")
  /\ UNCHANGED <<poolVars, key, mine, job, outcome, answer, alive, buffer, shellVars>>

\* The session that the policy does not let a call reuse.
Refused(r) == IF r.policy = "reuse" THEN {} ELSE {pool[r.key]} \ {None}

\* Under the mutex: sweep, drop what the policy refuses, find one to reuse.
Enter(c, r) ==
  /\ at[c] = "lock" /\ lock = {}
  /\ Kill(IF r.policy = "new" THEN Swept \cup Refused(r) ELSE Swept, Refused(r))
  /\ \/ /\ r.policy = "close"
        /\ Return(c, "closed") /\ UNCHANGED <<key, job>>
        /\ Update(Swept \cup Refused(r), {})
     \/ /\ r.policy # "close" /\ r.empty
        /\ Return(c, "failed") /\ UNCHANGED <<key, job>>
        /\ Update(Swept \cup Refused(r), {})
     \/ /\ r.policy # "close" /\ ~r.empty
        /\ lock' = {c}
        /\ Update(Swept \cup Refused(r), {pool[r.key]})
        /\ key' = [key EXCEPT ![c] = r.key]
        /\ mine' = [mine EXCEPT ![c] = pool'[r.key]]
        /\ \/ mine'[c] = None /\ Goto(c, "spawn") /\ UNCHANGED job
           \/ mine'[c] # None /\ Goto(c, "clear") /\ job' = [job EXCEPT ![c] = c]
        /\ UNCHANGED outcome
  /\ UNCHANGED <<opened, answer, shell, wrote, ate>>

\* open_session: the alias may be gone, ssh may not start.
Spawn(c) ==
  /\ at[c] = "spawn"
  /\ \/ /\ opened < MaxSessions
        /\ opened' = opened + 1
        /\ mine' = [mine EXCEPT ![c] = opened']
        /\ alive' = alive \cup {opened'}
        /\ shell' = [shell EXCEPT ![opened'] = "login"]
        /\ Goto(c, "ready")
        /\ UNCHANGED <<lock, outcome>>
     \/ Return(c, "failed") /\ UNCHANGED <<opened, alive, shell>>
  /\ UNCHANGED <<pool, quiet, old, key, job, answer, buffer, tty, wrote, ate>>

\* A session that is not ready in time, or that has ended, is dropped.
WaitReady(c) ==
  /\ at[c] = "ready"
  /\ \/ /\ mine[c] \in alive
        /\ Line("ready", Setup, 0) \in ToSet(buffer[mine[c]])
        /\ Goto(c, "clear")
        /\ UNCHANGED <<lock, outcome, mine, alive, buffer, tty>>
     \/ Return(c, "failed") /\ Kill({}, {mine[c]})
  /\ UNCHANGED <<pool, opened, quiet, old, key, job, answer, shell, wrote, ate>>

\* run_command: clear_output,
ClearOutput(c) ==
  /\ at[c] = "clear"
  /\ buffer' = [buffer EXCEPT ![mine[c]] = <<>>]
  /\ Goto(c, "type")
  /\ UNCHANGED <<poolVars, key, mine, job, outcome, answer, alive, shellVars>>

\* Whatever comes of the hygiene command, the session goes to the pool.
Ready(c) ==
  /\ job[c] = Setup
  /\ pool' = [pool EXCEPT ![key[c]] = mine[c]]
  /\ job' = [job EXCEPT ![c] = c]
  /\ Goto(c, "clear")
  /\ UNCHANGED <<lock, quiet, old, mine, outcome, alive, buffer, tty>>

\* Mutant of Fail: the session stays.
Fail_Keeps(c) ==
  \/ Ready(c)
  \/ /\ job[c] = c /\ Return(c, "failed")
     /\ UNCHANGED <<pool, quiet, old, job, alive, buffer, tty>>

\* The session of a command that fails is dropped.
Fail(c) ==
  \/ Ready(c)
  \/ /\ job[c] = c /\ Return(c, "failed")
     /\ Update({mine[c]}, {}) /\ Kill({}, {mine[c]}) /\ UNCHANGED job

\* write_line; the remote tty may echo the line. The PTY of an ssh that has
\* ended may refuse it, or lose it.
TypeLine(c) ==
  /\ at[c] = "type"
  /\ \/ /\ shell[mine[c]] # "ended"
        /\ tty' = [tty EXCEPT ![mine[c]] = Append(@, job[c])]
        /\ \E echo \in {<<>>, <<Line("echo", job[c], 0)>>} :
             buffer' = [buffer EXCEPT ![mine[c]] = @ \o echo]
        /\ Goto(c, "poll")
        /\ UNCHANGED <<lock, pool, quiet, old, mine, job, outcome, alive>>
     \/ /\ shell[mine[c]] = "ended"
        /\ Goto(c, "poll")
        /\ UNCHANGED <<lock, pool, quiet, old, mine, job, outcome, alive, buffer, tty>>
     \/ shell[mine[c]] = "ended" /\ Fail(c)
  /\ UNCHANGED <<opened, key, answer, shell, wrote, ate>>

\* parse_command_output: from the line after the first begin marker to the last
\* end marker.

\* Mutant of Begins: the markers of every job are the same.
Begins_Any(lines, j) == {i \in DOMAIN lines : lines[i].tag = "begin"}

\* Mutant of Begins: nothing may precede the marker.
Begins_First(lines, j) == {i \in DOMAIN lines \cap {1} : lines[i] = Line("begin", j, 0)}

Begins(lines, j) == {i \in DOMAIN lines : lines[i].tag = "begin" /\ lines[i].job = j}
Ends(lines, j) == {i \in DOMAIN lines : lines[i].tag = "end" /\ lines[i].job = j}
Spans(lines, j) ==
  {span \in Begins(lines, j) \X Ends(lines, j) :
     /\ span[1] < span[2]
     /\ \A x \in Begins(lines, j) : span[1] <= x
     /\ \A x \in Ends(lines, j) : x <= span[2]}
Parses(lines, j) == {SubSeq(lines, span[1] + 1, span[2]) : span \in Spans(lines, j)}

Answered(c) ==
  /\ at[c] = "poll" /\ mine[c] \in alive
  /\ \E found \in Parses(buffer[mine[c]], job[c]) :
       \/ Ready(c) /\ UNCHANGED answer
       \/ /\ job[c] = c
          /\ answer' = [answer EXCEPT ![c] = found]
          /\ Update({}, {mine[c]})
          /\ Return(c, "answered")
          /\ UNCHANGED <<job, alive, buffer, tty>>
  /\ UNCHANGED <<opened, key, shell, wrote, ate>>

\* Mutant of GiveUp: no deadline.
GiveUp_Dead(c) ==
  /\ at[c] = "poll" /\ mine[c] \notin alive
  /\ Fail(c)
  /\ UNCHANGED <<opened, key, answer, shell, wrote, ate>>

\* The deadline has passed, or the session has ended.
GiveUp(c) ==
  /\ at[c] = "poll"
  /\ Fail(c)
  /\ UNCHANGED <<opened, key, answer, shell, wrote, ate>>

CallStep(c) ==
  \/ \E r \in Request : Enter(c, r)
  \/ Spawn(c) \/ WaitReady(c)
  \/ ClearOutput(c) \/ TypeLine(c) \/ Answered(c) \/ GiveUp(c)

-----------------------------------------------------------------------------
(* A session's threads, and its shell. *)

\* Either the reader thread or the one that waits for ssh notices the end.
NoticeEnd(s) ==
  /\ shell[s] = "ended" /\ s \in alive
  /\ alive' = alive \ {s}
  /\ UNCHANGED <<poolVars, callVars, buffer, shellVars>>

\* The reader thread appends what comes to the output, while the session is held.
ReadOutput(s, line) ==
  buffer' = IF s \in Pooled \cup {mine[c] : c \in Calls}
            THEN [buffer EXCEPT ![s] = Append(@, line)] ELSE buffer

LoggedIn(s) ==
  /\ shell[s] = "login"
  /\ shell' = [shell EXCEPT ![s] = "prompt"]
  /\ ReadOutput(s, Line("ready", Setup, 0))
  /\ UNCHANGED <<poolVars, callVars, alive, tty, wrote, ate>>

ShellReads(s) ==
  /\ shell[s] = "prompt" /\ tty[s] # <<>>
  /\ IF Head(tty[s]) = "exit"
     THEN /\ shell' = [shell EXCEPT ![s] = "ended"]
          /\ tty' = [tty EXCEPT ![s] = <<>>]
          /\ UNCHANGED buffer
     ELSE /\ shell' = [shell EXCEPT ![s] = Head(tty[s])]
          /\ tty' = [tty EXCEPT ![s] = Tail(@)]
          /\ ReadOutput(s, Line("begin", Head(tty[s]), 0))
  /\ UNCHANGED <<poolVars, callVars, alive, wrote, ate>>

JobWrites(s) ==
  /\ shell[s] \in Calls /\ wrote[shell[s]] < MaxOut
  /\ wrote' = [wrote EXCEPT ![shell[s]] = @ + 1]
  /\ ReadOutput(s, Line("out", shell[s], wrote'[shell[s]]))
  /\ UNCHANGED <<poolVars, callVars, alive, shell, tty, ate>>

\* The end marker is a line of its own only if the output ended with a newline.
JobEnds(s) ==
  /\ shell[s] \in Jobs
  /\ shell' = [shell EXCEPT ![s] = "prompt"]
  /\ \/ ReadOutput(s, Line("end", shell[s], 0))
     \/ shell[s] \in Calls /\ wrote[shell[s]] > 0 /\ ReadOutput(s, Line("glued", shell[s], 0))
  /\ UNCHANGED <<poolVars, callVars, alive, tty, wrote, ate>>

\* A login prompt, or a command that reads its input, takes what is typed.
Eats(s) ==
  /\ shell[s] \in Calls \cup {"login"} /\ tty[s] # <<>>
  /\ tty' = [tty EXCEPT ![s] = Tail(@)]
  /\ ate' = IF Head(tty[s]) = "exit" THEN ate \cup {s} ELSE ate
  /\ UNCHANGED <<poolVars, callVars, alive, buffer, shell, wrote>>

\* The shell, or the connection, ends.
ShellEnds(s) ==
  /\ shell[s] \notin {"none", "ended"}
  /\ shell' = [shell EXCEPT ![s] = "ended"]
  /\ tty' = [tty EXCEPT ![s] = <<>>]
  /\ UNCHANGED <<poolVars, callVars, alive, buffer, wrote, ate>>

-----------------------------------------------------------------------------
Over == (\A c \in Calls : at[c] = "done") /\ Pooled = {} /\ UNCHANGED vars

Next ==
  \/ \E c \in Calls : Begin(c) \/ CallStep(c)
  \/ Sweep
  \/ \E s \in Sessions :
       \/ GrowQuiet(s) \/ GrowOld(s) \/ NoticeEnd(s)
       \/ LoggedIn(s) \/ ShellReads(s) \/ JobWrites(s) \/ JobEnds(s) \/ Eats(s) \/ ShellEnds(s)
  \/ Over

\* The threads of mcp and a shell that has a line to read go on, and deadlines
\* pass; nobody need call, and no login and no command need end.
Spec ==
  /\ Init /\ [][Next]_vars
  /\ \A c \in Calls : WF_vars(CallStep(c))
  /\ WF_vars(Sweep)
  /\ \A s \in Sessions : WF_vars(ShellReads(s))

-----------------------------------------------------------------------------
(* Properties. *)

\* What a call answers is all that its own command wrote, in order, up to the
\* command's own end: no echo, no marker and no output of another command,
\* whatever the session ran before.
AnswerIsOwn ==
  \A c \in Calls : outcome[c] = "answered" =>
    answer[c] = Append([i \in 1..wrote[c] |-> Line("out", c, i)], Line("end", c, 0))

\* A command that has ended is recognised: its markers are found, whatever is
\* echoed and whatever an earlier command left behind, provided its output ended
\* with a newline.
Ended(c) ==
  /\ at[c] = "poll" /\ job[c] = c
  /\ shell[mine[c]] = "prompt" /\ tty[mine[c]] = <<>>
EndIsSeen ==
  \A c \in Calls :
    Ended(c) /\ Line("glued", c, 0) \notin ToSet(buffer[mine[c]])
      => Parses(buffer[mine[c]], c) # {}

\* A command is never typed into a session that may still run another: after a
\* timeout nothing but exit follows.
Pending(c, s) == shell[s] = c \/ c \in ToSet(tty[s])
OneAtATime ==
  \A s \in Sessions : \A c, d \in Calls : Pending(c, s) /\ Pending(d, s) => c = d

\* Every call returns: a command that hangs, or a login that never ends, holds
\* the pool no longer than its deadline.
CallsReturn == \A c \in Calls : at[c] = "lock" ~> at[c] = "done"

\* A session past its lifetime leaves the pool, though nobody calls.
SessionsEnd == \A s \in Sessions : s \in old ~> s \notin Pooled

\* Neither a call nor a session outstays its limit.
LimitsHold == CallsReturn /\ SessionsEnd

\* No shell of a session that was dropped waits at its prompt for ever, unless
\* something else read its exit.
Dropped(s) == s \in 1..opened \ Pooled /\ \A c \in Calls : mine[c] # s
NoPromptLeft ==
  \A s \in Sessions : []<>(Dropped(s) /\ shell[s] = "prompt" => s \in ate)

=============================================================================
