--------------------------- MODULE ManageInstance ---------------------------
(***************************************************************************)
(* The manage HTTP server and its record, ~/.brokre/run/manage.json. A     *)
(* standalone brokre manage runs one for its whole life under the start    *)
(* lock and removes the record when it ends. brokre mcp takes the one on   *)
(* record and starts one of its own when it finds none, without the lock;  *)
(* its server expires when it is idle and ends with the process. A brokre  *)
(* ssh that waits for an unlock in the browser does what the first call of *)
(* an mcp does, and its refreshes.                                         *)
(*                                                                         *)
(* Reading the record, asking the server and removing the record are three *)
(* steps; writing it is two. Any process may die between any two.          *)
(*                                                                         *)
(* A server answers its requests one after another, and some wait for a    *)
(* child, or for the server itself; who asks it meanwhile waits, without a *)
(* timeout.                                                                *)
(***************************************************************************)
EXTENDS Naturals, FiniteSets

CONSTANTS
  Manages,     \* brokre manage processes
  Mcps,        \* brokre mcp processes
  MaxServers   \* bound of the model: servers that one mcp starts

Procs == Manages \cup Mcps

ASSUME ProcsAssumption == Manages \cap Mcps = {} /\ MaxServers \in Nat \ {0}

\* The n-th server of a process: its port and its token.
Servers == (Manages \X {1}) \cup (Mcps \X (1..MaxServers))
Owner(s) == s[1]

\* A process is not one of its servers.
ASSUME ServersAssumption == Procs \cap Servers = {}

None == <<>>
Blank == <<"blank">>   \* the record while it is truncated, or not JSON

VARIABLES
  rec,      \* the record: a server, None or Blank
  open,     \* the processes whose open file still is the record
  lock,     \* the holder of the start lock, as a set
  at,       \* where a process is
  look,     \* which look for a running server it is at
  seen,     \* the server it read from the record
  hint,     \* the server that an mcp keeps between calls
  target,   \* the server that the last call of a process gave
  made,     \* how many servers a process has started
  idle,     \* servers that nobody has asked for 900 s
  expired,  \* servers whose session_expired is set
  exiting,  \* servers whose idle thread is about to remove the record and exit
  busy,     \* servers whose only thread is at a request that waits for another
            \* program, or for a request to itself
  fresh     \* history: threads whose call, or whose shutdown, began after
            \* the record was last written

procVars == <<at, look, seen, hint, target>>
serverVars == <<made, idle, expired, exiting, busy>>
vars == <<rec, open, lock, procVars, serverVars, fresh>>

TypeOK ==
  /\ rec \in Servers \cup {None, Blank}
  /\ open \subseteq Procs
  /\ lock \subseteq Manages
  /\ at \in [Procs -> {"off", "free", "read", "probe", "remove", "hint", "lock", "bind",
                       "truncate", "write", "serving", "unlink", "gone"}]
  /\ look \in [Procs -> {"first", "again", "refresh"}]
  /\ seen \in [Procs -> Servers \cup {None}]
  /\ hint \in [Procs -> Servers \cup {None}] /\ \A p \in Manages : hint[p] = None
  /\ target \in [Procs -> Servers \cup {None}]
  /\ made \in [Procs -> 0..MaxServers] /\ \A p \in Manages : made[p] <= 1
  /\ idle \subseteq Servers
  /\ expired \subseteq {s \in Servers : Owner(s) \notin Manages}
  /\ exiting \subseteq Servers /\ busy \subseteq Servers
  /\ fresh \subseteq Procs \cup Servers

Init ==
  /\ rec = None /\ open = {} /\ lock = {}
  /\ at = [p \in Procs |-> "off"] /\ look = [p \in Procs |-> "first"]
  /\ seen = [p \in Procs |-> None] /\ hint = [p \in Procs |-> None]
  /\ target = [p \in Procs |-> None]
  /\ made = [p \in Procs |-> 0] /\ idle = {} /\ expired = {}
  /\ exiting = {} /\ busy = {}
  /\ fresh = {}

-----------------------------------------------------------------------------
Alive(p) == at[p] \notin {"off", "gone"}
Newest(p) == <<p, made[p]>>
Up(s) == Alive(Owner(s)) /\ s[2] <= made[Owner(s)]

\* probe_manage: what is not up refuses the connection, another server on the
\* same port does not know the token, and an expired one knows none.
Answers(s) == Up(s) /\ s \notin expired

\* ... and the answer comes at once, unless the server is at another request.
Heard(s) == ~(Up(s) /\ s \in busy)

Goto(p, step) == at' = [at EXCEPT ![p] = step]

\* The end of a process takes its servers and its locks with it.
EndAfterAsking(p, asked) ==
  /\ Goto(p, "gone")
  /\ lock' = lock \ {p} /\ open' = open \ {p}
  /\ exiting' = {s \in exiting : Owner(s) # p}
  /\ idle' = {s \in idle \ asked : Owner(s) # p}
  /\ expired' = {s \in expired : Owner(s) # p}
  /\ busy' = {s \in busy : Owner(s) # p}
  /\ fresh' = fresh \ ({p} \cup {s \in Servers : Owner(s) = p})
  /\ look' = [look EXCEPT ![p] = "first"]
  /\ seen' = [seen EXCEPT ![p] = None]
  /\ hint' = [hint EXCEPT ![p] = None]
  /\ target' = [target EXCEPT ![p] = None]
  /\ UNCHANGED made

End(p) == EndAfterAsking(p, {})

\* A call of an mcp is over, and what only it knew is forgotten.
Return(p) ==
  /\ Goto(p, "free")
  /\ look' = [look EXCEPT ![p] = "first"]
  /\ seen' = [seen EXCEPT ![p] = None]
  /\ fresh' = fresh \ {p}

\* A call that fails ends brokre manage; mcp reports it.
CallFails(p) ==
  IF p \in Manages
  THEN End(p)
  ELSE /\ Return(p)
       /\ open' = open \ {p}
       /\ UNCHANGED <<lock, hint, target, made, idle, expired, exiting, busy>>

\* brokre manage prints where the server is and ends.
Found(p, s) ==
  IF p \in Manages
  THEN EndAfterAsking(p, {s})
  ELSE /\ Return(p)
       /\ idle' = idle \ {s}
       /\ target' = [target EXCEPT ![p] = s]
       /\ hint' = IF look[p] # "refresh" THEN [hint EXCEPT ![p] = s] ELSE hint
       /\ UNCHANGED <<open, lock, made, expired, exiting, busy>>

\* find_running_instance found none. ensure_manage looks again, and asks the
\* server that it was given last, before it starts one.
NotFound(p) ==
  /\ at' = [at EXCEPT ![p] =
       CASE look[p] = "first" /\ p \in Manages -> "lock"
         [] look[p] = "first" /\ p \notin Manages -> IF hint[p] = None THEN "bind" ELSE "read"
         [] look[p] = "again" -> IF p \in Manages THEN "bind" ELSE "hint"
         [] look[p] = "refresh" -> "hint"]
  /\ look' = [look EXCEPT ![p] = IF @ = "first" THEN "again" ELSE @]

-----------------------------------------------------------------------------
(* Calls. *)

\* brokre manage looks for a running server at once.
Launch(p) ==
  /\ at[p] = "off"
  /\ Goto(p, IF p \in Manages THEN "read" ELSE "free")
  /\ fresh' = IF p \in Manages THEN fresh \cup {p} ELSE fresh
  /\ UNCHANGED <<rec, open, lock, look, seen, hint, target, serverVars>>

\* ensure_manage ("first"), and refresh_manage_for_gate while the call that it
\* is made for waits for the unlock.
Call(p, kind) ==
  /\ at[p] = "free"
  /\ kind = "refresh" => target[p] # None
  /\ Goto(p, "read")
  /\ look' = [look EXCEPT ![p] = kind]
  /\ seen' = [seen EXCEPT ![p] = None]
  /\ fresh' = fresh \cup {p}
  /\ UNCHANGED <<rec, open, lock, hint, target, serverVars>>

ReadRecord(p) ==
  /\ at[p] = "read"
  /\ IF rec \in Servers
     THEN seen' = [seen EXCEPT ![p] = rec] /\ Goto(p, "probe") /\ UNCHANGED look
     ELSE NotFound(p) /\ UNCHANGED seen
  /\ UNCHANGED <<rec, open, lock, hint, target, serverVars, fresh>>

\* Every request that a server answers sets its clock back.
Probe(p) ==
  /\ at[p] = "probe" /\ Heard(seen[p])
  /\ IF Answers(seen[p])
     THEN Found(p, seen[p])
     ELSE /\ Goto(p, "remove")
          /\ UNCHANGED <<open, lock, look, seen, hint, target, serverVars, fresh>>
  /\ UNCHANGED rec

\* Whatever the record is by now.
Remove(p) ==
  /\ at[p] = "remove"
  /\ rec' = None /\ open' = {}
  /\ NotFound(p)
  /\ UNCHANGED <<lock, seen, hint, target, serverVars, fresh>>

Kept(p) == IF look[p] = "refresh" THEN target[p] ELSE hint[p]

\* refresh_live_manage asks the server it was given.
ProbeHint(p) ==
  /\ at[p] = "hint" /\ Heard(Kept(p))
  /\ \E s \in {Kept(p)} :
       \/ Answers(s) /\ Found(p, s)
       \/ ~Answers(s) /\ look[p] = "refresh" /\ CallFails(p)
       \/ /\ ~Answers(s) /\ look[p] = "again"
          /\ Goto(p, "bind")
          /\ hint' = [hint EXCEPT ![p] = None]
          /\ UNCHANGED <<open, lock, look, seen, target, serverVars, fresh>>
  /\ UNCHANGED rec

\* Mutant of TryLock: the guard is dropped at once.
TryLock_Dropped(p) ==
  /\ at[p] = "lock"
  /\ Goto(p, "read")
  /\ UNCHANGED <<rec, open, lock, look, seen, hint, target, serverVars, fresh>>

\* Mutant of TryLock: it waits for the lock.
TryLock_Waits(p) ==
  /\ at[p] = "lock" /\ lock = {}
  /\ lock' = {p}
  /\ Goto(p, "read")
  /\ UNCHANGED <<rec, open, look, seen, hint, target, serverVars, fresh>>

\* acquire_start_lock does not wait.
TryLock(p) ==
  /\ at[p] = "lock"
  /\ IF lock = {}
     THEN /\ lock' = {p}
          /\ Goto(p, "read")
          /\ UNCHANGED <<open, look, seen, hint, target, serverVars, fresh>>
     ELSE CallFails(p)
  /\ UNCHANGED rec

-----------------------------------------------------------------------------
(* run_manage_server. *)

\* The server answers from here on. There may be no free port.
Bind(p) ==
  /\ at[p] = "bind"
  /\ \/ /\ made[p] < IF p \in Manages THEN 1 ELSE MaxServers
        /\ made' = [made EXCEPT ![p] = @ + 1]
        /\ Goto(p, "truncate")
        /\ UNCHANGED <<open, lock, look, seen, hint, target, idle, expired, exiting, busy, fresh>>
     \/ CallFails(p)
  /\ UNCHANGED rec

\* register_instance truncates the record
Truncate(p) ==
  /\ at[p] = "truncate"
  /\ \/ /\ rec' = Blank
        /\ open' = open \cup {p}
        /\ Goto(p, "write")
        /\ UNCHANGED <<lock, look, seen, hint, target, serverVars, fresh>>
     \/ CallFails(p) /\ UNCHANGED rec

\* and writes it: into the void when the file was removed, and over a record
\* that another has written after both truncated it. When it fails, the server
\* of an mcp is up and on nobody's record.
Write(p) ==
  /\ at[p] = "write"
  /\ \/ /\ IF p \in open
           THEN /\ rec' \in {Newest(p)} \cup {Blank : x \in Servers \cap {rec}}
                /\ fresh' = {}
           ELSE UNCHANGED rec /\ fresh' = fresh \ {p}
        /\ open' = open \ {p}
        /\ Goto(p, IF p \in Manages THEN "serving" ELSE "free")
        /\ IF p \in Manages THEN UNCHANGED target ELSE target' = [target EXCEPT ![p] = Newest(p)]
        /\ hint' = IF p \in Mcps THEN [hint EXCEPT ![p] = Newest(p)] ELSE hint
        /\ look' = [look EXCEPT ![p] = "first"]
        /\ seen' = [seen EXCEPT ![p] = None]
        /\ UNCHANGED <<lock, serverVars>>
     \/ CallFails(p) /\ UNCHANGED rec

-----------------------------------------------------------------------------
(* The ends of a server. *)

\* Mutant of Owns: it removes the record whoever's it is.
Owns_Any(p) == rec \in Servers

\* unregister_instance reads the record, and removes it if it has its pid.
Owns(p) == rec \in Servers /\ Owner(rec) = p

\* SIGINT or SIGTERM.
Stop(p) ==
  /\ at[p] = "serving"
  /\ IF Owns(p)
     THEN /\ Goto(p, "unlink")
          /\ fresh' = fresh \cup {p}
          /\ UNCHANGED <<open, lock, look, seen, hint, target, serverVars>>
     ELSE End(p)
  /\ UNCHANGED rec

Unlink(p) ==
  /\ at[p] = "unlink"
  /\ rec' = None
  /\ End(p)

\* 900 s go by, or somebody asks.
Age(s) ==
  /\ Answers(s) /\ s \notin idle
  /\ idle' = idle \cup {s}
  /\ UNCHANGED <<rec, open, lock, procVars, made, expired, exiting, busy, fresh>>

Request(s) ==
  /\ Answers(s) /\ s \in idle \ busy
  /\ idle' = idle \ {s}
  /\ UNCHANGED <<rec, open, lock, procVars, made, expired, exiting, busy, fresh>>

\* A request that runs a child or polls this very server, and the end of it,
\* which may never come.
Occupy(s) ==
  /\ Answers(s) /\ s \notin busy
  /\ busy' = busy \cup {s}
  /\ idle' = idle \ {s}
  /\ UNCHANGED <<rec, open, lock, procVars, made, expired, exiting, fresh>>

Release(s) ==
  /\ s \in busy
  /\ busy' = busy \ {s}
  /\ UNCHANGED <<rec, open, lock, procVars, made, idle, expired, exiting, fresh>>

\* The idle thread of an mcp's server lets its session expire; whether somebody
\* asks after it has read the clock makes no difference.
Expire(s) ==
  /\ Answers(s) /\ s \in idle /\ Owner(s) \notin Manages
  /\ expired' = expired \cup {s}
  /\ idle' = idle \ {s}
  /\ UNCHANGED <<rec, open, lock, procVars, made, exiting, busy, fresh>>

\* Mutant of IdleReadOwn: a server whose record is another's does not exit.
IdleReadOwn_Returns(s) ==
  /\ Answers(s) /\ s \in idle \ exiting /\ Owner(s) \in Manages
  /\ Owns(Owner(s))
  /\ exiting' = exiting \cup {s}
  /\ fresh' = fresh \cup {s}
  /\ UNCHANGED <<rec, open, lock, procVars, made, idle, expired, busy>>

\* That of a standalone manage removes the record if it is its own, and exits.
IdleReadOwn(s) ==
  /\ Answers(s) /\ s \in idle \ exiting /\ Owner(s) \in Manages
  /\ IF Owns(Owner(s))
     THEN /\ exiting' = exiting \cup {s}
          /\ fresh' = fresh \cup {s}
          /\ UNCHANGED <<open, lock, procVars, made, idle, expired, busy>>
     ELSE End(Owner(s))
  /\ UNCHANGED rec

IdleUnlink(s) ==
  /\ s \in exiting
  /\ rec' = None
  /\ End(Owner(s))

Die(p) == Alive(p) /\ End(p) /\ UNCHANGED rec

-----------------------------------------------------------------------------
Step(p) ==
  \/ ReadRecord(p) \/ Probe(p) \/ Remove(p) \/ ProbeHint(p) \/ TryLock(p)
  \/ Bind(p) \/ Truncate(p) \/ Write(p) \/ Unlink(p)

IdleThread(s) == Expire(s) \/ IdleReadOwn(s) \/ IdleUnlink(s)

ServerStep(s) == IdleThread(s) \/ Age(s) \/ Request(s) \/ Occupy(s) \/ Release(s)

Over == (\A p \in Procs : at[p] = "gone") /\ UNCHANGED vars

Next ==
  \/ \E p \in Procs : Launch(p) \/ Step(p) \/ Stop(p) \/ Die(p)
  \/ \E p \in Mcps : \E kind \in {"first", "refresh"} : Call(p, kind)
  \/ \E s \in Servers : ServerStep(s)
  \/ Over

\* A thread in a call goes on; nobody need call or ask, and no request need
\* end.
CallsGoOn == \A p \in Procs : WF_vars(Step(p))

\* The idle thread of a server wakes up every 30 s.
IdleThreadsRun == \A s \in Servers : WF_vars(IdleThread(s))

Spec == Init /\ [][Next]_vars /\ CallsGoOn /\ IdleThreadsRun

-----------------------------------------------------------------------------
(* Properties. *)

\* The start lock leaves at most one standalone server up, whatever becomes of
\* the record.
OneStandalone ==
  \A p, q \in Manages : Up(<<p, 1>>) /\ Up(<<q, 1>>) => p = q

\* Who changes the record in this step: a process or the idle thread of a server.
Changes(t) ==
  \/ /\ t \in Procs
     /\ at[t] \in {"remove", "truncate", "write", "unlink"} /\ at'[t] # at[t]
  \/ t \in exiting \ exiting'

\* The record of a server that answers is lost only to the server's own end, or
\* to a call or a shutdown that was under way when it was registered: none that
\* begins later removes it or registers another.
RecordKept ==
  [][\A s \in Servers :
       rec = s /\ Answers(s) /\ rec' # s =>
         \E t \in Procs \cup Servers :
           Changes(t) /\ (t \notin fresh \/ t \in {s, Owner(s)})]_vars

\* The server that a process is waiting for.
Asked(p) == CASE at[p] = "probe" -> seen[p] [] at[p] = "hint" -> Kept(p) [] OTHER -> None

\* Every call returns, with a server or without one: brokre manage serves or
\* ends, and waits for no other to end. The exception is the caller that asks
\* for ever and finds its server busy again and again, or for good if it polls
\* itself: probe_manage has no timeout on its read.
CallsReturn ==
  \A p \in Procs :
    \/ []<>(at[p] \in {"off", "free", "serving", "unlink", "gone"})
    \/ <>[](Asked(p) # None) /\ []<>(Asked(p) \in busy)

\* A server that nobody asks any more expires or exits.
IdleEnds == \A s \in Servers : []<>(s \notin idle \/ ~Answers(s))

=============================================================================
