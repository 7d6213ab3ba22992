--------------------------- MODULE BastionSession ---------------------------
(***************************************************************************)
(* The bastion unlock session of brokre: one JSON file,                    *)
(* ~/.brokre/run/bastion_session.json, that every brokre process of the    *)
(* account (CLI commands, MCP servers, the manage server) reads, renews,   *)
(* replaces and deletes WITHOUT a lock, and the gate that decides from it  *)
(* whether an outbound call through a bastion may start.                   *)
(*                                                                         *)
(* A step is one access to the file (or one reading of the clock followed  *)
(* by a decision), because between two of them any other process may run:  *)
(*   load_session     one read of the file                                 *)
(*   session_valid    the clock is read after the load; an expired session *)
(*                    is deleted in a later step                           *)
(*   touch_session    a second load, then a save                           *)
(*   save_session     fs::write: open-and-truncate, then write             *)
(*   clear_session    remove the path                                      *)
(* A thread that truncated the file writes to the file it opened: if the   *)
(* path was removed in between, the write reaches nobody (linked).         *)
(***************************************************************************)
EXTENDS Naturals

CONSTANTS
  Procs,        \* threads of brokre processes that run calls on the session
  Modes,        \* how a gated call may ask for an unlock, see AllModes
  Absent,       \* no session file / nothing in hand
  Torn,         \* a session file that does not parse
  IdleLimit,    \* BROKRE_BASTION_IDLE_SECS, in ticks
  MaxLifetime,  \* BROKRE_BASTION_MAX_SECS, in ticks
  PollLimit,    \* rounds of the poll loop that fit in its timeout
  MaxTime,      \* bound of the model: the clock stops here
  MaxUnlocks    \* bound of the model: unlocks ever granted

\* "tty": CLI on a terminal; "browser": CLI without one, auto-open enabled;
\* "mcp_exec": a child started for MCP; "server": the MCP server itself;
\* "closed": CLI without a terminal, "mcp_closed": a child started for MCP,
\* both with BROKRE_BASTION_NO_AUTO_OPEN.
AllModes == {"tty", "browser", "mcp_exec", "server", "closed", "mcp_closed"}

Uids == 1..MaxUnlocks

\* BastionSession. uid stands for unlocked_at, the instant of the unlock,
\* which no other unlock has.
Session == [uid : Uids, expires_at : Nat, idle_expires_at : Nat]

ASSUME ParameterAssumption ==
  /\ Modes \subseteq AllModes
  /\ IdleLimit \in Nat /\ MaxLifetime \in Nat /\ PollLimit \in Nat
  /\ MaxTime \in Nat /\ MaxUnlocks \in Nat

ASSUME NullAssumption ==
  /\ Absent \notin Session
  /\ Torn \notin Session
  /\ Absent # Torn

VARIABLES
  now,      \* Utc::now()
  key,      \* whether the bastion key file exists
  file,     \* the session file
  pc,       \* where each thread is
  site,     \* the call of is_unlocked a thread is in
  mode,     \* the mode of its call
  hand,     \* the session it holds: loaded, or about to be saved
  linked,   \* whether the file it truncated is still the one at the path
  opener,   \* the holder of the flock on bastion_unlock.lock, as a set
  polls,    \* rounds of its poll loop
  \* History, for the properties only.
  issued,   \* number of unlocks granted
  granted,  \* when each was granted
  lastUse,  \* when each was last renewed by a gated call
  saved,    \* unlocks whose session was written
  revoked,  \* unlocks that a lock (or a manage set-key) ended
  carried   \* unlocks some touch had loaded, not yet saved, at a lock

disk    == <<now, key, file>>
threads == <<pc, site, mode, hand, linked, opener, polls>>
history == <<issued, granted, lastUse, saved, revoked, carried>>
vars    == <<disk, threads, history>>

Sites == {"gate", "run_unlock", "interactive", "prompt", "browser", "coord",
          "entered", "elicited", "poll", "status"}

PCs == {"idle", "load", "check", "purge", "touch", "touch_trunc",
        "touch_write", "prompt", "unlock_trunc", "unlock_write", "find",
        "acquire", "elicit", "poll", "ask"}

\* Labels at which a thread reads the answer of a manage server: the probe of
\* the one it has found, the status it has asked for. Those reads have no
\* timeout, and the server may be at another request, or itself waiting.
ManageWaits == {"find", "ask"}

TypeOK ==
  /\ now \in 0..MaxTime
  /\ key \in BOOLEAN
  /\ file \in Session \cup {Absent, Torn}
  /\ pc \in [Procs -> PCs]
  /\ site \in [Procs -> Sites]
  /\ mode \in [Procs -> AllModes]
  /\ hand \in [Procs -> Session \cup {Absent}]
  /\ linked \in [Procs -> BOOLEAN]
  /\ opener \in SUBSET Procs
  /\ polls \in [Procs -> 0..PollLimit]
  /\ issued \in 0..MaxUnlocks
  /\ granted \in [Uids -> Nat]
  /\ lastUse \in [Uids -> Nat]
  /\ saved \in SUBSET Uids
  /\ revoked \in SUBSET Uids
  /\ carried \in SUBSET Uids

Init ==
  /\ now = 0
  /\ key \in BOOLEAN
  /\ file = Absent
  /\ pc = [p \in Procs |-> "idle"]
  /\ site = [p \in Procs |-> "gate"]
  /\ mode = [p \in Procs |-> "tty"]
  /\ hand = [p \in Procs |-> Absent]
  /\ linked = [p \in Procs |-> FALSE]
  /\ opener = {}
  /\ polls = [p \in Procs |-> 0]
  /\ issued = 0
  /\ granted = [u \in Uids |-> 0]
  /\ lastUse = [u \in Uids |-> 0]
  /\ saved = {}
  /\ revoked = {}
  /\ carried = {}

-----------------------------------------------------------------------------
(* Control flow of a thread. *)

\* The call ends: locals go out of scope and the flock is dropped.
Return(p) ==
  /\ pc' = [pc EXCEPT ![p] = "idle"]
  /\ site' = [site EXCEPT ![p] = "gate"]
  /\ mode' = [mode EXCEPT ![p] = "tty"]
  /\ hand' = [hand EXCEPT ![p] = Absent]
  /\ polls' = [polls EXCEPT ![p] = 0]
  /\ opener' = opener \ {p}

\* The thread leaves is_unlocked and goes on at label l.
Goto(p, l) ==
  /\ pc' = [pc EXCEPT ![p] = l]
  /\ site' = [site EXCEPT ![p] = "gate"]
  /\ hand' = [hand EXCEPT ![p] = Absent]
  /\ UNCHANGED <<mode, polls>>

\* The thread calls is_unlocked at s.
Ask(p, s) ==
  /\ pc' = [pc EXCEPT ![p] = "load"]
  /\ site' = [site EXCEPT ![p] = s]
  /\ hand' = [hand EXCEPT ![p] = Absent]
  /\ UNCHANGED <<mode, polls>>

\* Mutant of Admitted: touch_session saves the session that was checked
\* instead of loading it again.
Admitted_NoReload(p) ==
  \/ /\ site[p] \in {"gate", "poll", "status"}
     /\ pc' = [pc EXCEPT ![p] = "touch_trunc"]
     /\ hand' = [hand EXCEPT ![p].idle_expires_at = now + IdleLimit]
     /\ UNCHANGED <<site, mode, polls, opener>>
  \/ /\ site[p] \notin {"gate", "poll", "status"}
     /\ Return(p)

\* What the caller of is_unlocked does when the answer is true.
Admitted(p) ==
  \/ /\ site[p] \in {"gate", "poll", "status"}
     /\ Goto(p, "touch") /\ UNCHANGED opener
  \/ /\ site[p] \in {"run_unlock", "interactive", "prompt", "browser",
                     "entered", "elicited"}
     /\ Return(p)
  \/ /\ site[p] = "coord"
     /\ opener' = opener \ {p} /\ Ask(p, "entered")

\* ... and when it is false: recheck closer to the unlock, ask the human, or
\* give up.
Denied(p) ==
  \/ /\ \/ site[p] = "gate" /\ mode[p] = "mcp_closed"
        \/ site[p] = "interactive" /\ mode[p] = "closed"
        \/ site[p] = "run_unlock" /\ ~key
     /\ Return(p)
  \/ /\ UNCHANGED opener
     /\ \/ site[p] = "gate" /\ mode[p] \in {"tty", "browser", "closed"}
           /\ Ask(p, "interactive")
        \/ site[p] = "gate" /\ mode[p] = "mcp_exec" /\ Ask(p, "browser")
        \/ site[p] = "gate" /\ mode[p] = "server" /\ Goto(p, "find")
        \/ site[p] = "run_unlock" /\ key /\ Ask(p, "interactive")
        \/ site[p] = "interactive" /\ mode[p] = "tty" /\ Ask(p, "prompt")
        \/ site[p] = "interactive" /\ mode[p] = "browser" /\ Ask(p, "browser")
        \/ site[p] = "prompt" /\ Goto(p, "prompt")
        \/ site[p] = "browser" /\ Goto(p, "find")
        \/ site[p] = "coord" /\ Ask(p, "entered")
        \/ site[p] = "entered" /\ mode[p] = "server" /\ p \in opener
           /\ Goto(p, "elicit")
        \/ site[p] = "entered" /\ ~(mode[p] = "server" /\ p \in opener)
           /\ Goto(p, "poll")
        \/ site[p] = "poll" /\ Goto(p, "ask")
        \/ site[p] \in {"elicited", "status"} /\ Goto(p, "poll")

-----------------------------------------------------------------------------
(* is_unlocked: load_session, then session_valid. *)

\* A missing or unreadable file counts as locked.
Load(p) ==
  /\ pc[p] = "load"
  /\ \/ /\ file \in Session
        /\ hand' = [hand EXCEPT ![p] = file]
        /\ pc' = [pc EXCEPT ![p] = "check"]
        /\ UNCHANGED <<site, mode, polls, opener>>
     \/ file \notin Session /\ Denied(p)
  /\ UNCHANGED <<disk, linked, history>>

Expired(s) == now > s.expires_at \/ now > s.idle_expires_at

\* The clock is read now, against the session loaded a while ago.
Check(p) ==
  /\ pc[p] = "check"
  /\ \/ /\ Expired(hand[p])
        /\ pc' = [pc EXCEPT ![p] = "purge"]
        /\ UNCHANGED <<site, mode, hand, polls, opener>>
     \/ ~Expired(hand[p]) /\ Admitted(p)
  /\ UNCHANGED <<disk, linked, history>>

\* clear_session: whatever is at the path is unlinked, and so is the file of
\* every thread between its truncate and its write.
RemoveFile ==
  /\ file' = Absent
  /\ linked' = [p \in Procs |-> FALSE]

Purge(p) ==
  /\ pc[p] = "purge"
  /\ RemoveFile
  /\ Denied(p)
  /\ UNCHANGED <<now, key, history>>

-----------------------------------------------------------------------------
(* touch_session and save_session. *)

\* Mutant of TouchLoad: the renewal moves both deadlines.
TouchLoad_SlidesLifetime(p) ==
  /\ pc[p] = "touch"
  /\ file \in Session
  /\ hand' = [hand EXCEPT ![p] =
                [file EXCEPT !.idle_expires_at = now + IdleLimit,
                             !.expires_at = now + MaxLifetime]]
  /\ lastUse' = [lastUse EXCEPT ![file.uid] = now]
  /\ pc' = [pc EXCEPT ![p] = "touch_trunc"]
  /\ UNCHANGED <<site, mode, polls, opener>>
  /\ UNCHANGED <<disk, linked, issued, granted, saved, revoked, carried>>

\* The session is loaded again and its idle deadline moved; nothing rechecks
\* that it is still valid. A missing or unreadable file ends the call.
TouchLoad(p) ==
  /\ pc[p] = "touch"
  /\ \/ /\ file \in Session
        /\ hand' = [hand EXCEPT ![p] =
                      [file EXCEPT !.idle_expires_at = now + IdleLimit]]
        /\ lastUse' = [lastUse EXCEPT ![file.uid] = now]
        /\ pc' = [pc EXCEPT ![p] = "touch_trunc"]
        /\ UNCHANGED <<site, mode, polls, opener>>
     \/ /\ file \notin Session
        /\ Return(p)
        /\ UNCHANGED lastUse
  /\ UNCHANGED <<disk, linked, issued, granted, saved, revoked, carried>>

\* fs::write opens the path, creating or truncating the file ...
Truncate(p) ==
  /\ \/ /\ pc[p] = "touch_trunc"
        /\ pc' = [pc EXCEPT ![p] = "touch_write"]
     \/ /\ pc[p] = "unlock_trunc"
        /\ pc' = [pc EXCEPT ![p] = "unlock_write"]
  /\ file' = Torn
  /\ linked' = [linked EXCEPT ![p] = TRUE]
  /\ UNCHANGED <<now, key, site, mode, hand, polls, opener, history>>

\* ... and writes the JSON at offset 0 of the file it opened. Over the bytes
\* of another writer it may leave a tail of theirs: timestamps print with 0,
\* 3, 6 or 9 decimals, so two sessions need not have the same length.
Write(p) ==
  /\ pc[p] \in {"touch_write", "unlock_write"}
  /\ \/ /\ linked[p]
        /\ \/ file' = hand[p]
           \/ file # Torn /\ file' = Torn
        /\ saved' = saved \cup {hand[p].uid}
     \/ ~linked[p] /\ UNCHANGED <<file, saved>>
  /\ linked' = [linked EXCEPT ![p] = FALSE]
  /\ Return(p)
  /\ UNCHANGED <<now, key, issued, granted, lastUse, revoked, carried>>

-----------------------------------------------------------------------------
(* Unlocking. *)

\* verify_bastion_key succeeded; unlock_session reads the clock.
Grant(p) ==
  /\ issued < MaxUnlocks
  /\ issued' = issued + 1
  /\ granted' = [granted EXCEPT ![issued'] = now]
  /\ lastUse' = [lastUse EXCEPT ![issued'] = now]
  /\ hand' = [hand EXCEPT ![p] = [uid |-> issued',
                                  expires_at |-> now + MaxLifetime,
                                  idle_expires_at |-> now + IdleLimit]]
  /\ pc' = [pc EXCEPT ![p] = "unlock_trunc"]
  /\ UNCHANGED <<disk, site, mode, linked, opener, polls, saved, revoked,
                 carried>>

\* The human answers the TTY prompt, rightly or wrongly.
AnswerPrompt(p) ==
  /\ pc[p] = "prompt"
  /\ \/ Grant(p)
     \/ Return(p) /\ UNCHANGED <<disk, linked, history>>

\* A thread of the manage server serves POST /api/bastion/unlock. It does not
\* look whether a session is in force.
HandleUnlock(p) == pc[p] = "idle" /\ key /\ Grant(p)

\* A manage server is there: the one on record answered the probe, or a new one
\* was started.
ManageFound(p) ==
  /\ pc[p] = "find"
  /\ Goto(p, "acquire")
  /\ UNCHANGED <<disk, linked, opener, history>>

\* try_acquire: a non-blocking flock. The winner asks is_unlocked once more
\* and lets go of the lock if it is; everyone else goes on as a waiter.
TryAcquire(p) ==
  /\ pc[p] = "acquire"
  /\ IF opener = {} THEN opener' = {p} /\ Ask(p, "coord")
                    ELSE UNCHANGED opener /\ Ask(p, "entered")
  /\ UNCHANGED <<disk, linked, history>>

\* URL elicitation: accepted, or failed in a way that falls back to polling.
Elicited(p) ==
  /\ pc[p] = "elicit"
  /\ \/ Ask(p, "elicited") \/ Goto(p, "poll")
  /\ UNCHANGED <<disk, linked, opener, history>>

\* Mutant of PollAgain: the loop does not look at the time elapsed.
PollAgain_NoDeadline(p) ==
  /\ pc[p] = "poll"
  /\ pc' = [pc EXCEPT ![p] = "load"]
  /\ site' = [site EXCEPT ![p] = "poll"]
  /\ UNCHANGED <<disk, mode, hand, linked, opener, polls, history>>

\* One more round of the poll loop, which starts with is_unlocked.
PollAgain(p) ==
  /\ pc[p] = "poll"
  /\ polls[p] < PollLimit
  /\ polls' = [polls EXCEPT ![p] = @ + 1]
  /\ pc' = [pc EXCEPT ![p] = "load"]
  /\ site' = [site EXCEPT ![p] = "poll"]
  /\ UNCHANGED <<disk, mode, hand, linked, opener, history>>

\* The manage server takes up the request of fetch_unlocked_status and calls
\* is_unlocked for it.
StatusServed(p) ==
  /\ pc[p] = "ask"
  /\ Ask(p, "status")
  /\ UNCHANGED <<disk, linked, opener, history>>

AtStatus(p) == pc[p] = "ask" \/ (pc[p] = "load" /\ site[p] = "status")

\* The manage server asked is gone; another one is found and the loop goes on.
RefreshManage(p) ==
  /\ AtStatus(p)
  /\ Goto(p, "poll")
  /\ UNCHANGED <<disk, linked, opener, history>>

\* No manage server can be found or started, or its answer is no status.
NoManage(p) ==
  /\ pc[p] = "find" \/ AtStatus(p)
  /\ Return(p)
  /\ UNCHANGED <<disk, linked, history>>

\* The call ends without an unlock: the lock file cannot be opened, the
\* elicitation is declined or cancelled, or the poll has timed out.
GiveUp(p) ==
  /\ pc[p] \in {"acquire", "elicit", "poll"}
  /\ Return(p)
  /\ UNCHANGED <<disk, linked, history>>

-----------------------------------------------------------------------------
(* Calls, other commands, time. *)

\* ensure_outbound_unlocked, ensure_bastion_unlocked. Without a key the gate
\* is off and the call touches nothing.
StartGate(p) ==
  /\ pc[p] = "idle" /\ key
  /\ \E m \in Modes : mode' = [mode EXCEPT ![p] = m]
  /\ pc' = [pc EXCEPT ![p] = "load"]
  /\ UNCHANGED <<disk, site, hand, linked, opener, polls, history>>

\* `brokre bastion unlock`.
StartUnlock(p) ==
  /\ pc[p] = "idle"
  /\ \E m \in Modes \cap {"tty", "browser", "closed"} :
       mode' = [mode EXCEPT ![p] = m]
  /\ pc' = [pc EXCEPT ![p] = "load"]
  /\ site' = [site EXCEPT ![p] = "run_unlock"]
  /\ UNCHANGED <<disk, hand, linked, opener, polls, history>>

\* What a removal of the session file by a command means for the history.
Revoke ==
  /\ RemoveFile
  /\ revoked' = revoked \cup saved
  /\ carried' = carried \cup
                  {hand[p].uid : p \in {q \in Procs : pc[q] = "touch_trunc"}}

\* `brokre bastion lock` and POST /api/bastion/lock.
Lock ==
  /\ Revoke
  /\ UNCHANGED <<now, key, pc, site, mode, hand, opener, polls, issued,
                 granted, lastUse, saved>>

\* POST /api/bastion/set-key: the new key, then clear_session.
HandleSetKey ==
  /\ key' = TRUE
  /\ Revoke
  /\ UNCHANGED <<now, pc, site, mode, hand, opener, polls, issued, granted,
                 lastUse, saved>>

\* `brokre bastion set-key` leaves the session alone.
RunSetKey ==
  /\ ~key
  /\ key' = TRUE
  /\ UNCHANGED <<now, file, threads, history>>

\* The process is killed, or its caller cancels it.
Crash(p) ==
  /\ pc[p] # "idle"
  /\ Return(p)
  /\ linked' = [linked EXCEPT ![p] = FALSE]
  /\ UNCHANGED <<disk, history>>

Tick ==
  /\ now < MaxTime
  /\ now' = now + 1
  /\ UNCHANGED <<key, file, threads, history>>

\* A step the code takes by itself once it is in a call.
Step(p) ==
  \/ Load(p) \/ Check(p) \/ Purge(p)
  \/ TouchLoad(p) \/ Truncate(p) \/ Write(p)
  \/ TryAcquire(p) \/ PollAgain(p)

\* A step that waits for a manage server.
Served(p) ==
  ManageFound(p) \/ StatusServed(p) \/ RefreshManage(p) \/ NoManage(p)

\* A step that waits for a human, a timeout or the end of the process.
Outcome(p) == AnswerPrompt(p) \/ Elicited(p) \/ GiveUp(p) \/ Crash(p)

Start(p) == StartGate(p) \/ StartUnlock(p) \/ HandleUnlock(p)

Next ==
  \/ \E p \in Procs : Step(p) \/ Served(p) \/ Outcome(p) \/ Start(p)
  \/ Lock \/ HandleSetKey \/ RunSetKey \/ Tick

Spec == Init /\ [][Next]_vars

\* Threads that can run do, and the timeouts of the elicitation and of the
\* poll loop expire. Nobody has to answer a prompt, lock, or start a call, and
\* no manage server has to answer one of its clients.
FairSpec ==
  Spec /\ \A p \in Procs : WF_vars(Step(p)) /\ WF_vars(GiveUp(p))

-----------------------------------------------------------------------------
(* Properties. *)

\* However the renewals, unlocks and locks of several processes interleave,
\* session_valid accepts a session only within the maximum lifetime of the
\* unlock it came from and within the idle limit of its latest renewal.
AdmissionBounded ==
  \A p \in Procs :
    pc[p] = "check" /\ ~Expired(hand[p]) =>
      /\ now <= granted[hand[p].uid] + MaxLifetime
      /\ now <= lastUse[hand[p].uid] + IdleLimit

\* A lock (or a manage set-key) is final for every session that no
\* touch_session had loaded for renewal at that moment: the session file never
\* shows it again, and nobody is about to write it there.
RevokedStaysDead ==
  \A u \in revoked \ carried :
    /\ file \in Session => file.uid # u
    /\ \A p \in Procs :
         \/ pc[p] = "touch_trunc"
         \/ pc[p] = "touch_write" /\ linked[p]
         => hand[p].uid # u

\* A gated call or an unlock command ends, admitted or refused, or waits at
\* the TTY prompt for its human, unless it waits for ever for one answer of a
\* manage server: neither find_running_instance nor fetch_unlocked_status puts
\* a timeout on its read, and the poll's deadline is looked at between rounds
\* only. Short of such a server, no interleaving with other callers, with the
\* opener of the auth page, with crashes or with the loss of the manage server
\* keeps the poll loop going.
CallReturns ==
  \A p \in Procs :
    \/ []<>(pc[p] \in {"idle", "prompt"})
    \/ <>[](pc[p] \in ManageWaits)

=============================================================================
