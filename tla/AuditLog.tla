------------------------------ MODULE AuditLog ------------------------------
(***************************************************************************)
(* The audit log: one JSON event per line, each with the HMAC of the event *)
(* before it. Every brokre process appends under an exclusive lock of the  *)
(* log itself; verify and list read without it. An append is a write of    *)
(* the event and a write of the newline, and may end at any point. An      *)
(* event's HMAC does not depend on its predecessor, so it is the event's   *)
(* number here.                                                            *)
(***************************************************************************)
EXTENDS Naturals, Sequences, SequencesExt, FiniteSetsExt

CONSTANTS
  Appenders,   \* processes that append
  MaxEvents,   \* bound of the model: events ever appended
  MaxTears     \* bound of the model: events cut short

VARIABLES
  log,       \* the lines
  ended,     \* whether the last line ends with a newline
  locked,    \* the holder of the lock, as a set
  stage,     \* where each append is
  prev,      \* the HMAC it found
  events,    \* how many events were made
  tears,     \* how many were cut short
  appended   \* history: the events whose append succeeded

logVars == <<log, ended, locked, stage, prev, events, tears, appended>>

Event == [hmac : 1..MaxEvents, prev_hmac : 0..MaxEvents]
Cut == [hmac |-> 0, prev_hmac |-> 0]   \* a part of an event
NoHmac == 0

ASSUME LogAssumption == MaxEvents \in Nat /\ MaxTears \in Nat

LogTypeOK ==
  /\ log \in Seq(Seq(Event \cup {Cut}))
  /\ ended \in BOOLEAN
  /\ locked \subseteq Appenders
  /\ stage \in [Appenders -> {"idle", "lock", "read", "write", "half", "newline", "sync"}]
  /\ prev \in [Appenders -> 0..MaxEvents]
  /\ events \in 0..MaxEvents
  /\ tears \in 0..MaxTears
  /\ appended \subseteq 1..MaxEvents

LogInit ==
  /\ log = <<>>
  /\ ended = TRUE
  /\ locked = {}
  /\ stage = [p \in Appenders |-> "idle"]
  /\ prev = [p \in Appenders |-> NoHmac]
  /\ events = 0
  /\ tears = 0
  /\ appended = {}

-----------------------------------------------------------------------------
\* events_from_line: the events up to the first that does not parse.
EventsFromLine(line) ==
  LET good == {n \in 0..Len(line) : Cut \notin ToSet(SubSeq(line, 1, n))}
  IN  SubSeq(line, 1, Max(good))

\* Mutant of LastHmac: the first event of the last line.
LastHmac_First ==
  LET found == IF log = <<>> THEN <<>> ELSE EventsFromLine(Last(log))
  IN  IF found = <<>> THEN NoHmac ELSE Head(found).hmac

\* The HMAC of the last event of the last line.
LastHmac ==
  LET found == IF log = <<>> THEN <<>> ELSE EventsFromLine(Last(log))
  IN  IF found = <<>> THEN NoHmac ELSE Last(found).hmac

\* A write at the end of the file.
Written(e) ==
  IF ended THEN Append(log, <<e>>)
  ELSE Front(log) \o <<Append(Last(log), e)>>

\* What is seen of p's event becomes all of it.
Completed(e) == Front(log) \o <<Append(Front(Last(log)), e)>>

Goto(p, step) == stage' = [stage EXCEPT ![p] = step]

\* The lock goes with the file handle: after the last step, with an error, or
\* when the process dies.
Close(p) ==
  /\ locked' = locked \ {p}
  /\ prev' = [prev EXCEPT ![p] = NoHmac]
  /\ Goto(p, "idle")

Open(p) ==
  /\ stage[p] = "idle"
  /\ Goto(p, "lock")
  /\ UNCHANGED <<log, ended, locked, prev, events, tears, appended>>

\* Mutant of Lock: a shared lock.
Lock_Shared(p) ==
  /\ stage[p] = "lock"
  /\ locked' = locked \cup {p}
  /\ Goto(p, "read")
  /\ UNCHANGED <<log, ended, prev, events, tears, appended>>

Lock(p) ==
  /\ stage[p] = "lock"
  /\ locked = {}
  /\ locked' = {p}
  /\ Goto(p, "read")
  /\ UNCHANGED <<log, ended, prev, events, tears, appended>>

ReadLast(p) ==
  /\ stage[p] = "read"
  /\ prev' = [prev EXCEPT ![p] = LastHmac]
  /\ Goto(p, "write")
  /\ UNCHANGED <<log, ended, locked, events, tears, appended>>

\* The event is written, in one piece or a part of it first.
WriteEvent(p) ==
  /\ stage[p] = "write"
  /\ events < MaxEvents
  /\ \/ /\ log' = Written([hmac |-> events + 1, prev_hmac |-> prev[p]])
        /\ events' = events + 1
        /\ Goto(p, "newline")
        /\ UNCHANGED tears
     \/ /\ tears < MaxTears
        /\ tears' = tears + 1
        /\ log' = Written(Cut)
        /\ Goto(p, "half")
        /\ UNCHANGED events
  /\ ended' = FALSE
  /\ UNCHANGED <<locked, prev, appended>>

WriteRest(p) ==
  /\ stage[p] = "half"
  /\ events < MaxEvents
  /\ events' = events + 1
  /\ log' = Completed([hmac |-> events + 1, prev_hmac |-> prev[p]])
  /\ Goto(p, "newline")
  /\ UNCHANGED <<ended, locked, prev, tears, appended>>

\* Mutant of WriteNewline: the file is opened for writing and not for
\* appending.
WriteNewline_Truncates(p) ==
  /\ stage[p] = "newline"
  /\ log' = <<Last(log)>>
  /\ ended' = TRUE
  /\ Goto(p, "sync")
  /\ UNCHANGED <<locked, prev, events, tears, appended>>

WriteNewline(p) ==
  /\ stage[p] = "newline"
  /\ ended' = TRUE
  /\ Goto(p, "sync")
  /\ UNCHANGED <<log, locked, prev, events, tears, appended>>

\* The append succeeds. Its event is the last one of the log.
SyncAndUnlock(p) ==
  /\ stage[p] = "sync"
  /\ appended' = appended \cup {Last(Last(log)).hmac}
  /\ Close(p)
  /\ UNCHANGED <<log, ended, events, tears>>

\* An I/O error, a full disk, or the process dies.
Fail(p) ==
  /\ stage[p] # "idle"
  /\ Close(p)
  /\ UNCHANGED <<log, ended, events, tears, appended>>

LogNext == \E p \in Appenders :
  \/ Open(p) \/ Lock(p) \/ ReadLast(p) \/ WriteEvent(p) \/ WriteRest(p)
  \/ WriteNewline(p) \/ SyncAndUnlock(p) \/ Fail(p)

LogSpec == LogInit /\ [][LogNext]_logVars

-----------------------------------------------------------------------------
(* Properties. verify and list read the log at any state, also between the *)
(* two writes of an append.                                                *)

\* Every line has an event: verify_chain and read_all_events fail at one that
\* has none.
Readable(lines) == \A i \in DOMAIN lines : EventsFromLine(lines[i]) # <<>>

\* verify_chain goes through the lines with the HMAC of the event before: the
\* one that it compares with the j-th event of line i.
HmacBefore(lines, i, j) ==
  CASE j > 1           -> EventsFromLine(lines[i])[j - 1].hmac
    [] j = 1 /\ i > 1  -> Last(EventsFromLine(lines[i - 1])).hmac
    [] OTHER           -> NoHmac

VerifyChain(lines) ==
  /\ Readable(lines)
  /\ \A i \in DOMAIN lines : \A j \in DOMAIN EventsFromLine(lines[i]) :
       EventsFromLine(lines[i])[j].prev_hmac = HmacBefore(lines, i, j)

\* What list returns.
EventsOf(lines) == UNION {ToSet(EventsFromLine(lines[i])) : i \in DOMAIN lines}
Listed(lines) == IF Readable(lines) THEN {e.hmac : e \in EventsOf(lines)} ELSE {}

IsCut(line) == Cut \in ToSet(line)
Intact(n) == \A i \in 1..n : ~IsCut(log[i])

\* verify accepts the log up to the first event that was cut short, whatever
\* interleaves, though an append that dies before its newline leaves its line
\* to the next one.
ChainVerifies ==
  \A n \in 0..Len(log) :
    Intact(n) => VerifyChain(SubSeq(log, 1, n))

\* While no event has been cut short, list returns every event whose append
\* succeeded.
Recorded == Intact(Len(log)) => appended \subseteq Listed(log)

=============================================================================
