----------------------------- MODULE PtyInject -----------------------------
(***************************************************************************)
(* One run of a program on a pseudo-terminal (src/runtime/pty.rs run): the *)
(* scanner thread reads what the program prints and recognises prompts,    *)
(* the injector thread has a child type the secret of the record, the main *)
(* loop forwards the user's input and sees the end of the program.  They   *)
(* share flags and nothing orders them but the sleeps in their loops.      *)
(*                                                                         *)
(* The program, external: ssh with what is behind it asks for the secrets  *)
(* of run.asks one after the other and then gives a shell.  What it       *)
(* prints is a sequence of tokens, one for each text the scanner           *)
(* recognises.  Leaving out: what is shown and what is suppressed, raw     *)
(* mode on Windows, the in-process secret of other builds.                 *)
(***************************************************************************)
EXTENDS Naturals, Sequences, SequencesExt

CONSTANTS
  Runs,      \* the runs: what was started, with which options, what it asks
  MaxTries,  \* how often the program asks again for one secret
  Nil        \* no field, no record, nothing captured

FieldNames == {"password", "key_passphrase"}

ASSUME PtyAssumption == /\ MaxTries \in Nat \ {0}
                        /\ Nil \notin FieldNames \cup {"outer", "inner"}

VARIABLES
  run,       \* the run: options of PtyRunOptions and the program's prompts
  peer,      \* the program: [st, at, tries, line]
  out,       \* printed and not yet read from the master
  scan,      \* the scanner: "poll", "read", "arm", "done"
  window,    \* what it has read since it last armed
  shown,     \* the last thing printed on the user's terminal
  pend,      \* [inj, field, rid, elev]: what the scanner asks the injector for
  recorded,  \* [fields, elev, login, inner]: what the injector has recorded
  inj,       \* the injector: [pc, field, rid, elev, ok]
  nonblock,  \* the master is non-blocking, for every thread that reads it
  rescan,    \* rescan_after_inject
  gate,      \* stdin_forward_enabled
  postAuth,  \* the text of a login that succeeded was seen
  closed,    \* ssh_connection_closed (shared_connection_closed)
  done,      \* set by the scanner at its end and by the teardown
  capture,   \* [on, text]: pending_capture, captured
  main,      \* the main loop and its teardown
  exit,      \* the exit code: the program's, or 0 for one that was not reaped
  stdin,     \* typed or piped and not yet taken from the channel
  sigint,    \* SIGINT came
  waited,    \* the gate's delay since the start has passed: 2 s, or 1 s
  keys,      \* how much the user has typed
  typed,     \* the secret being typed: [rid, field, ask]
  byHand,    \* stdin, or ^C, was written at a prompt for a secret
  clean,     \* no injection was unrecorded when the scanner armed
  fed,       \* stdin reached the program before any secret did
  served,    \* the prompts at which a secret was typed; "failed" for a child that failed
  saved,     \* the password exec_fresh puts into the vault
  accepted,  \* the line the program took as the login's password
  lost       \* a read that poll had promised was drained by the injector

peerVars == <<peer, out, accepted>>
scanVars == <<scan, window, shown, postAuth, closed>>
injVars  == <<pend, recorded, inj, nonblock, rescan>>
mainVars == <<gate, main, exit, stdin, sigint, waited, keys>>
histVars == <<typed, byHand, clean, fed, served, lost>>
ptyVars  == <<run, peerVars, scanVars, injVars, done, capture, mainVars, histVars, saved>>

-----------------------------------------------------------------------------
\* Tokens of the program's output

Logins  == {"login", "inner"}           \* user@host's password:
Sus     == {"sudo", "su"}               \* [sudo] password for user: / Password:
Secrets == {"key"} \cup Logins \cup Sus
Prompts == {"yesno"} \cup Secrets
Tokens  == Prompts \cup {"banner", "closed", "sorry", "denied"}

Has(w, S) == \E i \in DOMAIN w : w[i] \in S

\* The prompt patterns match at the end of what was read only.
PromptAtEnd(w) == w # <<>> /\ Last(w) \in Prompts

\* Options (PtyRunOptions, PtyCredential)
Preset  == run.kind # "fresh"               \* a vault record
Outer   == run.kind \in {"outer", "dual"}   \* first hop of a route
Dual    == run.kind = "dual"                \* with the inner host's record
Passive == run.kind = "passive"             \* brokre on the bastion
Defer   == run.kind = "defer"               \* sudo -i
Scans   == Preset \/ run.tty

FieldsOf(rid) == IF rid = "inner" THEN <<"password">> ELSE run.fields
HasField(rid, f) == Contains(FieldsOf(rid), f)

\* What a prompt asks for, and of which host's record: sudo is the last host's.
Wanted(p) == CASE p = "yesno" -> "nothing"
               [] p = "key"   -> "key_passphrase"
               [] OTHER       -> "password"
Owner(p) == IF p = "inner" \/ (p \in Sus /\ Outer) THEN "inner" ELSE "outer"

-----------------------------------------------------------------------------
\* Types

RunType == [kind : {"saved", "fresh", "outer", "dual", "passive", "defer"}, asks : Seq(Prompts),
            fields : Seq(FieldNames), keys : Nat, ssh : BOOLEAN, tty : BOOLEAN, hint : BOOLEAN,
            preBanner : BOOLEAN, banner : BOOLEAN, su : BOOLEAN, good : BOOLEAN,
            ascii : BOOLEAN, held : BOOLEAN]

ASSUME RunAssumption == Runs \subseteq RunType

\* The runs in which the prompts come in an order that the scanner's rules were
\* made for: a host-key question that one secret could answer is left alone, and
\* on a route each hop is asked about in its turn.
InOrder(r) ==
  LET Earlier(i, S) == \E j \in 1..(i - 1) : r.asks[j] \in S
  IN /\ Contains(r.asks, "yesno") => r.kind = "fresh" \/ r.keys = 0 \/ Len(r.fields) # 1
     /\ r.kind \notin {"outer", "dual"} => ~Contains(r.asks, "inner")
     /\ r.kind = "outer" => \A i \in 1..Len(r.asks) :
          r.asks[i] \in {"inner"} \cup Sus => Earlier(i, {"login"})
     /\ r.kind = "dual" => \A i \in 1..Len(r.asks) :
          /\ r.asks[i] = "login" => ~Earlier(i, Logins \cup Sus)
          /\ r.asks[i] \in Sus => Earlier(i, {"inner"}) \/ Contains(r.fields, "password")

\* The runs without a record that ask for a login's password once: before it for
\* no other host's, and after it only for what the session itself asks.
LoginLast(r) ==
  r.kind = "fresh" => \A i \in 1..Len(r.asks) : r.asks[i] = "login" =>
    /\ \A j \in 1..(i - 1) : r.asks[j] \notin Sus
    /\ \A j \in (i + 1)..Len(r.asks) : r.asks[j] \in Sus

\* The runs that ask for each secret once, in this order; of a route's session for
\* one after both logins, and what is not ssh asks for one password.  A key that
\* is locked has its passphrase in the record, or nothing else is alone in it.
Place(p) == CASE p = "yesno" -> 1
              [] p = "key"   -> 2
              [] p = "login" -> 3
              [] p = "inner" -> 4
              [] OTHER       -> 5

OneEach(r) ==
  /\ \A i, j \in 1..Len(r.asks) : i < j => Place(r.asks[i]) < Place(r.asks[j])
  /\ Contains(r.asks, "key") => Len(r.fields) # 1 \/ Contains(r.fields, "key_passphrase")
  /\ ~r.ssh => \A i, j \in 1..Len(r.asks) :
                 r.asks[i] \in Logins \cup Sus /\ r.asks[j] \in Logins \cup Sus => i = j
  /\ r.kind = "dual" /\ Contains(r.asks, "login") /\ (\E p \in Sus : Contains(r.asks, p))
       => Contains(r.asks, "inner")

Press == [n : Nat, part : {"first", "enter", "int", "eof"}, enc : {"utf8", "latin1"}]

Peers == [st : {"busy", "asking", "shell", "gone"}, at : 1..Len(run.asks) + 1,
          tries : 0..MaxTries - 1, line : Seq(Press)]

Pending == [inj : BOOLEAN, field : FieldNames \cup {Nil}, rid : {"inner", Nil}, elev : BOOLEAN]

Records == [fields : SUBSET FieldNames, elev : Nat, login : BOOLEAN, inner : BOOLEAN]

InjectorStates == [pc : {"idle", "settle", "child", "typed", "drain", "record", "open", "ended"},
                   field : FieldNames \cup {Nil}, rid : {"outer", "inner", Nil},
                   elev : BOOLEAN, ok : BOOLEAN]

PeerTypeOK ==
  /\ run \in Runs
  /\ peer \in Peers
  /\ peer.st = "asking" => peer.at <= Len(run.asks)
  /\ out \in Seq(Tokens) /\ accepted \in Seq(Press) \cup {Nil}

ScanTypeOK ==
  /\ scan \in {"poll", "read", "arm", "done"} /\ window \in Seq(Tokens)
  /\ scan = "arm" => window # <<>>
  /\ shown \in Tokens \cup {"nothing", "typed"}
  /\ {postAuth, closed, done, clean} \subseteq BOOLEAN

InjTypeOK ==
  /\ pend \in Pending
  /\ inj \in InjectorStates
  /\ inj.pc \notin {"idle", "settle", "ended"} => inj.field # Nil /\ inj.rid # Nil
  /\ recorded \in Records
  /\ typed \in [rid : {"outer", "inner"}, field : FieldNames, ask : Prompts \cup {"none"}]
             \cup {Nil}
  /\ served \subseteq Prompts \cup {"none", "failed"}
  /\ {nonblock, rescan, lost} \subseteq BOOLEAN

MainTypeOK ==
  /\ main \in {"loop", "grace", "down", "kill", "join", "returned", "exited"}
  /\ exit \in {"none", "its", "zero"}
  /\ stdin \in Seq(Press) /\ keys \in Nat
  /\ capture \in [on : BOOLEAN, text : Seq(Press) \cup {Nil}]
  /\ capture.on => capture.text \in Seq(Press)
  /\ saved \in Seq(Press) \cup {Nil}
  /\ {gate, sigint, waited, byHand, fed} \subseteq BOOLEAN

PtyTypeOK == PeerTypeOK /\ ScanTypeOK /\ InjTypeOK /\ MainTypeOK

-----------------------------------------------------------------------------
\* The program (external).  A line that comes while it does not ask is flushed
\* by the next prompt; a wrong one is asked for again.

Ask == run.asks[peer.at]
LastLogin == /\ Ask \notin Sus
             /\ \A j \in (peer.at + 1)..Len(run.asks) : run.asks[j] \in Sus

\* The banner, or the prompt of the shell, that the last login ends with.
Greeting == IF LastLogin /\ run.banner THEN <<"banner">> ELSE <<>>

NextAsk == [st |-> "busy", at |-> peer.at + 1, tries |-> 0, line |-> <<>>]

Right(line) == /\ peer' = NextAsk
               /\ out' = out \o Greeting
               /\ accepted' = IF Ask = "login" THEN line ELSE accepted

Again == CASE Ask \in Sus    -> <<"sorry", Ask>>
           [] Ask \in Logins -> <<"denied", Ask>>
           [] Ask = "key"    -> <<"key">>
           [] OTHER          -> <<>>

Wrong == /\ UNCHANGED accepted
         /\ IF peer.tries + 1 < MaxTries
            THEN /\ peer' = [peer EXCEPT !.tries = @ + 1, !.line = <<>>]
                 /\ out' = out \o Again
            ELSE /\ UNCHANGED out
                 /\ peer' = IF Ask \in Sus THEN NextAsk
                            ELSE [peer EXCEPT !.st = "gone", !.line = <<>>]

\* A line reaches the program: ok says whether it is the right one.
Answer(line, ok) == IF peer.st # "asking" THEN UNCHANGED peerVars
                    ELSE IF ok THEN Right(line) ELSE Wrong

InterruptPeer ==
  /\ UNCHANGED <<out, accepted>>
  /\ peer' = IF peer.st = "asking" /\ Ask \in Sus THEN NextAsk
             ELSE IF peer.st \in {"busy", "asking"} THEN [peer EXCEPT !.st = "gone", !.line = <<>>]
             ELSE peer

PeerAsks ==
  /\ peer.st = "busy"
  /\ IF peer.at <= Len(run.asks)
     THEN peer' = [peer EXCEPT !.st = "asking"] /\ out' = Append(out, Ask)
     ELSE peer' = [peer EXCEPT !.st = "shell"] /\ UNCHANGED out
  /\ UNCHANGED <<saved, run, scanVars, injVars, done, capture, mainVars, histVars, accepted>>

\* ssh ends: after a session on a terminal it says that the connection closed.
PeerExits ==
  /\ peer.st # "gone"
  /\ peer' = [peer EXCEPT !.st = "gone", !.line = <<>>]
  /\ out' = IF peer.st = "shell" THEN Append(out, "closed") ELSE out
  /\ UNCHANGED <<saved, run, scanVars, injVars, done, capture, mainVars, histVars, accepted>>

-----------------------------------------------------------------------------
\* The scanner: which prompt is answered, and with what

FieldForPrompt(w) ==
  IF Has(w, {"key"}) /\ HasField("outer", "key_passphrase") THEN "key_passphrase"
  ELSE IF Has(w, Logins \cup Sus) /\ HasField("outer", "password") THEN "password"
  ELSE IF Len(run.fields) = 1 THEN run.fields[1]
  ELSE Nil

IsElevation(w) == run.ssh /\ (Last(w) = "sudo" \/ (Last(w) = "su" /\ run.su))
IsSshLogin(w)  == Last(w) \notin Sus /\ Has(w, Logins)
IsInnerHop(w)  == IsSshLogin(w) /\ Dual /\ run.hint /\ Has(w, {"inner"})
AuthFailed(w)  == Has(w, {"sorry"})

\* Two attempts at an elevation: the second one only after a visible refusal.
ElevationDue(w) == \/ recorded.elev = 0
                   \/ AuthFailed(w) /\ recorded.elev = 1

\* Records of the injector, as the scanner reads them for a field.
Already(f)       == f \in recorded.fields
LoginDone(f)     == recorded.login \/ Already(f)
SecondHop(w, f)  == IsSshLogin(w) /\ LoginDone(f) /\ ~recorded.inner

\* should_arm_vault_inject, for the password: on the outer hop of a route, and
\* on the host itself.
ArmsOuter(w, f) ==
  IF IsSshLogin(w)
  THEN IF Dual /\ (IsInnerHop(w) \/ SecondHop(w, f)) THEN ~recorded.inner ELSE ~LoginDone(f)
  ELSE Dual /\ IsElevation(w) /\ recorded.inner /\ ElevationDue(w)

ArmsHere(w, f) ==
  CASE IsElevation(w) -> ElevationDue(w)
    [] IsSshLogin(w)  -> ~LoginDone(f)
    [] OTHER          -> TRUE     \* the prompt of any other program

ShouldArm(w, f) ==
  \/ f = "key_passphrase"
  \/ f = "password" /\ (IF Outer THEN ArmsOuter(w, f) ELSE ArmsHere(w, f))

\* A field is typed once, but for elevations and the second hop of a route.
MayRepeat(w, f) == /\ f = "password"
                   /\ IsElevation(w) \/ (Dual /\ SecondHop(w, f))

\* The inner host's record (mutant: not by the host's name in the prompt).
UsesInner_Counts(w, f) == Dual /\ (SecondHop(w, f) \/ (IsElevation(w) /\ recorded.inner))
UsesInner(w, f) == Dual /\ (IsInnerHop(w) \/ SecondHop(w, f) \/ (IsElevation(w) /\ recorded.inner))

ArmsInjection(w) ==
  LET f == FieldForPrompt(w)
  IN f # Nil /\ ShouldArm(w, f) /\ (~Already(f) \/ MayRepeat(w, f))

\* After the login nothing is captured any more (mutant: still is).
AfterLogin_Never == FALSE
AfterLogin == ~Preset /\ run.ssh /\ postAuth

\* arm_prompt_if_needed on window w.
Arm(w) ==
  LET arms == PromptAtEnd(w) /\ ~capture.on /\ ~pend.inj
      late == AfterLogin
      bare == Preset /\ run.fields = <<>> /\ Last(w) # "yesno"
      full == Preset /\ run.fields # <<>> /\ ArmsInjection(w)
      fresh == ~Preset /\ ~late
  IN /\ window' = IF arms /\ (late \/ bare \/ full \/ fresh) THEN <<>> ELSE w
     /\ capture' = IF arms /\ fresh THEN [on |-> TRUE, text |-> <<>>] ELSE capture
     /\ pend' = CASE arms /\ bare -> [pend EXCEPT !.inj = TRUE]
                  [] arms /\ full -> [inj   |-> TRUE,
                                      field |-> FieldForPrompt(w),
                                      rid   |-> IF UsesInner(w, FieldForPrompt(w))
                                                THEN "inner" ELSE Nil,
                                      elev  |-> IsElevation(w)]
                  [] OTHER -> pend
     /\ clean' = IF arms /\ (bare \/ full)
                 THEN inj.pc = "idle" ELSE clean

ScanRescan ==
  /\ scan = "poll" /\ rescan
  /\ rescan' = FALSE
  /\ Arm(window)
  /\ UNCHANGED <<saved, run, peerVars, scan, shown, postAuth, closed, recorded, inj, nonblock,
                 done, mainVars, typed, byHand, fed, served, lost>>

\* The end of the terminal: every holder of the other side is gone.
HungUp == peer.st = "gone" /\ ~run.held

\* Mutant: the scanner reads without asking poll.
ScanReady_NoPoll ==
  /\ scan = "poll"
  /\ scan' = "read"
  /\ UNCHANGED <<saved, run, peerVars, window, shown, postAuth, closed, injVars, done, capture,
                 mainVars, histVars>>

ScanReady ==
  /\ scan = "poll"
  /\ out # <<>> \/ HungUp
  /\ scan' = "read"
  /\ UNCHANGED <<saved, run, peerVars, window, shown, postAuth, closed, injVars, done, capture,
                 mainVars, histVars>>

\* The chunk ends anywhere: with a prompt or in the middle of what was printed.
ScanRead ==
  /\ scan = "read" /\ out # <<>>
  /\ \E n \in {1, Len(out)} :
       LET w == window \o SubSeq(out, 1, n)
           auth == Scans /\ run.ssh /\ ~postAuth /\ Has(w, {"banner"})
       IN /\ out' = SubSeq(out, n + 1, Len(out))
          /\ window' = w
          /\ shown' = IF Scans THEN shown ELSE out[n]
          /\ closed' = (closed \/ Has(w, {"closed"}))
          /\ postAuth' = (postAuth \/ auth)
          /\ recorded' = IF auth /\ Outer THEN [recorded EXCEPT !.login = TRUE] ELSE recorded
          /\ gate' = (gate \/ (auth /\ ~Defer))
          /\ scan' = IF Scans THEN "arm" ELSE "poll"
  /\ UNCHANGED <<saved, run, peer, accepted, pend, inj, nonblock, rescan, done, capture, main,
                 exit, stdin, sigint, waited, keys, histVars>>

\* The chunk is shown after the prompt in it has been dealt with.
ScanArm ==
  /\ scan = "arm"
  /\ scan' = "poll"
  /\ shown' = Last(window)
  /\ Arm(window)
  /\ UNCHANGED <<saved, run, peerVars, postAuth, closed, recorded, inj, nonblock, rescan, done,
                 mainVars, typed, byHand, fed, served, lost>>

\* End of file, or an error: the master may be non-blocking and empty by now.
ScanEnds ==
  /\ scan = "read" /\ out = <<>>
  /\ HungUp \/ nonblock
  /\ scan' = "done" /\ done' = TRUE
  /\ UNCHANGED <<saved, run, peerVars, window, shown, postAuth, closed, injVars, capture,
                 mainVars, histVars>>

-----------------------------------------------------------------------------
\* The injector thread and its child

InjStart ==
  /\ inj.pc = "idle" /\ ~done /\ pend.inj
  /\ pend' = [pend EXCEPT !.inj = FALSE]
  /\ inj' = [inj EXCEPT !.pc = "settle", !.elev = pend.elev]
  /\ UNCHANGED <<saved, run, peerVars, scanVars, recorded, nonblock, rescan, done, capture,
                 mainVars, histVars>>

InjSpawn ==
  /\ inj.pc = "settle"
  /\ inj' = [inj EXCEPT !.pc = "child",
                        !.field = IF pend.field = Nil THEN "password" ELSE pend.field,
                        !.rid   = IF pend.rid = Nil THEN "outer" ELSE pend.rid]
  /\ pend' = [pend EXCEPT !.field = Nil, !.rid = Nil]
  /\ UNCHANGED <<saved, run, peerVars, scanVars, recorded, nonblock, rescan, done, capture,
                 mainVars, histVars>>

InjType ==
  /\ inj.pc = "child" /\ peer.st # "gone"
  /\ HasField(inj.rid, inj.field)
  /\ LET ask == IF peer.st = "asking" THEN Ask ELSE "none"
     IN /\ typed' = [rid |-> inj.rid, field |-> inj.field, ask |-> ask]
        /\ served' = served \cup {ask}
        /\ Answer(<<>>, run.good /\ inj.field = Wanted(ask) /\ inj.rid = Owner(ask))
  /\ inj' = [inj EXCEPT !.pc = "typed", !.ok = TRUE]
  /\ UNCHANGED <<saved, run, scanVars, pend, recorded, nonblock, rescan, done, capture, mainVars,
                 byHand, clean, fed, lost>>

\* Mutant: the injector tries again until the child succeeds.
InjFail_Retries ==
  /\ inj.pc = "child"
  /\ inj' = [inj EXCEPT !.ok = ~@]
  /\ served' = served \cup {"failed"}
  /\ UNCHANGED <<saved, run, peerVars, scanVars, pend, recorded, nonblock, rescan, done, capture,
                 mainVars, typed, byHand, clean, fed, lost>>

\* No such record or field, no key, no terminal: the child exits with 1.
InjFail ==
  /\ inj.pc = "child"
  /\ inj' = [inj EXCEPT !.pc = "typed", !.ok = FALSE]
  /\ served' = served \cup {"failed"}
  /\ UNCHANGED <<saved, run, peerVars, scanVars, pend, recorded, nonblock, rescan, done, capture,
                 mainVars, typed, byHand, clean, fed, lost>>

\* drain_pty_master, beside the scanner.
InjNonblock ==
  /\ inj.pc = "typed"
  /\ inj' = [inj EXCEPT !.pc = "drain"]
  /\ nonblock' = TRUE
  /\ UNCHANGED <<saved, run, peerVars, scanVars, pend, recorded, rescan, done, capture, mainVars,
                 histVars>>

InjDrain ==
  /\ inj.pc = "drain" /\ out # <<>>
  /\ out' = <<>>
  /\ lost' = (lost \/ scan = "read")
  /\ UNCHANGED <<saved, run, peer, accepted, scanVars, injVars, done, capture, mainVars, typed,
                 byHand, clean, fed, served>>

InjBlocking ==
  /\ inj.pc = "drain" /\ out = <<>>
  /\ nonblock' = FALSE
  /\ inj' = [inj EXCEPT !.pc = IF inj.ok THEN "record" ELSE "idle"]
  /\ typed' = Nil
  /\ UNCHANGED <<saved, run, peerVars, scanVars, pend, recorded, rescan, done, capture, mainVars,
                 byHand, clean, fed, served, lost>>

InjRecord ==
  /\ inj.pc = "record"
  /\ recorded' = [fields |-> recorded.fields \cup {inj.field},
               elev   |-> recorded.elev + (IF inj.elev THEN 1 ELSE 0),
               login  |-> recorded.login \/ (~inj.elev /\ inj.field # "key_passphrase"),
               inner  |-> recorded.inner \/ (/\ ~inj.elev /\ inj.field # "key_passphrase"
                                          /\ recorded.login)]
  /\ inj' = [inj EXCEPT !.pc = "open"]
  /\ UNCHANGED <<saved, run, peerVars, scanVars, pend, nonblock, rescan, done, capture, mainVars,
                 histVars>>

\* Mutant: what the scanner refused meanwhile is not looked at again.
InjOpen_NoRescan ==
  /\ inj.pc = "open"
  /\ gate' = TRUE
  /\ inj' = [inj EXCEPT !.pc = "idle"]
  /\ UNCHANGED <<saved, run, peerVars, scanVars, pend, recorded, nonblock, rescan, done, capture,
                 main, exit, stdin, sigint, waited, keys, histVars>>

\* inject_completed, set just before, opens nothing that is not opened here.
InjOpen ==
  /\ inj.pc = "open"
  /\ rescan' = TRUE
  /\ gate' = TRUE
  /\ inj' = [inj EXCEPT !.pc = "idle"]
  /\ UNCHANGED <<saved, run, peerVars, scanVars, pend, recorded, nonblock, done, capture, main,
                 exit, stdin, sigint, waited, keys, histVars>>

InjEnd ==
  /\ inj.pc = "idle" /\ done
  /\ inj' = [inj EXCEPT !.pc = "ended"]
  /\ UNCHANGED <<saved, run, peerVars, scanVars, pend, recorded, nonblock, rescan, done, capture,
                 mainVars, histVars>>

-----------------------------------------------------------------------------
\* The user, or the pipe that is the standard input

Key(part) == [n |-> keys, part |-> part, enc |-> "utf8"]

\* A new password is typed in two parts once its prompt is on the screen; with
\* a record the user types a line, or ^C, whenever he likes.
UserTypes ==
  /\ run.tty /\ main = "loop"
  /\ \/ /\ ~Preset /\ shown \in Prompts
        /\ stdin' = stdin \o <<Key("first"), Key("enter")>>
        /\ shown' = "typed"
     \/ /\ Preset /\ keys < run.keys
        /\ stdin' = Append(stdin, Key("enter"))
        /\ UNCHANGED shown
  /\ keys' = keys + 1
  /\ UNCHANGED <<saved, run, peerVars, scan, window, postAuth, closed, injVars, done, capture,
                 gate, main, exit, sigint, waited, histVars>>

\* ^C is a signal in a cooked terminal and a byte in a raw one: raw from the
\* start without a record, and else as soon as the main loop comes by while no
\* injection is pending.
UserInterrupts ==
  /\ run.tty /\ main = "loop" /\ keys < run.keys
  /\ keys' = keys + 1
  /\ \/ stdin' = Append(stdin, Key("int")) /\ UNCHANGED sigint
     \/ Preset /\ sigint' = TRUE /\ UNCHANGED stdin
  /\ UNCHANGED <<saved, run, peerVars, scanVars, injVars, done, capture, gate, main, exit,
                 waited, histVars>>

\* The pipe: lines, and then its end.
PipeWrites ==
  /\ ~run.tty /\ main = "loop" /\ keys < run.keys + 1
  /\ stdin' = Append(stdin, Key(IF keys < run.keys THEN "enter" ELSE "eof"))
  /\ keys' = keys + 1
  /\ UNCHANGED <<saved, run, peerVars, scanVars, injVars, done, capture, gate, main, exit,
                 sigint, waited, histVars>>

-----------------------------------------------------------------------------
\* The main loop

\* Something other than a secret is written to the program.
AsksSecret == peer.st = "asking" /\ Ask # "yesno"
Touched == byHand' = (byHand \/ AsksSecret)
Touch == /\ Touched
         /\ fed' = (fed \/ (Preset /\ ~Passive /\ served \subseteq {"failed"}))

\* A byte is pushed as a character of its own.
AsChar(key) == IF run.ascii THEN key ELSE [key EXCEPT !.enc = "latin1"]

Captured(key) ==
  IF ~capture.on \/ ~run.tty THEN capture
  ELSE [on   |-> key.part # "enter",
        text |-> IF key.part = "int" THEN capture.text
                 ELSE Append(capture.text, AsChar(key))]

\* From the channel to the terminal, once the gate is open.
MainForward ==
  /\ main = "loop" /\ ~done /\ ~closed /\ gate /\ stdin # <<>>
  /\ LET key == Head(stdin)
     IN /\ stdin' = Tail(stdin)
        /\ capture' = Captured(key)
        /\ CASE key.part = "first" ->
                  /\ peer' = IF peer.st = "asking"
                             THEN [peer EXCEPT !.line = Append(@, key)] ELSE peer
                  /\ UNCHANGED <<out, accepted>>
             [] key.part = "enter" ->
                  \E ok \in IF Preset /\ AsksSecret THEN {FALSE} ELSE BOOLEAN :
                    Answer(Append(peer.line, key), ok)
             [] key.part = "int" -> InterruptPeer
             [] key.part = "eof" -> UNCHANGED peerVars
  /\ Touch
  /\ UNCHANGED <<saved, run, scanVars, injVars, done, gate, main, exit, sigint, waited, keys,
                 typed, clean, served, lost>>

MainSigint ==
  /\ main = "loop" /\ ~done /\ ~closed /\ sigint
  /\ sigint' = FALSE
  /\ capture' = IF capture.on THEN [on |-> FALSE, text |-> Nil] ELSE capture
  /\ InterruptPeer
  /\ Touched
  /\ UNCHANGED <<saved, run, scanVars, injVars, done, gate, main, exit, stdin, waited, keys,
                 typed, clean, fed, served, lost>>

\* The gate opens without an injection: after the login, or after a while.
GateOpens ==
  IF Defer THEN postAuth /\ recorded.elev >= 1 /\ ~pend.inj /\ waited
  ELSE \/ Preset /\ postAuth
       \/ Preset /\ ~pend.inj /\ waited
       \/ ~Preset /\ ~capture.on /\ ~pend.inj /\ waited

MainOpen ==
  /\ main = "loop" /\ ~done /\ ~closed /\ ~gate
  /\ GateOpens
  /\ gate' = TRUE
  /\ UNCHANGED <<saved, run, peerVars, scanVars, injVars, done, capture, main, exit, stdin,
                 sigint, waited, keys, histVars>>

\* The session is over by what was printed, or by the end of the scanner.
MainEnds ==
  /\ main = "loop" /\ (done \/ closed)
  /\ main' = "down"
  /\ UNCHANGED <<saved, run, peerVars, scanVars, injVars, done, capture, gate, exit, stdin,
                 sigint, waited, keys, histVars>>

\* The program has exited: half a second for the scanner to read the rest.
MainExit ==
  /\ main = "loop" /\ peer.st = "gone"
  /\ main' = "grace"
  /\ UNCHANGED <<saved, run, peerVars, scanVars, injVars, done, capture, gate, exit, stdin,
                 sigint, waited, keys, histVars>>

MainGraceOver ==
  /\ main = "grace"
  /\ main' = "down"
  /\ UNCHANGED <<saved, run, peerVars, scanVars, injVars, done, capture, gate, exit, stdin,
                 sigint, waited, keys, histVars>>

MainDown ==
  /\ main = "down"
  /\ main' = "kill"
  /\ done' = TRUE
  /\ sigint' = FALSE /\ stdin' = <<>>
  /\ UNCHANGED <<saved, run, peerVars, scanVars, injVars, capture, gate, exit, waited, keys,
                 histVars>>

\* A program that lives is terminated; one not reaped in time has exited with 0.
MainKill ==
  /\ main = "kill"
  /\ main' = "join"
  /\ exit' \in IF peer.st = "gone" THEN {"its"} ELSE {"its", "zero"}
  /\ peer' = [peer EXCEPT !.st = "gone", !.line = <<>>]
  /\ UNCHANGED <<saved, run, out, accepted, scanVars, injVars, done, capture, gate, stdin,
                 sigint, waited, keys, histVars>>

MainJoin ==
  /\ main = "join" /\ inj.pc = "ended"
  /\ main' = "returned"
  /\ UNCHANGED <<saved, run, peerVars, scanVars, injVars, done, capture, gate, exit, stdin,
                 sigint, waited, keys, histVars>>

\* exec_fresh: saved after a login that was seen, or an exit with 0, when a
\* password was captured at a terminal and the user gave an alias for it.
\* offer_save asks him for the alias and waits for his line.
Offered == ~Preset /\ run.tty /\ capture.text \notin {Nil, <<>>}
ShouldSave(code) == Offered /\ (postAuth \/ code = 0)

ExecSaves ==
  /\ main = "returned"
  /\ main' = "exited"
  /\ \E code \in IF exit = "zero" THEN {0} ELSE {0, 1} :
       saved' \in IF ShouldSave(code) THEN {capture.text, Nil} ELSE {Nil}
  /\ UNCHANGED <<run, peerVars, scanVars, injVars, done, capture, gate, exit, stdin, sigint,
                 waited, keys, histVars>>

\* Time passes: it matters only while the gate is closed.
Tick ==
  /\ main = "loop" /\ ~gate /\ ~waited
  /\ waited' = TRUE
  /\ UNCHANGED <<saved, run, peerVars, scanVars, injVars, done, capture, gate, main, exit, stdin,
                 sigint, keys, histVars>>

RunOver == main = "exited" /\ UNCHANGED ptyVars

-----------------------------------------------------------------------------
\* Open from the start for a user at a terminal without a record (mutant: with
\* one too).
InitialGate_AnyTty == run.tty /\ ~Defer
InitialGate == run.tty /\ ~(Preset /\ ~Passive) /\ ~Defer

PtyInit ==
  /\ run \in Runs
  /\ peer = [st |-> "busy", at |-> 1, tries |-> 0, line |-> <<>>]
  /\ out = IF run.preBanner THEN <<"banner">> ELSE <<>>
  /\ accepted = Nil
  /\ scan = "poll" /\ window = <<>> /\ shown = "nothing"
  /\ postAuth = FALSE /\ closed = FALSE
  /\ pend = [inj |-> FALSE, field |-> Nil, rid |-> Nil, elev |-> FALSE]
  /\ recorded = [fields |-> {}, elev |-> 0, login |-> FALSE, inner |-> FALSE]
  /\ inj = [pc |-> "idle", field |-> Nil, rid |-> Nil, elev |-> FALSE, ok |-> FALSE]
  /\ nonblock = FALSE /\ rescan = FALSE
  /\ done = FALSE
  /\ capture = [on |-> FALSE, text |-> Nil]
  /\ gate = InitialGate
  /\ main = "loop" /\ exit = "none"
  /\ stdin = <<>> /\ sigint = FALSE /\ waited = FALSE /\ keys = 0
  /\ typed = Nil /\ byHand = FALSE /\ clean = TRUE
  /\ fed = FALSE /\ served = {} /\ lost = FALSE /\ saved = Nil

Scanner  == ScanRescan \/ ScanReady \/ ScanRead \/ ScanArm \/ ScanEnds
Injector == \/ InjStart \/ InjSpawn \/ InjType \/ InjFail \/ InjNonblock \/ InjDrain
            \/ InjBlocking \/ InjRecord \/ InjOpen \/ InjEnd
Main     == \/ MainForward \/ MainSigint \/ MainOpen \/ MainEnds \/ MainExit
            \/ MainGraceOver \/ MainDown \/ MainKill \/ MainJoin \/ ExecSaves
User     == UserTypes \/ UserInterrupts \/ PipeWrites

PtyNext == PeerAsks \/ PeerExits \/ Scanner \/ Injector \/ User \/ Main \/ Tick \/ RunOver

PtySpec == PtyInit /\ [][PtyNext]_ptyVars

\* The three threads go on; the program and the user owe nothing, nor the user
\* the answer that offer_save waits for.
PtyFairSpec ==
  /\ PtySpec
  /\ WF_ptyVars(ScanRescan) /\ WF_ptyVars(ScanReady) /\ WF_ptyVars(ScanRead) /\ WF_ptyVars(ScanArm)
  /\ WF_ptyVars(ScanEnds)
  /\ WF_ptyVars(Injector)
  /\ WF_ptyVars(MainEnds) /\ WF_ptyVars(MainExit) /\ WF_ptyVars(MainGraceOver)
  /\ WF_ptyVars(MainDown)
  /\ WF_ptyVars(MainKill) /\ WF_ptyVars(MainJoin)
  /\ WF_ptyVars(ExecSaves /\ ~Offered)

-----------------------------------------------------------------------------
\* Properties

\* The field a prompt may be given: the one it asks for.  field_for_prompt falls
\* back on a record's only field at every prompt that asks for none it has, the
\* host-key question and a key's passphrase included.
Suited(rid, f, p) == \/ f = Wanted(p)
                     \/ Len(FieldsOf(rid)) = 1 /\ ~HasField(rid, Wanted(p))

\* A secret is typed at a prompt only, of the record of the host that prompts and
\* the field that is asked for, as long as the user has answered no prompt
\* himself.  The exception: a record with one field has it typed at whatever
\* prompt it has no field for, so that its password may answer "yes/no".  On a
\* route it holds while hops can be told apart: the inner prompt names its host,
\* or the injection before it was recorded; and no banner before the login reads
\* like one after it.
TellsHops == IF Dual THEN run.hint /\ ~run.preBanner /\ run.good ELSE clean

SecretAtItsPrompt ==
  (typed # Nil /\ ~byHand /\ TellsHops) =>
     /\ typed.ask # "none"
     /\ typed.rid = Owner(typed.ask)
     /\ Suited(typed.rid, typed.field, typed.ask)

\* The prompts a run answers by itself: it has the secret, and it can tell.
\* A key's prompt that is still in the window hides a password's; "yes/no" takes
\* the secret of a record with one field; the bookkeeping of a route counts on a
\* password at each of its two logins.
InHand(p) ==
  /\ Preset /\ HasField(Owner(p), Wanted(p))
  /\ p \in Logins => ~Has(window, {"key"})
  /\ p = "su" => run.su
  /\ Contains(run.asks, "yesno") => Len(run.fields) > 1
  /\ Outer => ~run.preBanner
  /\ Outer /\ ~Dual => p = "login"
  /\ Dual /\ Owner(p) = "inner" => run.hint /\ Contains(run.asks, "login")
  /\ Owner(p) = "inner" => Dual

\* Everything has come to rest: nothing is left to read, no injection is under way
\* or asked for.
AtRest == /\ main = "loop" /\ ~done /\ scan = "poll" /\ out = <<>> /\ ~rescan
          /\ inj.pc = "idle" /\ ~pend.inj

\* No prompt is overlooked, whatever the record and the program: at rest, the one
\* at the end of what was read is one that arm_prompt_if_needed would refuse
\* again.  It may have refused it when an injection was under way; after one that
\* failed it is not asked again.
Answerable(w) == IF run.fields = <<>> THEN Last(w) # "yesno" ELSE ArmsInjection(w)
NoneOverlooked ==
  (AtRest /\ Preset /\ PromptAtEnd(window) /\ "failed" \notin served) => ~Answerable(window)

\* What is refused was served: at rest, where the last thing read is the prompt the
\* program waits at and the run answers it by itself, its secret has been typed.
InHandServed ==
  (/\ AtRest /\ ~byHand /\ peer.st = "asking"
   /\ PromptAtEnd(window) /\ Last(window) = Ask /\ InHand(Ask))
     => served \cap {Ask, "failed"} # {}

\* No prompt is left standing.  The program's next prompt may come before the
\* injection is recorded, and is then refused: rescan_after_inject is what finds
\* it again - after an injection that succeeded; one that failed looks for
\* nothing.
PromptServed == NoneOverlooked /\ InHandServed

\* What is saved after a first login that was seen is the line the login took,
\* whatever was typed before and after it: refused lines, "yes", the password of
\* a later sudo.  (Without a prompt for a password the "yes" is what is saved; a
\* password that is not ASCII is saved byte by byte.)
SavedIsAccepted ==
  (saved # Nil /\ accepted # Nil /\ postAuth /\ ~run.preBanner /\ run.ascii)
     => saved = accepted

\* With a record, nothing of stdin reaches the program before a secret has, but
\* for the two openings of the gate: the login's banner and the two seconds.
HeldUntilInjected == fed => ~Defer /\ (postAuth \/ waited)

\* The scanner ends with its terminal only - or when the injector has drained
\* what poll had promised it, and the read fails.
ScannerEndsWithTerminal == (done /\ main = "loop") => (peer.st = "gone" \/ lost)

\* A program that has exited, or a session that has ended, ends the run, also
\* when somebody keeps the terminal open and the scanner never sees its end: it comes
\* as far as offer_save, where the user may be asked for an alias.
RunReturns ==
  (peer.st = "gone" \/ done \/ closed) ~> (main = "exited" \/ (main = "returned" /\ Offered))

=============================================================================
