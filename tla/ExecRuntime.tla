---------------------------- MODULE ExecRuntime ----------------------------
(***************************************************************************)
(* One exec of a saved record, from the process that asks for it to the    *)
(* ssh it starts (src/cli/exec.rs, src/runtime/pipe_exec.rs, child_guard.rs,*)
(* ssh_identity.rs, src/cli/injector.rs, src/bastion/transport.rs):        *)
(*   - the caller: a list of another brokre, which starts "brokre ssh" and *)
(*     gives it a deadline, or the user's shell;                           *)
(*   - the exec itself: the steps of its main thread, the SIGTERM handler  *)
(*     that interrupts them, and the signals nobody handles;               *)
(*   - the ssh it starts, in a process group of its own, and the askpass   *)
(*     helper ssh calls for every secret it needs;                         *)
(*   - another brokre, which removes the files it takes for left behind.   *)
(* The argument vector is built by the operators of SshArgs.               *)
(***************************************************************************)
EXTENDS SshArgs

CONSTANTS
  Cases,       \* the invocations: what was typed, the record, the environment
  Fields,      \* the injectable fields of the record, in their order
  MaxPrompts,  \* how many secrets ssh asks for at most
  None         \* no file, no case

ASSUME ExecAssumption == Fields # <<>> /\ MaxPrompts \in Nat /\ None \notin Nat

VARIABLES
  pc,        \* where the exec's main thread is
  case,      \* the invocation, None once the vector is built
  argv,      \* the vector under construction
  mode,      \* the way of running that was chosen
  tries,     \* the runs (of scp -O, of a master) that are still allowed
  handler,   \* where the SIGTERM handler is: "none" when it does not run
  handlers,  \* the handler is installed (ensure_signal_handlers)
  holder,    \* the main thread holds the mutex of the registered groups
  groups,    \* ssh's group is registered (ALL_PGIDS)
  ssh,       \* the ssh of this exec
  asked,     \* the fields the askpass helper has answered, in order
  helper,    \* the helper at work: [at, n], n the number it read
  state,     \* the askpass state file: its number, or None
  owner,     \* the .owner file: "none", "empty" or "pid"
  keyfile,   \* the file of the decrypted private key exists
  master,    \* the multiplexing master behind the control path of the line
  elsewhere, \* the masters of other hosts behind theirs
  other,     \* the other brokre: the verdict it is about to act on
  caller,    \* the process that started the exec
  struck     \* where the main thread was when SIGTERM came, "unhandled"
             \* when another signal ended the exec

procVars == <<pc, case, argv, mode, tries>>
sigVars  == <<handler, handlers, holder, groups, struck>>
sshVars  == <<ssh, asked, helper>>
fileVars == <<state, owner, keyfile>>
outVars  == <<master, elsewhere, other, caller>>
vars     == <<procVars, sigVars, sshVars, fileVars, outVars>>

Dead  == pc \in {"exited", "killed"}
Live  == {"runs", "dying"}    \* an ssh that has not exited
Idle  == [at |-> "idle", n |-> 0]

Profile  == case.profile
Trailing == case.trailing
Direct   == case.env.direct

\* What is invoked and the vector are what SshArgs makes of them.
Flags ==
  /\ handlers \in BOOLEAN /\ holder \in BOOLEAN /\ groups \in BOOLEAN
  /\ keyfile \in BOOLEAN

Places ==
  /\ pc \in {"start", "resolve", "prune_mux", "identity", "choose", "askpass_state",
            "askpass_owner", "askpass_pid", "master_check", "master_try", "master_again",
            "spawn", "register", "registering", "wait", "unregister", "unregistering",
            "drop_state", "drop_owner", "audit", "exited", "killed"}
  /\ tries \in {1, 2}
  /\ handler \in {"none", "lock", "term", "poll", "prune"}
  /\ ssh \in {"none", "runs", "dying", "zombie", "gone"}
  /\ helper \in [at : {"idle", "started", "read"}, n : Nat]
  /\ state \in Nat \cup {None}
  /\ owner \in {"none", "empty", "pid"}
  /\ master \in {"none", "alive", "dead"} /\ elsewhere \in {"alive", "ended"}
  /\ other \in {"idle", "empty", "dead", "misled"}
  /\ caller \in {"shell", "gone", "waits", "polls", "drains", "returned"}

TypeOK == Flags /\ Places

Init ==
  /\ pc = "start" /\ case \in Cases /\ argv = <<>> /\ mode = "none" /\ tries = 1
  /\ handler = "none" /\ handlers = FALSE /\ holder = FALSE /\ groups = FALSE
  /\ struck = "none"
  /\ ssh = "none" /\ asked = <<>> /\ helper = Idle
  /\ state = None /\ owner = "none" /\ keyfile = FALSE
  /\ master = "none" /\ elsewhere = "alive"
  /\ other = "idle"
  /\ caller \in {"shell", "waits"}

-----------------------------------------------------------------------------
\* The exec.  The handler runs on the main thread, which stands meanwhile.

Goto(from, to) == handler = "none" /\ pc = from /\ pc' = to

\* run() and the gate: prune_stale_askpass_files (no file of this exec exists
\* yet, and those of others are the concern of Judge), then the gate may
\* refuse.
Start ==
  /\ \/ Goto("start", "resolve") /\ UNCHANGED case
     \/ Goto("start", "exited")  /\ case' = None
  /\ UNCHANGED <<argv, mode, tries, sigVars, sshVars, fileVars, outVars>>

\* exec_routed without the tunnel: the route becomes one remote command word
\* for the first hop, and run() is entered again with it.
Route ==
  /\ Goto("resolve", "start")
  /\ case.hops # <<>>
  /\ LET line == IF case.inner_record
                 THEN RoutedDirectArgv(case.hops, case.inner, Trailing)
                 ELSE RoutedLocalArgv(case.hops, case.inner, Trailing)
     IN case' = [case EXCEPT !.hops = <<>>, !.trailing = Tail(line),
                             !.env.direct = case.inner_record]
  /\ UNCHANGED <<argv, mode, tries, sigVars, sshVars, fileVars, outVars>>

\* exec_saved up to insert_mux_options_for_profile.
Whole == ComposeArgv(Profile, case.rec, case.leading, case.removed, Trailing)
Typed == Stripped(Whole)
Compose ==
  /\ Goto("resolve", "prune_mux")
  /\ case.hops = <<>>
  /\ argv' = WithMux(Profile,
               WithTimeouts(Profile, WithTty(Profile, Typed, Trailing, Direct)),
               Direct)
  /\ UNCHANGED <<case, mode, tries, sigVars, sshVars, fileVars, outVars>>

\* prune_stale_mux_sockets, with the socket that earlier logins left.  When no
\* living master of this host is behind it and the vector names a control
\* path, every socket the path may stand for is told to exit and removed; for
\* a path with %C ("shared") these are the sockets of all hosts.
ControlPath ==
  LET at == {i \in 2..Len(argv) :
               argv[i - 1] = Flag("o") /\ GivesSetting(argv[i], "ControlPath")}
  IN IF at = {} THEN "unset"
     ELSE argv[CHOOSE i \in at : \A j \in at : i <= j].value
PruneMux ==
  /\ Goto("prune_mux", "identity")
  /\ \E found \in IF ControlPath = "none" THEN {"none"}
                  ELSE {"none", "alive", "dead"} :
       LET prunes == found # "alive" /\ ControlPath # "unset"
       IN /\ master' = IF prunes THEN "none" ELSE found
          /\ elsewhere' = IF prunes /\ ControlPath = "shared" THEN "ended"
                          ELSE elsewhere
  /\ UNCHANGED <<case, argv, mode, tries, sigVars, sshVars, fileVars, other, caller>>

\* materialize_identity and insert_identity_arg_for_profile.  Writing the
\* file may fail half way, when no guard has been made to remove it.
Identity ==
  /\ \/ /\ Goto("identity", "choose")
        /\ ~case.key
        /\ UNCHANGED <<case, argv, keyfile>>
     \/ /\ Goto("identity", "choose")
        /\ case.key
        /\ keyfile' = TRUE /\ argv' = WithIdentity(Profile, argv) /\ UNCHANGED case
     \/ /\ Goto("identity", "exited")
        /\ case.key
        /\ keyfile' \in BOOLEAN /\ argv' = <<>> /\ case' = None
  /\ UNCHANGED <<mode, tries, sigVars, sshVars, state, owner, outVars>>

\* The dispatch of exec_saved.
Choose ==
  /\ pc = "choose"
  /\ mode' = ModeOf(Profile, Trailing, case.env)
  /\ Goto("choose", CASE mode' = "pipe" -> "askpass_state"
                      [] mode' = "mux"  -> "master_check"
                      [] OTHER          -> "spawn")
  /\ tries' = IF mode' = "mux" \/ (Profile = "scp" /\ Contains(argv, Flag("O")))
              THEN 2 ELSE 1
  /\ argv' = <<>> /\ case' = None
  /\ UNCHANGED <<sigVars, sshVars, fileVars, outVars>>

\* configure_askpass: the state file, then the owner file, created and filled;
\* a filled file whose name is gone stays gone.  The token is new: what
\* another brokre found out about an earlier one is of no matter.
AskpassState ==
  /\ Goto("askpass_state", "askpass_owner")
  /\ state' = 0
  /\ other' = IF other = "misled" THEN other ELSE "idle"
  /\ UNCHANGED <<case, argv, mode, tries, sigVars, sshVars, owner, keyfile,
                 master, elsewhere, caller>>
AskpassOwner ==
  /\ \/ Goto("askpass_owner", "askpass_pid") /\ owner' = "empty"
     \/ /\ Goto("askpass_pid", "spawn")
        /\ owner' = IF owner = "none" THEN "none" ELSE "pid"
  /\ UNCHANGED <<case, argv, mode, tries, sigVars, sshVars, state, keyfile, outVars>>

\* run_interactive_routed_mux_tty.  ensure_ssh_mux_master uses a living master
\* as it is; otherwise two tries, each of which prunes as PruneMux did and lets
\* ssh -N -f log in.  The master is then looked at once more.  Either error
\* drops the key guard.
MasterCheck ==
  /\ Goto("master_check", IF master = "alive" THEN "master_again" ELSE "master_try")
  /\ UNCHANGED <<case, argv, mode, tries, sigVars, sshVars, fileVars, outVars>>
MasterTry ==
  /\ \/ /\ Goto("master_try", "master_again")
        /\ master' = "alive" /\ UNCHANGED <<tries, keyfile>>
     \/ /\ tries = 2 /\ Goto("master_try", "master_try")
        /\ tries' = 1 /\ master' = "none" /\ UNCHANGED keyfile
     \/ /\ tries = 1 /\ Goto("master_try", "exited")
        /\ master' = "none" /\ keyfile' = FALSE /\ UNCHANGED tries
  /\ UNCHANGED <<case, argv, mode, sigVars, sshVars, state, owner, elsewhere, other,
                 caller>>
MasterAgain ==
  /\ \/ master = "alive" /\ Goto("master_again", "spawn") /\ UNCHANGED keyfile
     \/ master # "alive" /\ Goto("master_again", "exited") /\ keyfile' = FALSE
  /\ UNCHANGED <<case, argv, mode, tries, sigVars, sshVars, state, owner, outVars>>

\* SessionChildGuard::spawn: the handler is installed, ssh is forked into a
\* group of its own, then the group is registered under the mutex.  For a
\* pty, register_pty_child_pid takes the last two steps.  A fork that fails
\* returns an error, and the guards remove the files.
Spawn ==
  /\ handlers' = TRUE
  /\ \/ /\ Goto("spawn", "register")
        /\ ssh' = "runs" /\ asked' = <<>> /\ UNCHANGED fileVars
     \/ /\ Goto("spawn", "exited")
        /\ state' = None /\ owner' = "none" /\ keyfile' = FALSE
        /\ UNCHANGED <<ssh, asked>>
  /\ UNCHANGED <<case, argv, mode, tries, handler, holder, groups, struck, helper,
                 outVars>>

\* Mutant: the group is not put among the registered ones.
Register_NotListed ==
  /\ \/ Goto("register", "registering") /\ holder' = TRUE /\ UNCHANGED groups
     \/ Goto("registering", "wait") /\ holder' = FALSE /\ UNCHANGED groups
  /\ UNCHANGED <<case, argv, mode, tries, handler, handlers, struck, sshVars,
                 fileVars, outVars>>

Register ==
  /\ \/ Goto("register", "registering") /\ holder' = TRUE /\ UNCHANGED groups
     \/ Goto("registering", "wait") /\ holder' = FALSE /\ groups' = TRUE
  /\ UNCHANGED <<case, argv, mode, tries, handler, handlers, struck, sshVars,
                 fileVars, outVars>>

\* wait reaps ssh; mark_reaped takes its group out, under the mutex again.
Wait ==
  /\ ssh = "zombie"
  /\ Goto("wait", "unregister")
  /\ ssh' = "gone"
  /\ UNCHANGED <<case, argv, mode, tries, sigVars, asked, helper, fileVars, outVars>>
Unregister ==
  /\ \/ Goto("unregister", "unregistering") /\ holder' = TRUE /\ UNCHANGED groups
     \/ /\ Goto("unregistering", IF mode = "pipe" THEN "drop_state" ELSE "audit")
        /\ holder' = FALSE /\ groups' = FALSE
  /\ UNCHANGED <<case, argv, mode, tries, handler, handlers, struck, sshVars,
                 fileVars, outVars>>

\* Drop of AskpassGuard, then the second run of an scp -O that failed.
DropAskpass ==
  /\ \/ /\ Goto("drop_state", "drop_owner")
        /\ state' = None /\ UNCHANGED <<owner, tries>>
     \/ /\ Goto("drop_owner", "audit")
        /\ owner' = "none" /\ UNCHANGED <<state, tries>>
     \/ /\ tries = 2 /\ Goto("drop_owner", "askpass_state")
        /\ tries' = 1 /\ owner' = "none" /\ UNCHANGED state
  /\ UNCHANGED <<case, argv, mode, sigVars, sshVars, keyfile, outVars>>

\* The event and last_used_at are written; then std::process::exit, which
\* runs no destructor: the key file stays.
Audit ==
  /\ Goto("audit", "exited")
  /\ asked' = <<>>
  /\ UNCHANGED <<case, argv, mode, tries, sigVars, ssh, helper, fileVars, outVars>>

Exec ==
  \/ Start \/ Route \/ Compose \/ PruneMux \/ Identity \/ Choose
  \/ AskpassState \/ AskpassOwner \/ MasterCheck \/ MasterTry \/ MasterAgain
  \/ Spawn \/ Register \/ Wait \/ Unregister \/ DropAskpass \/ Audit

-----------------------------------------------------------------------------
\* ssh and the askpass helper.

\* ssh asks for a secret; the helper refuses when no process above it is the
\* one that wrote the owner's pid into its environment.
SshAsks ==
  /\ ssh = "runs" /\ mode = "pipe" /\ helper = Idle
  /\ Len(asked) < MaxPrompts
  /\ helper' = [at |-> "started", n |-> 0]
  /\ UNCHANGED <<procVars, sigVars, ssh, asked, fileVars, outVars>>

\* run_internal_askpass: a state file that cannot be read counts as 0.
HelperReads ==
  /\ helper.at = "started"
  /\ helper' = IF Dead THEN Idle
               ELSE [at |-> "read", n |-> IF state = None THEN 0 ELSE state]
  /\ UNCHANGED <<procVars, sigVars, ssh, asked, fileVars, outVars>>

FieldAt(n) == Fields[IF n < Len(Fields) THEN n + 1 ELSE Len(Fields)]
HelperAnswers ==
  /\ helper.at = "read"
  /\ state' = helper.n + 1
  /\ asked' = Append(asked, FieldAt(helper.n))
  /\ helper' = Idle
  /\ UNCHANGED <<procVars, sigVars, ssh, owner, keyfile, outVars>>

\* ssh ends by itself or of a signal; nobody reaps it when the exec is dead.
\* The ssh of a login may leave a master behind (ControlMaster=auto).
SshExits ==
  /\ ssh \in Live /\ (ssh = "runs" => helper = Idle)
  /\ ssh' = IF Dead THEN "gone" ELSE "zombie"
  /\ master' \in IF mode = "pty" /\ ssh = "runs" /\ master = "none"
                 THEN {"none", "alive"} ELSE {master}
  /\ UNCHANGED <<procVars, sigVars, asked, helper, fileVars, elsewhere, other, caller>>

\* The master goes when ControlPersist runs out, or crashes and leaves its
\* socket.
MasterEnds ==
  /\ master = "alive" /\ pc \in {"start", "master_again", "wait"}
  /\ master' \in {"none", "dead"}
  /\ UNCHANGED <<procVars, sigVars, sshVars, fileVars, elsewhere, other, caller>>

-----------------------------------------------------------------------------
\* SIGTERM.

\* Until the handler is installed SIGTERM ends the process at once.
Sigterm ==
  /\ struck' = pc
  /\ IF handlers THEN handler' = "lock" /\ UNCHANGED pc
                 ELSE pc' = "killed" /\ UNCHANGED handler

Stuck == handler = "lock" /\ holder

\* terminate_process_sessions: the groups are copied under the mutex, which
\* the interrupted thread may hold; each is sent SIGTERM, polled for a while,
\* then sent SIGKILL.
HandlerLock ==
  /\ handler = "lock" /\ ~holder
  /\ handler' = IF groups THEN "term" ELSE "prune"
  /\ UNCHANGED <<procVars, handlers, holder, groups, struck, sshVars, fileVars,
                 outVars>>
HandlerTerm ==
  /\ handler = "term"
  /\ handler' = "poll"
  /\ ssh' = IF ssh = "runs" THEN "dying" ELSE ssh
  /\ UNCHANGED <<procVars, handlers, holder, groups, struck, asked, helper,
                 fileVars, outVars>>
HandlerKill ==
  /\ handler = "poll"
  /\ handler' = "prune"
  /\ ssh' = IF ssh \in Live THEN "zombie" ELSE ssh
  /\ groups' = FALSE
  /\ UNCHANGED <<procVars, handlers, holder, struck, asked, helper, fileVars,
                 outVars>>

\* prune_askpass_owned_by_current_process, and _exit.
HandlerPrune ==
  /\ handler = "prune"
  /\ handler' = "none"
  /\ pc' = "killed"
  /\ IF owner = "pid" THEN state' = None /\ owner' = "none"
                      ELSE UNCHANGED <<state, owner>>
  /\ ssh' = IF ssh = "zombie" THEN "gone" ELSE ssh
  /\ UNCHANGED <<case, argv, mode, tries, handlers, holder, groups, struck, asked,
                 helper, keyfile, outVars>>

Handler == HandlerLock \/ HandlerTerm \/ HandlerKill \/ HandlerPrune

-----------------------------------------------------------------------------
\* The caller.

\* The user's kill, or a timeout of the tool that runs brokre.
Interrupt ==
  /\ caller = "shell" /\ ~Dead /\ handler = "none"
  /\ Sigterm
  /\ caller' = "gone"
  /\ UNCHANGED <<case, argv, mode, tries, handlers, holder, groups, sshVars,
                 fileVars, master, elsewhere, other>>

\* ^C or a hangup of the user's terminal: SIGINT and SIGHUP end brokre
\* wherever it is, its handler included, and reach no other process, since ssh
\* is in a process group of its own (setpgid).  The ssh of a pty is hung up with
\* its terminal, and runs until then.
Unhandled ==
  /\ caller \in {"shell", "gone"} /\ ~Dead
  /\ pc' = "killed" /\ handler' = "none" /\ struck' = "unhandled"
  /\ caller' = "gone"
  /\ ssh' = IF ssh = "zombie" THEN "gone" ELSE ssh
  /\ UNCHANGED <<case, argv, mode, tries, handlers, holder, groups, asked, helper,
                 fileVars, master, elsewhere, other>>

\* Mutant: the output is read to its end before the deadline is looked at.
CallerExpires_AfterOutput ==
  /\ caller = "waits" /\ ~Dead /\ handler = "none" /\ ssh \notin Live
  /\ Sigterm
  /\ caller' = "polls"
  /\ UNCHANGED <<case, argv, mode, tries, handlers, holder, groups, sshVars,
                 fileVars, master, elsewhere, other>>

\* wait_with_output_timeout: at the deadline terminate_pgid sends SIGTERM,
\* polls, sends SIGKILL; then the pipes of the output are read to their end.
CallerExpires ==
  /\ caller = "waits" /\ ~Dead /\ handler = "none"
  /\ Sigterm
  /\ caller' = "polls"
  /\ UNCHANGED <<case, argv, mode, tries, handlers, holder, groups, sshVars,
                 fileVars, master, elsewhere, other>>

\* The poll lasts 1.5 s, enough for a handler that gets the mutex to send its
\* SIGTERM; it may end before the handler does.
CallerKills ==
  /\ caller = "polls"
  /\ handler \in {"lock", "term"} => Stuck
  /\ caller' = "drains"
  /\ handler' = "none"
  /\ pc' = IF Dead THEN pc ELSE "killed"
  /\ ssh' = IF ssh = "zombie" THEN "gone" ELSE ssh
  /\ UNCHANGED <<case, argv, mode, tries, handlers, holder, groups, struck, asked,
                 helper, fileVars, master, elsewhere, other>>

CallerReaps ==
  /\ caller = "waits" /\ Dead
  /\ caller' = "drains"
  /\ UNCHANGED <<procVars, sigVars, sshVars, fileVars, master, elsewhere, other>>

\* ssh has inherited the pipe: its end is the end of the last that holds it.
CallerReturns ==
  /\ caller = "drains" /\ ssh \notin Live
  /\ caller' = "returned"
  /\ UNCHANGED <<procVars, sigVars, sshVars, fileVars, master, elsewhere, other>>

Caller == CallerExpires \/ CallerKills \/ CallerReaps \/ CallerReturns

-----------------------------------------------------------------------------
\* Mutant: the pid in the owner file is not looked up.
Judge_AnyOwner ==
  /\ other = "idle" /\ state # None
  /\ \/ owner = "empty" /\ other' = "empty"
     \/ owner = "pid" /\ other' = "dead"
  /\ UNCHANGED <<procVars, sigVars, sshVars, fileVars, master, elsewhere, caller>>

\* prune_stale_askpass_files in another brokre: the owner file is read, and a
\* pid that is not there (an empty file included) condemns both files, which
\* are removed a moment later.  Files without an owner are left for a day.
Judge ==
  /\ other = "idle" /\ state # None
  /\ \/ owner = "empty" /\ other' = "empty"
     \/ owner = "pid" /\ Dead /\ other' = "dead"
  /\ UNCHANGED <<procVars, sigVars, sshVars, fileVars, master, elsewhere, caller>>
Sweep ==
  /\ other \in {"empty", "dead"}
  /\ other' = IF other = "empty" THEN "misled" ELSE "idle"
  /\ state' = None /\ owner' = "none"
  /\ UNCHANGED <<procVars, sigVars, sshVars, keyfile, master, elsewhere, caller>>

-----------------------------------------------------------------------------
Over ==
  /\ Dead \/ Stuck
  /\ caller \in {"shell", "gone", "returned"}
  /\ UNCHANGED vars

Next ==
  \/ Exec \/ SshAsks \/ HelperReads \/ HelperAnswers \/ SshExits \/ MasterEnds
  \/ Handler \/ Interrupt \/ Unhandled \/ Caller \/ Judge \/ Sweep \/ Over

Spec == Init /\ [][Next]_vars

\* The threads of the programs run on, a signalled ssh dies; that a command
\* ends by itself is nobody's promise.
FairSpec ==
  /\ Spec
  /\ WF_vars(Handler) /\ WF_vars(Caller) /\ WF_vars(HelperReads \/ HelperAnswers)
  /\ WF_vars(SshExits /\ ssh = "dying")

-----------------------------------------------------------------------------
\* Properties.

\* The lines in which brokre's reading of the words and ssh's agree: no "--"
\* in front of the host, no mux setting inside the remote command, and none
\* without a value, which ssh refuses.
NoMuxIn(words) ==
  \A i \in 1..Len(words) : words[i].name \notin {"ControlMaster", "ControlPath"}
Readable(line) ==
  /\ SshParse(line).host # <<>>
  /\ ~Contains(SubSeq(line, 1, TargetIndex("ssh", line) - 1), EndOfOptions)
  /\ NoMuxIn(SshParse(line).command)
  /\ ~Contains(line, Bare("ControlMaster"))

Built(profile) == pc = "choose" /\ Profile = profile

\* has_null_stdin_flag looks for the letters n and f in any option word, the
\* value of -oName=Value included.
Misread(line) ==
  \E i \in OptionIndices(line) :
    line[i].kind = "attached" /\ line[i].letters \cap {"n", "f"} # {}

\* Rewriting the words never changes where ssh connects or what it runs there,
\* the record's key is offered unless some word begins with -i, and a command
\* that reads its input gets the caller's unless it was asked not to: by MCP, by
\* --no-stdin or, in ssh's own terms, by -n, -f or StdinNull=yes; but for a line
\* with an option and its value in one word in which the code misreads such a
\* request, as in -oControlMaster=auto (ssh_identity.rs: five insertions, each at
\* a target index computed from the vector the earlier ones left).
ArgvFaithful ==
  Built("ssh") /\ Readable(Typed) =>
    /\ SshParse(argv).host = SshParse(Typed).host
    /\ SshParse(argv).command = SshParse(Typed).command
    /\ case.key => \/ \E i \in SshParse(argv).options : BeginsWithI(argv[i])
                   \/ \E i \in 1..Len(Typed) : BeginsWithI(Typed[i])
    /\ /\ ModeOf(Profile, Trailing, case.env) = "pipe"
       /\ DisconnectStdin(Profile, argv, Whole, Trailing, case.env)
       /\ ConsumesStdin(Trailing, Direct)
       => \/ case.env.mcp \/ Contains(Whole, Long("no-stdin"))
          \/ NoStdin(Typed) \/ Misread(Typed)

\* A plain remote command neither attaches to the shared master nor becomes
\* one, nor are the masters of other hosts ended for it, whatever mux options
\* the line has, as long as they are written as `-o Name=Value` and name both
\* the master and its path or neither (ssh_identity.rs, "Remote commands must
\* not attach to a mux master").  A login may well end them (PruneMux).
MuxVisible(line) ==
  /\ \A n \in {"ControlMaster", "ControlPath"} :
       \A i \in Sets(line, n) : line[i].kind = "setting"
  /\ Sets(line, "ControlMaster") = {} <=> Sets(line, "ControlPath") = {}
DetachedFromMux ==
  /\ Built("ssh") /\ Readable(Typed) /\ MuxVisible(Typed)
  /\ Trailing # <<>> /\ ~IsOuterTrailing(Trailing, Direct)
  => /\ Effective(argv, "ControlPath") = "none"
     /\ Effective(argv, "ControlMaster") = "no"
     /\ elsewhere = "alive"

\* The ssh of an exec that is gone does not run on, with two exceptions:
\* SIGTERM came when ssh had been forked and its group not yet registered, the
\* mutex held for the registration included (child_guard.rs, spawn and
\* on_sigterm); or the exec died of a signal brokre does not handle, SIGINT or
\* SIGHUP.  A SIGTERM at any other moment, the end of the exec and the SIGKILL
\* of a caller leave no ssh behind.
NoOrphan ==
  Dead /\ ssh = "runs" => struck \in {"register", "registering", "unhandled"}

\* The n-th secret ssh asks for is the n-th field of the record, the last one
\* from there on, also when other brokres tidy up meanwhile; but for one that
\* read the owner file before the pid was in it (pipe_exec.rs).
AskpassInTurn ==
  other # "misled" => \A n \in 1..Len(asked) : asked[n] = FieldAt(n - 1)

\* A call with a deadline returns, even when ssh never ends by itself and the
\* handler of the exec is stuck; only the orphan NoOrphan excepts can hold
\* the pipes it reads (transport.rs, run_on_bastion).
CallReturns ==
  caller = "waits" ~> (caller = "returned" \/ (Dead /\ ssh = "runs"))

=============================================================================
