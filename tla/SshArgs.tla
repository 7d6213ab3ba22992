------------------------------ MODULE SshArgs ------------------------------
(***************************************************************************)
(* How an exec of a saved record turns the words the user typed and the    *)
(* words stored with the record into the argument vector OpenSSH is        *)
(* started with, and which of the four ways of running it is taken         *)
(* (src/cli/exec.rs, src/runtime/ssh_identity.rs, src/runtime/             *)
(* pipe_exec.rs, src/bastion/route.rs).  An argument is a record: its      *)
(* text only matters as far as the code and ssh look at it.                *)
(***************************************************************************)
EXTENDS Naturals, Sequences, SequencesExt, FiniteSets

-----------------------------------------------------------------------------
\* Arguments.  kind "flag" is a dash and letters (-v, -tt), "attached" an
\* option letter with its value in one word (-p22, -oName=Value), "setting"
\* the Name=Value that follows a bare -o, "long" a double-dash word, "end"
\* the word "--", "word" anything else.  letters are the letters of the word
\* after its dash that some test of the code looks for.  A setting without a
\* value has the value "".
Arg(kind, letters, name, value) ==
  [kind |-> kind, letters |-> letters, name |-> name, value |-> value]

Flag(c)           == Arg("flag", {c}, c, "")
Setting(n, v)     == Arg("setting", {}, n, v)
Bare(n)           == Setting(n, "")                           \* -o n
Attached(n, v)    == Arg("attached", {"o", "n", "t"}, n, v)    \* -on=v
Long(n)           == Arg("long", {}, n, "")
EndOfOptions      == Arg("end", {}, "", "")
\* A word of the class the code sorts it in by its text: "brokre" the remote
\* launcher, "ssh", "address" (has an @ or a dot), "sudo" (sudo or su),
\* "escalates" (a script that calls one), "shell" (an interpreter), "reader"
\* (a program that reads its input), "joined" (a command line that
\* shell_join made one word of), or "plain".
Word(w, class)    == Arg("word", {}, w, class)

Dashed(a) == a.kind \in {"flag", "attached", "long", "end"}
Opt(n, v) == <<Flag("o"), Setting(n, v)>>

\* Option letters whose value is the next word: the union brokre uses for
\* ssh, scp and sftp, and what ssh itself takes.
TakesValue ==
  {"b", "c", "D", "E", "e", "F", "I", "i", "J", "L", "l", "m", "O", "o", "p",
   "P", "R", "S", "W", "w", "B", "s"}
SshTakesValue == TakesValue \ {"s"}

\* Mutant: only long options are taken to have a value in the next word.
ConsumesNext_LongOnly(profile, a) == a.kind = "long"

\* openssh_option_consumes_next_for_profile.
ConsumesNext(profile, a) ==
  \/ a.kind = "long"
  \/ /\ a.kind = "flag"
     /\ a.letters \subseteq TakesValue
     /\ ~(profile = "scp" /\ a = Flag("O"))

\* connection_target_index_for_profile: one past the end if there is none.
TargetIndex(profile, argv) ==
  LET from[i \in 1..Len(argv) + 2] ==
        IF i > Len(argv) THEN Len(argv) + 1
        ELSE IF argv[i] = EndOfOptions
             THEN IF i < Len(argv) THEN i + 1 ELSE Len(argv) + 1
        ELSE IF ~Dashed(argv[i]) THEN i
        ELSE from[i + (IF ConsumesNext(profile, argv[i]) THEN 2 ELSE 1)]
  IN from[1]

After(argv, i)  == SubSeq(argv, i + 1, Len(argv))
Before(argv, i) == SubSeq(argv, 1, i - 1)
Splice(argv, i, s) == Before(argv, i) \o s \o SubSeq(argv, i, Len(argv))
InsertBeforeTarget(profile, argv, s) ==
  Splice(argv, TargetIndex(profile, argv), s)

\* has_openssh_option_prefix: anywhere in the vector, the scan steps over
\* the value of every bare -o.
SettingIndices(argv) ==
  LET from[i \in 1..Len(argv) + 2] ==
        IF i >= Len(argv) THEN {}
        ELSE IF argv[i] = Flag("o") THEN {i + 1} \cup from[i + 2]
        ELSE from[i + 1]
  IN from[1]
GivesSetting(a, n) == a.kind = "setting" /\ a.name = n /\ a # Bare(n)
HasSetting(argv, n) == \E i \in SettingIndices(argv) : GivesSetting(argv[i], n)

\* has_openssh_option_exact is asked for ControlMaster only.
HasMuxOptions(argv) ==
  \/ HasSetting(argv, "ControlPath") \/ HasSetting(argv, "ControlMaster")
  \/ \E i \in SettingIndices(argv) : argv[i] = Bare("ControlMaster")

-----------------------------------------------------------------------------
\* What follows the target.

\* routed_bastion_user_trailing: the user's command behind a bastion's own
\* brokre, or behind a plain ssh the bastion runs (direct is the environment
\* variable of the direct mode); FALSE in `ok` when the words are not routed.
SkipTty(s, i) == IF i <= Len(s) /\ s[i] = Flag("t") THEN i + 1 ELSE i

IsBrokreTrailing(t) == t # <<>> /\ t[1].value = "brokre"

DirectTarget(t) ==
  IF t = <<>> \/ t[1].value # "ssh" THEN 0
  ELSE LET from[i \in 2..Len(t) + 2] ==
             IF i > Len(t) THEN 0
             ELSE IF t[i] = Flag("t") THEN from[i + 1]
             ELSE IF t[i] = Flag("o") /\ i < Len(t) THEN from[i + 2]
             ELSE IF Dashed(t[i]) THEN 0 ELSE i
       IN from[2]

IsDirectTrailing(t, direct) ==
  /\ direct
  /\ DirectTarget(t) # 0 /\ t[DirectTarget(t)].value = "address"

IsOuterTrailing(t, direct) == IsBrokreTrailing(t) \/ IsDirectTrailing(t, direct)

RoutedUser(t, direct) ==
  IF IsBrokreTrailing(t)
  THEN LET i == SkipTty(t, 3)
       IN IF Len(t) < 2 \/ t[2].value # "ssh" \/ i > Len(t) \/ Dashed(t[i])
          THEN [ok |-> FALSE, cmd |-> <<>>]
          ELSE [ok |-> TRUE, cmd |-> After(t, i)]
  ELSE IF IsDirectTrailing(t, direct)
  THEN [ok |-> TRUE, cmd |-> After(t, DirectTarget(t))]
  ELSE [ok |-> FALSE, cmd |-> <<>>]

IsInteractiveRoute(t, direct) ==
  RoutedUser(t, direct).ok /\ RoutedUser(t, direct).cmd = <<>>

UserCommand(t, direct) ==
  IF RoutedUser(t, direct).ok THEN RoutedUser(t, direct).cmd ELSE t

\* remote_command_needs_tty: sudo or su, in the word, in the only word, or in
\* the script of a `sh -c`.
NeedsTty(t, direct) ==
  LET u == UserCommand(t, direct)
  IN /\ u # <<>>
     /\ \/ u[1].value = "sudo"
        \/ Len(u) = 1 /\ u[1].value = "escalates"
        \/ /\ Len(u) >= 3 /\ u[1].value = "shell" /\ u[2] = Flag("c")
           /\ u[3].value \in {"sudo", "escalates"}

\* remote_command_consumes_stdin.
ConsumesStdin(t, direct) ==
  LET u == UserCommand(t, direct)
  IN /\ u # <<>>
     /\ \/ u[1].value = "reader"
        \/ /\ u[1].value = "shell"
           /\ ~\E i \in 1..Len(u) : u[i] \in {Flag("c"), Flag("e")}

-----------------------------------------------------------------------------
\* The rewriting, in the order exec_saved applies it.

\* ResolvedArgv::compose_argv; removed is the argument the alias was, kept
\* (with its host replaced) only for a file transfer.
ComposeArgv(profile, rec, leading, removed, trailing) ==
  IF profile \in {"scp", "sftp"} THEN leading \o removed \o trailing
  ELSE IF rec.profile = profile THEN leading \o rec.saved_args \o trailing
  ELSE leading \o trailing

\* strip_brokre_ssh_flags.
Stripped(argv) ==
  SelectSeq(argv, LAMBDA a : a \notin {Long("no-stdin"), Long("with-stdin")})

\* has_tty_request_flag, has_disable_tty_flag, has_null_stdin_flag: only in
\* front of the target of an ssh vector; a bare -o and its value are one.
OptionIndices(argv) ==
  LET end == TargetIndex("ssh", argv)
      from[i \in 1..Len(argv) + 2] ==
        IF i >= end THEN {}
        ELSE {i} \cup from[IF argv[i] = Flag("o") /\ i + 1 < end
                           THEN i + 2 ELSE i + 1]
  IN from[1]
ShortLetter(a, c) == a.kind \in {"flag", "attached"} /\ c \in a.letters
FrontSetting(argv, i, n) ==
  /\ argv[i] = Flag("o") /\ i + 1 < TargetIndex("ssh", argv)
  /\ GivesSetting(argv[i + 1], n)
HasTtyFlag(argv) ==
  \E i \in OptionIndices(argv) :
    \/ ShortLetter(argv[i], "t")
    \/ FrontSetting(argv, i, "RequestTTY") /\ argv[i + 1].value # "no"
HasNoTtyFlag(argv) ==
  \E i \in OptionIndices(argv) :
    \/ argv[i] = Flag("T")
    \/ FrontSetting(argv, i, "RequestTTY") /\ argv[i + 1].value = "no"
HasNullStdin(argv) ==
  \E i \in OptionIndices(argv) :
    \/ ShortLetter(argv[i], "n") \/ ShortLetter(argv[i], "f")
    \/ FrontSetting(argv, i, "StdinNull") /\ argv[i + 1].value = "yes"

\* apply_openssh_tty_argv_adjustments.
WithTty(profile, argv, t, direct) ==
  IF /\ profile = "ssh"
     /\ t = <<>> \/ NeedsTty(t, direct) \/ IsInteractiveRoute(t, direct)
     /\ ~HasTtyFlag(argv) /\ ~HasNoTtyFlag(argv)
  THEN InsertBeforeTarget("ssh", argv, <<Flag("t")>>)
  ELSE argv

\* insert_default_ssh_timeouts, the three settings taken as one.
WithTimeouts(profile, argv) ==
  IF HasSetting(argv, "ConnectTimeout") THEN argv
  ELSE InsertBeforeTarget(profile, argv, Opt("ConnectTimeout", "5"))

HasRemoteCommand(profile, argv) == Len(argv) > TargetIndex(profile, argv)

\* remote_command_detaches_mux.
DetachesMux(profile, argv, direct) ==
  /\ HasRemoteCommand(profile, argv)
  /\ LET t == After(argv, TargetIndex(profile, argv))
     IN ~(IsInteractiveRoute(t, direct) \/ IsOuterTrailing(t, direct))

\* force_control_master_no, force_control_path_none: the first `-o n=` only.
ForceSetting(argv, n, v) ==
  LET at == {i \in 2..Len(argv) :
               argv[i - 1] = Flag("o") /\ GivesSetting(argv[i], n)}
  IN IF at = {} THEN argv
     ELSE [argv EXCEPT ![CHOOSE i \in at : \A j \in at : i <= j] = Setting(n, v)]

\* Mutant: a line with mux options of its own is left as it is.
WithMux_KeepsOwn(profile, argv, direct) ==
  IF HasMuxOptions(argv) THEN argv
  ELSE InsertBeforeTarget(profile, argv,
         IF DetachesMux(profile, argv, direct)
         THEN Opt("ControlPath", "none") \o Opt("ControlMaster", "no")
         ELSE Opt("ControlPath", "shared") \o Opt("ControlMaster", "auto"))

\* insert_mux_options_for_profile.
WithMux(profile, argv, direct) ==
  LET detach == DetachesMux(profile, argv, direct)
      master == IF HasRemoteCommand(profile, argv) THEN "no" ELSE "auto"
  IN IF HasMuxOptions(argv)
     THEN IF detach
          THEN ForceSetting(ForceSetting(argv, "ControlMaster", "no"),
                            "ControlPath", "none")
          ELSE IF HasRemoteCommand(profile, argv)
          THEN ForceSetting(argv, "ControlMaster", "no")
          ELSE argv
     ELSE InsertBeforeTarget(profile, argv,
            IF detach
            THEN Opt("ControlPath", "none") \o Opt("ControlMaster", "no")
            ELSE Opt("ControlPersist", "300") \o Opt("ControlPath", "shared")
                 \o Opt("ControlMaster", master))

\* insert_identity_arg_for_profile: an argument that begins with -i anywhere
\* in the vector counts as an identity.
BeginsWithI(a) == a.kind \in {"flag", "attached"} /\ a.name = "i"
WithIdentity(profile, argv) ==
  IF \E i \in 1..Len(argv) : BeginsWithI(argv[i]) THEN argv
  ELSE InsertBeforeTarget(profile, argv, <<Flag("i"), Word("keyfile", "plain")>>)

-----------------------------------------------------------------------------
\* The vectors of the multiplexed session.

\* build_mux_master_argv: the options in front of the target, without the
\* terminal requests, and -N -f instead of the remote command.
MasterArgv(argv) ==
  LET end   == TargetIndex("ssh", argv)
      front == SelectSeq(Before(argv, end), LAMBDA a : a # Flag("t"))
      yes   == [i \in 1..Len(front) |->
                  IF GivesSetting(front[i], "ControlMaster")
                  THEN Setting("ControlMaster", "yes") ELSE front[i]]
  IN yes \o SubSeq(argv, end, IF end <= Len(argv) THEN end ELSE Len(argv))
         \o <<Flag("N"), Flag("f")>>

\* build_mux_session_argv.
SessionArgv(argv) ==
  [i \in 1..Len(argv) |-> IF argv[i] = Setting("ControlMaster", "auto")
                          THEN Setting("ControlMaster", "no") ELSE argv[i]]

\* scp_args_without_legacy_mode.
WithoutLegacy(argv) == SelectSeq(argv, LAMBDA a : a # Flag("O"))

-----------------------------------------------------------------------------
\* Routed commands.

\* shell_join: one word; what the code sees in it is whether it calls sudo.
Joined(words) ==
  Word("command", IF \E i \in 1..Len(words) :
                       words[i].value \in {"sudo", "escalates"}
                  THEN "escalates" ELSE "joined")

Launcher == Word("launcher", "brokre")

\* build_routed_local_argv.
RoutedLocalArgv(hops, inner, trailing) ==
  LET t    == IF trailing = <<>> \/ NeedsTty(trailing, FALSE)
              THEN <<Flag("t")>> ELSE <<>>
      exec == <<Launcher, Word("ssh", "ssh")>> \o t \o <<inner>> \o trailing
      wrap[k \in 1..Len(hops)] ==
        IF k = Len(hops) THEN exec
        ELSE <<Launcher, Word("ssh", "ssh"), hops[k + 1], Joined(wrap[k + 1])>>
  IN <<hops[1], Joined(wrap[1])>>

\* build_routed_direct_inner_argv.
RoutedDirectArgv(hops, target, trailing) ==
  <<hops[1], Joined(<<Word("ssh", "ssh"), Flag("t"), target>> \o trailing)>>

-----------------------------------------------------------------------------
\* Choice of the way to run.  env holds the environment of the process:
\* inner (BROKRE_ROUTED_INNER), agent (BROKRE_TUNNEL_AGENT_INNER), mcp
\* (BROKRE_MCP_EXEC), direct (BROKRE_ROUTED_INNER_ALIAS), and stdin, which is
\* "tty", "pipe" or "null".

\* should_use_pipe_mode; t is empty when there is no remote command.
PipeMode(profile, t, env) ==
  \/ profile \in {"scp", "sftp"}
  \/ /\ profile = "ssh"
     /\ ~IsInteractiveRoute(t, env.direct)
     /\ ~IsOuterTrailing(t, env.direct)
     /\ IF env.inner
        THEN env.agent /\ t # <<>> /\ ~NeedsTty(t, env.direct)
        ELSE /\ ~NeedsTty(t, env.direct)
             /\ t # <<>> \/ env.mcp \/ env.stdin = "pipe"

\* The dispatch at the end of exec_saved.
ModeOf(profile, t, env) ==
  IF profile = "ssh" /\ env.inner /\ t = <<>> /\ env.stdin = "tty"
  THEN "inherited"
  ELSE IF /\ profile = "ssh" /\ ~env.inner /\ env.stdin = "tty"
          /\ IsInteractiveRoute(t, env.direct)
  THEN "mux"
  ELSE IF PipeMode(profile, t, env) THEN "pipe" ELSE "pty"

\* should_disconnect_stdin: the flags of brokre count wherever they stand in
\* the whole vector, from which strip_brokre_ssh_flags has taken them.
DisconnectStdin(profile, argv, whole, t, env) ==
  /\ ~Contains(whole, Long("with-stdin"))
  /\ \/ Contains(whole, Long("no-stdin")) \/ HasNullStdin(argv) \/ env.mcp
     \/ /\ profile = "ssh" /\ t # <<>>
        /\ ~NeedsTty(t, env.direct) /\ ~ConsumesStdin(t, env.direct)

-----------------------------------------------------------------------------
\* What OpenSSH makes of a vector: options up to the host, options again
\* behind it unless "--" ended them, the rest the remote command; the first
\* value of a setting counts.
SshTakes(a) == a.kind = "flag" /\ a.letters \subseteq SshTakesValue
SshSkip(argv, start) ==
  LET from[i \in 1..Len(argv) + 2] ==
        IF i > Len(argv) \/ argv[i] = EndOfOptions \/ ~Dashed(argv[i])
        THEN i
        ELSE from[i + (IF SshTakes(argv[i]) THEN 2 ELSE 1)]
  IN from[start]

SshParse(argv) ==
  LET stop    == SshSkip(argv, 1)
      ended   == stop <= Len(argv) /\ argv[stop] = EndOfOptions
      host    == IF ended THEN stop + 1 ELSE stop
      again   == IF ended THEN host + 1 ELSE SshSkip(argv, host + 1)
      command == IF again <= Len(argv) /\ argv[again] = EndOfOptions
                 THEN again + 1 ELSE again
  IN [host    |-> IF host <= Len(argv) THEN <<argv[host]>> ELSE <<>>,
      options |-> (1..stop - 1) \cup (host + 1..again - 1),
      command |-> IF host <= Len(argv) THEN SubSeq(argv, command, Len(argv)) ELSE <<>>]

\* The indices at which an option of the vector sets n.
Sets(argv, n) ==
  {i \in SshParse(argv).options :
     \/ argv[i].kind = "attached" /\ argv[i].name = n
     \/ /\ argv[i].kind = "setting" /\ argv[i].name = n
        /\ i > 1 /\ argv[i - 1] = Flag("o")}

\* The value that counts, "unset" when ssh's configuration decides.
Effective(argv, n) ==
  LET at == Sets(argv, n)
  IN IF at = {} THEN "unset"
     ELSE argv[CHOOSE i \in at : \A j \in at : i <= j].value

\* The line asks ssh itself for no input: -n, -f or StdinNull=yes.
NoStdin(argv) ==
  \/ Effective(argv, "StdinNull") = "yes"
  \/ \E i \in SshParse(argv).options :
       /\ argv[i].kind = "flag" /\ argv[i].letters \cap {"n", "f"} # {}
       /\ i = 1 \/ ~SshTakes(argv[i - 1])

=============================================================================
