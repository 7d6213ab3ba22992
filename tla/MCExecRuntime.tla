--------------------------- MODULE MCExecRuntime ---------------------------
(* An instance of ExecRuntime for TLC: command lines of every shape the      *)
(* rewriting tells apart, in the environments an exec is started in.         *)
EXTENDS ExecRuntime

Host     == Word("u@h", "address")
Plain(w) == Word(w, "plain")
Sudo     == Word("sudo", "sudo")
Shell    == Word("bash", "shell")

SavedArgs ==
  { <<Host>>,
    <<Flag("p"), Plain("22"), Host>>,
    Opt("ControlMaster", "auto") \o Opt("ControlPath", "own") \o <<Host>>,
    Opt("ControlMaster", "auto") \o <<Host>>,
    <<Flag("o"), Bare("ControlMaster"), Host>>,
    <<Attached("ControlMaster", "auto"), Host>>,
    <<Long("with-stdin"), Host>> }

Leading ==
  { <<>>, <<Flag("v")>>, <<Flag("i"), Plain("mykey")>>, <<Long("no-stdin")>>,
    <<Flag("n")>>, Opt("StdinNull", "yes"), <<EndOfOptions>> }

Commands ==
  { <<>>,
    <<Plain("uptime")>>,
    <<Sudo, Plain("id")>>,
    <<Shell, Flag("c"), Word("script", "escalates")>>,
    <<Word("cat", "reader")>>,
    <<Word("cat", "reader"), Long("no-stdin")>>,
    <<Plain("grep"), Flag("i"), Plain("x")>>,
    <<Flag("v")>>,
    <<Word("ssh", "ssh")>> \o Opt("ControlMaster", "auto") \o <<Plain("db")>>,
    <<Launcher, Word("ssh", "ssh"), Flag("t"), Plain("db")>> }

Env(inner, agent, mcp, stdin) ==
  [inner |-> inner, agent |-> agent, mcp |-> mcp, direct |-> FALSE, stdin |-> stdin]
Terminal == Env(FALSE, FALSE, FALSE, "tty")
Envs ==
  { Terminal, Env(FALSE, FALSE, FALSE, "pipe"), Env(FALSE, FALSE, TRUE, "null"),
    Env(TRUE, FALSE, FALSE, "tty"), Env(TRUE, TRUE, FALSE, "pipe") }

Case(profile, saved, leading, removed, trailing, env, hops, direct, key) ==
  [profile |-> profile, rec |-> [profile |-> "ssh", saved_args |-> saved],
   leading |-> leading, removed |-> removed, trailing |-> trailing, env |-> env,
   hops |-> hops, inner |-> Host, inner_record |-> direct, key |-> key]

SshCases ==
  { Case("ssh", s, l, <<>>, t, e, <<>>, FALSE, k) :
      s \in SavedArgs, l \in Leading, t \in Commands, e \in Envs, k \in BOOLEAN }

ScpCases ==
  { Case("scp", <<Host>>, l, <<Host>>, <<Plain("file")>>, Terminal, <<>>, FALSE, k) :
      l \in {<<>>, <<Flag("O")>>}, k \in BOOLEAN }

RoutedCases ==
  { Case("ssh", <<Host>>, <<>>, <<>>, t, Terminal, h, d, FALSE) :
      t \in {<<>>, <<Plain("uptime")>>, <<Sudo, Plain("id")>>},
      h \in {<<Plain("b1")>>, <<Plain("b1"), Plain("b2")>>}, d \in BOOLEAN }

MCCases  == SshCases \cup ScpCases \cup RoutedCases
MCFields == <<"key_passphrase", "password">>

=============================================================================
