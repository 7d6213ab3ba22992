---------------------------- MODULE SessionRelay ----------------------------
(***************************************************************************)
(* A routed session (brokre ssh b150::db): the client on the laptop and    *)
(* the agent on the bastion exchange frames over the two pipes of an ssh   *)
(* child. The agent runs the inner brokre under a PTY. One thread of the   *)
(* agent pumps the PTY's output into frames while another takes input      *)
(* frames to the PTY and the main thread waits for the child; a frame is   *)
(* two writes. The client has a thread for its stdin. The connection may   *)
(* be lost, and both processes may die, at any point.                      *)
(*                                                                         *)
(* The agent also understands resize and INT frames, which no client       *)
(* sends.                                                                  *)
(***************************************************************************)
EXTENDS Naturals, Sequences, SequencesExt

CONSTANTS
  Codes,    \* exit codes of the inner brokre
  Zero,     \* the one of success
  One,      \* 1, which the client also makes up; the inner brokre's own is left out
  MaxOut,   \* bound of the model: pieces of output
  MaxIn,    \* bound of the model: pieces of input
  Cap       \* what a pipe or a PTY holds, in writes

ASSUME BoundsAssumption == MaxOut \in Nat /\ MaxIn \in Nat /\ Cap \in Nat /\ Cap >= 2

\* An exit code is a number, and none of the words of a call or a child.
ASSUME CodesAssumption ==
  Zero \in Codes /\ {One, "none", "running", "killed", "error"} \cap Codes = {}

VARIABLES
  call,      \* what is asked for
  up,        \* frames on their way to the agent
  down,      \* writes on their way to the client
  cut,       \* whether the connection is lost
  client,    \* where the client is
  result,    \* what the call returns
  stdin,     \* the client's stdin thread
  typed,     \* pieces it has read
  agent,     \* where the agent's main thread is
  wlock,     \* who holds the agent's writer
  pump,      \* the thread that pumps output
  piece,     \* the piece it holds
  closed,    \* shared_connection_closed
  code,      \* what the main thread will say in its exit frame
  sink,      \* the thread that takes input to the PTY
  child,     \* "none", "running", "killed", or its exit code
  made,      \* pieces the child has written
  pty,       \* those not yet read from the PTY
  fed,       \* pieces of input that got to the PTY
  shown      \* pieces of output that the client wrote to its stdout

clientVars == <<client, result, stdin, typed, shown>>
pumpVars == <<pump, piece, closed>>
childVars == <<child, made, pty>>
vars == <<call, up, down, cut, clientVars, agent, code, wlock, pumpVars, sink, fed, childVars>>

\* A doctor call only says hello. forward: the client forwards its stdin;
\* elevated: the trailing arguments are of an elevated command.
Call == [doctor : BOOLEAN, forward : BOOLEAN, elevated : BOOLEAN, versions_agree : BOOLEAN]

\* Frames: hello, hello_ack, exec, error, EOF, and with a value data and exit.
Frame(kind, value) == [kind |-> kind, value |-> value]
Pieces == 1..MaxOut

\* The two writes of a frame: the length and the payload.
Half(i, frame) == <<i, frame>>

Error == "error"
NoResult == "none"
Results == Codes \cup {One, Error, NoResult}

UpFrames == [kind : {"hello", "exec", "data", "EOF"}, value : 0..MaxIn]
DownFrames ==
  [kind : {"hello_ack", "error", "data", "exit"}, value : Pieces \cup Codes \cup {0}]

Flags == call \in Call /\ cut \in BOOLEAN /\ closed \in BOOLEAN

Places ==
  /\ client \in {"hello", "ack", "exec", "eof", "relay", "wait", "done"}
  /\ result \in Results
  /\ stdin \in {"off", "read", "end"}
  /\ agent \in {"hello", "ack", "exec", "wait", "exit", "error", "gone"}
  /\ wlock \in {"free", "pump", "main"}
  /\ pump \in {"off", "read", "lock", "payload", "end"}
  /\ sink \in {"off", "read", "end"}
  /\ code \in Codes
  /\ child \in {"none", "running", "killed"} \cup Codes

Streams ==
  /\ up \in Seq(UpFrames) /\ down \in Seq({1, 2} \X DownFrames)
  /\ typed \in 0..MaxIn /\ fed \in Seq(1..MaxIn)
  /\ made \in 0..MaxOut /\ shown \in Seq(Pieces)
  /\ pty \in Seq(Pieces) /\ Len(pty) <= Cap
  /\ piece \in Pieces \cup {0}

TypeOK == Flags /\ Places /\ Streams

Init ==
  /\ call \in Call
  /\ up = <<>> /\ down = <<>> /\ cut = FALSE
  /\ client = "hello" /\ result = NoResult /\ stdin = "off" /\ typed = 0
  /\ agent = "hello" /\ wlock = "free" /\ code = Zero
  /\ pump = "off" /\ piece = 0 /\ closed = FALSE
  /\ sink = "off"
  /\ child = "none" /\ made = 0 /\ pty = <<>> /\ fed = <<>> /\ shown = <<>>

-----------------------------------------------------------------------------
(* The two pipes. *)

Ended == child \in Codes \cup {"killed"}

\* A side that has gone, or a lost connection, fails the other's writes.
UpBroken == cut \/ agent = "gone"
DownBroken == cut \/ client = "done"

\* Nothing more comes: read_frame returns None after what is there. (The
\* client's end of the pipe is closed when nobody holds its writer any more.)
UpEnds == cut \/ client = "done" \/ (client = "wait" /\ stdin # "read")
DownEnds == cut \/ agent = "gone"

SendUp(frame) == ~UpBroken /\ Len(up) < Cap /\ up' = Append(up, frame)
WriteDown(half) == ~DownBroken /\ Len(down) < Cap /\ down' = Append(down, half)

\* read_frame on either side. On the client it needs both writes of a frame,
\* and what is not a frame does not decode.
NextUp(kind) == up # <<>> /\ Head(up).kind = kind /\ up' = Tail(up)
Garbled == Len(down) >= 2 /\ down[2] # Half(2, down[1][2])
NextDown(frame) ==
  /\ Len(down) >= 2 /\ ~Garbled
  /\ down[1] = Half(1, frame)
  /\ down' = SubSeq(down, 3, Len(down))
NothingUp == up = <<>> /\ UpEnds
NothingDown == down = <<>> /\ DownEnds
TornDown == Len(down) = 1 /\ DownEnds

\* The connection is lost, and with it any of what was on its way.
Cut ==
  /\ ~cut
  /\ cut' = TRUE
  /\ \E n \in 0..Len(up) : up' = SubSeq(up, 1, n)
  /\ \E n \in 0..Len(down) : down' = SubSeq(down, 1, n)
  /\ UNCHANGED <<call, clientVars, agent, code, wlock, pumpVars, sink, fed, childVars>>

-----------------------------------------------------------------------------
(* The client: run_local_session, exec_route, doctor. *)

ClientGoes(step) == client' = step /\ UNCHANGED result
ClientFails == client' = "done" /\ result' = Error
AgentSide == <<call, cut, agent, code, wlock, pumpVars, sink, fed, childVars>>

SayHello ==
  /\ client = "hello"
  /\ \/ SendUp(Frame("hello", 0)) /\ ClientGoes("ack")
     \/ UpBroken /\ ClientFails /\ UNCHANGED up
  /\ UNCHANGED <<down, stdin, typed, shown, AgentSide>>

\* doctor closes the agent's stdin and waits for the end of ssh.
ReadAck ==
  /\ client = "ack"
  /\ \/ /\ NextDown(Frame("hello_ack", 0))
        /\ IF call.doctor THEN client' = "wait" /\ result' = Zero ELSE ClientGoes("exec")
     \/ (NothingDown \/ TornDown \/ Garbled) /\ ClientFails /\ UNCHANGED down
  /\ UNCHANGED <<up, stdin, typed, shown, AgentSide>>

SendExec ==
  /\ client = "exec"
  /\ \/ /\ SendUp(Frame("exec", 0))
        /\ ClientGoes(IF call.forward THEN "relay" ELSE "eof")
        /\ stdin' = IF call.forward THEN "read" ELSE "off"
     \/ UpBroken /\ ClientFails /\ UNCHANGED <<up, stdin>>
  /\ UNCHANGED <<down, typed, shown, AgentSide>>

SendEof ==
  /\ client = "eof"
  /\ \/ SendUp(Frame("EOF", 0)) /\ ClientGoes("relay")
     \/ UpBroken /\ ClientFails /\ UNCHANGED up
  /\ UNCHANGED <<down, stdin, typed, shown, AgentSide>>

\* The stdin thread: a piece, the end of stdin, or an error of either side.
ForwardStdin ==
  /\ stdin = "read" /\ client # "done"
  /\ \/ /\ typed < MaxIn
        /\ SendUp(Frame("data", typed + 1))
        /\ typed' = typed + 1
        /\ UNCHANGED stdin
     \/ SendUp(Frame("EOF", 0)) /\ stdin' = "end" /\ UNCHANGED typed
     \/ UpBroken /\ stdin' = "end" /\ UNCHANGED <<up, typed>>
  /\ UNCHANGED <<down, client, result, shown, AgentSide>>

\* Output goes to stdout.
ShowData ==
  /\ client = "relay"
  /\ \E n \in Pieces : NextDown(Frame("data", n)) /\ shown' = Append(shown, n)
  /\ UNCHANGED <<up, client, result, stdin, typed, AgentSide>>

\* The exit frame ends the session,
ReadExit ==
  /\ client = "relay"
  /\ \E c \in Codes : NextDown(Frame("exit", c)) /\ result' = c
  /\ client' = "wait"
  /\ UNCHANGED <<up, stdin, typed, shown, AgentSide>>

\* Mutant of ReadEnd: a stream that ends without an exit frame is a success.
ReadEnd_IsSuccess ==
  /\ client = "relay" /\ NothingDown
  /\ client' = "wait" /\ result' = Zero
  /\ UNCHANGED <<up, down, stdin, typed, shown, AgentSide>>

\* Mutant of ReadEnd: the loop goes on at the end of the stream.
ReadEnd_Ignored == client = "relay" /\ NothingDown /\ UNCHANGED vars

\* and so does the end of the stream, with code 1,
ReadEnd ==
  /\ client = "relay" /\ NothingDown
  /\ client' = "wait" /\ result' = One
  /\ UNCHANGED <<up, down, stdin, typed, shown, AgentSide>>

\* or an error frame, or one that is torn or does not decode.
ReadFailure ==
  /\ client = "relay"
  /\ \/ NextDown(Frame("error", 0))
     \/ (TornDown \/ Garbled) /\ UNCHANGED down
  /\ ClientFails
  /\ UNCHANGED <<up, stdin, typed, shown, AgentSide>>

\* child.wait(): ssh ends with the agent or with the connection.
WaitForSsh ==
  /\ client = "wait"
  /\ DownEnds
  /\ ClientGoes("done")
  /\ UNCHANGED <<up, down, stdin, typed, shown, AgentSide>>

\* The client's stdout fails, or the client is killed.
ClientDies ==
  /\ client # "done"
  /\ ClientFails
  /\ UNCHANGED <<up, down, stdin, typed, shown, AgentSide>>

ClientStep ==
  \/ SayHello \/ ReadAck \/ SendExec \/ SendEof
  \/ ShowData \/ ReadExit \/ ReadEnd \/ ReadFailure \/ WaitForSsh

-----------------------------------------------------------------------------
(* The agent: agent::run, run_agent_session. *)

ClientSide == <<call, cut, clientVars>>

\* A version that does not match ends the agent, without a frame.
ReadHello ==
  /\ agent = "hello"
  /\ \/ /\ NextUp("hello")
        /\ agent' = IF call.versions_agree THEN "ack" ELSE "gone"
     \/ NothingUp /\ agent' = "gone" /\ UNCHANGED up
  /\ UNCHANGED <<code, down, wlock, pumpVars, sink, fed, childVars, ClientSide>>

\* write_next: lock the writer, write the length, write the payload.
WriteFrame(frame, next) ==
  \/ /\ wlock = "free"
     /\ WriteDown(Half(1, frame))
     /\ wlock' = "main"
     /\ UNCHANGED agent
  \/ /\ wlock = "main"
     /\ WriteDown(Half(2, frame))
     /\ wlock' = "free"
     /\ agent' = next
  \/ /\ wlock \in {"free", "main"}
     /\ DownBroken
     /\ wlock' = "free"
     /\ agent' = "gone"
     /\ UNCHANGED down

WriteAck ==
  /\ agent = "ack"
  /\ WriteFrame(Frame("hello_ack", 0), "exec")
  /\ UNCHANGED <<code, up, pumpVars, sink, fed, childVars, ClientSide>>

\* The inner brokre is spawned with its two threads, or cannot be.
ReadExec ==
  /\ agent = "exec"
  /\ \/ /\ NextUp("exec")
        /\ \/ agent' = "wait" /\ child' = "running" /\ pump' = "read" /\ sink' = "read"
           \/ agent' = "error" /\ UNCHANGED <<child, pump, sink>>
     \/ NothingUp /\ agent' = "gone" /\ UNCHANGED <<up, child, pump, sink>>
  /\ UNCHANGED <<code, down, wlock, piece, closed, fed, made, pty, ClientSide>>

WriteError ==
  /\ agent = "error"
  /\ WriteFrame(Frame("error", 0), "gone")
  /\ UNCHANGED <<code, up, pumpVars, sink, fed, childVars, ClientSide>>

\* The poll loop. The child of an elevated session is killed, and its session
\* a success, once its output says that the shared connection was closed; when
\* the child ends by itself as well, either may be seen first.
PollChild ==
  /\ agent = "wait"
  /\ agent' = "exit"
  /\ \/ closed /\ code' = Zero /\ child' = IF Ended THEN child ELSE "killed"
     \/ child \in Codes /\ code' = child /\ UNCHANGED child
  /\ UNCHANGED <<up, down, wlock, pumpVars, sink, fed, made, pty, ClientSide>>

\* Nobody waits for the pump.
WriteExit ==
  /\ agent = "exit"
  /\ WriteFrame(Frame("exit", code), "gone")
  /\ UNCHANGED <<code, up, pumpVars, sink, fed, childVars, ClientSide>>

\* The agent is killed.
AgentDies ==
  /\ agent # "gone"
  /\ agent' = "gone"
  /\ UNCHANGED <<code, up, down, wlock, pumpVars, sink, fed, childVars, ClientSide>>

MainStep ==
  ReadHello \/ WriteAck \/ ReadExec \/ WriteError \/ PollChild \/ WriteExit

-----------------------------------------------------------------------------
(* The agent's other threads, which end with its process, and its child.   *)

MainSide == <<agent, code, up, sink, fed, ClientSide>>

\* pty_to_tunnel reads, and looks for the message in what it has read so far.
PumpRead ==
  /\ pump = "read" /\ agent # "gone"
  /\ \/ /\ pty # <<>>
        /\ piece' = Head(pty) /\ pty' = Tail(pty)
        /\ pump' = "lock"
        /\ \/ call.elevated /\ closed' = TRUE
           \/ UNCHANGED closed
     \/ pty = <<>> /\ Ended /\ pump' = "end" /\ UNCHANGED <<piece, pty, closed>>
  /\ UNCHANGED <<down, wlock, child, made, MainSide>>

\* Mutant of PumpLock: it writes without the lock.
PumpLock_None ==
  /\ pump = "lock" /\ agent # "gone"
  /\ \/ WriteDown(Half(1, Frame("data", piece))) /\ pump' = "payload"
     \/ DownBroken /\ pump' = "end" /\ UNCHANGED down
  /\ UNCHANGED <<wlock, piece, closed, childVars, MainSide>>

\* It locks the writer and writes the length,
PumpLock ==
  /\ pump = "lock" /\ agent # "gone"
  /\ wlock = "free"
  /\ \/ /\ WriteDown(Half(1, Frame("data", piece)))
        /\ pump' = "payload" /\ wlock' = "pump"
     \/ DownBroken /\ pump' = "end" /\ UNCHANGED <<down, wlock>>
  /\ UNCHANGED <<piece, closed, childVars, MainSide>>

\* and then the payload.
PumpPayload ==
  /\ pump = "payload" /\ agent # "gone"
  /\ \/ WriteDown(Half(2, Frame("data", piece))) /\ pump' = "read"
     \/ DownBroken /\ pump' = "end" /\ UNCHANGED down
  /\ wlock' = "free"
  /\ UNCHANGED <<piece, closed, childVars, MainSide>>

\* tunnel_to_pty: input goes to the PTY until EOF, the end of the stream, or
\* an error. Its end is the end of the child's input.
Sink ==
  /\ sink = "read" /\ agent # "gone"
  /\ \/ /\ up # <<>> /\ NextUp("data")
        /\ fed' = Append(fed, Head(up).value)
        /\ \/ UNCHANGED sink
           \/ Ended /\ sink' = "end"
     \/ NextUp("EOF") /\ sink' = "end" /\ UNCHANGED fed
     \/ NothingUp /\ sink' = "end" /\ UNCHANGED <<up, fed>>
  /\ UNCHANGED <<agent, code, down, wlock, pumpVars, childVars, ClientSide>>

\* The inner brokre writes to its PTY and exits.
ChildWrites ==
  /\ child = "running" /\ agent # "gone"
  /\ made < MaxOut /\ Len(pty) < Cap
  /\ made' = made + 1 /\ pty' = Append(pty, made + 1)
  /\ UNCHANGED <<child, down, wlock, pumpVars, MainSide>>

ChildExits ==
  /\ child = "running" /\ agent # "gone"
  /\ child' \in Codes
  /\ UNCHANGED <<made, pty, down, wlock, pumpVars, MainSide>>

-----------------------------------------------------------------------------
\* Both processes have ended.
Over == client = "done" /\ agent = "gone" /\ UNCHANGED vars

PumpStep == PumpRead \/ PumpLock \/ PumpPayload

Next ==
  \/ ClientStep \/ ForwardStdin \/ ClientDies
  \/ MainStep \/ AgentDies \/ PumpStep \/ Sink \/ ChildWrites \/ ChildExits
  \/ Cut \/ Over

\* Threads that can run do; humans need not type, children need not end.
Spec ==
  /\ Init /\ [][Next]_vars
  /\ WF_vars(ClientStep) /\ WF_vars(MainStep) /\ WF_vars(PumpStep) /\ WF_vars(Sink)

-----------------------------------------------------------------------------
(* Properties. *)

\* Frames of the pump and of the main thread never mix in the pipe: the client
\* can decode whatever it gets, up to a frame that the end of the agent tears.
FramesWhole == ~Garbled

\* What the client has written to its stdout is the child's output from its
\* beginning, in order, nothing missing and nothing twice, whatever was lost
\* or died.
OutputInOrder == IsPrefix(shown, [i \in 1..made |-> i])

\* So is what the child was fed of the client's stdin.
InputInOrder == IsPrefix(fed, [i \in 1..typed |-> i])

\* Whatever is lost or dies, both streams arrive as they were produced, up to a point.
StreamsInOrder == FramesWhole /\ OutputInOrder /\ InputInOrder

\* Except for the 1 that stands for a lost session, the client returns the
\* exit code of the inner brokre; 0 also when the output of an elevated session
\* said that the shared connection was closed. No session that was cut, killed
\* or torn is reported as a success.
ExitTruthful ==
  result \in Codes /\ ~call.doctor =>
    child = result \/ (result = Zero /\ call.elevated /\ closed)

\* The client returns once the inner brokre has ended, the agent has gone or
\* the connection is lost, and a doctor call always returns: no thread of
\* either side keeps them.
SessionEnds == Ended \/ DownEnds \/ call.doctor ~> client = "done"

=============================================================================
