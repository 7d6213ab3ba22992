------------------------ MODULE SessionRelay_proofs ------------------------
(***************************************************************************)
(* Proofs about SessionRelay: types, that frames stay whole and both       *)
(* streams arrive in order, and that a session's exit code is its child's. *)
(***************************************************************************)
EXTENDS SessionRelay, SequenceTheorems, TLAPS

\* The way from the agent to the client still works.
Open == ~cut /\ client # "done" /\ agent # "gone"

\* A length is followed by its own payload, and data only follows data, the
\* next piece.
Follows(h, k) ==
  IF h[1] = 1 THEN k = Half(2, h[2])
  ELSE /\ k[1] = 1
       /\ k[2].kind = "data" => h[2].kind = "data" /\ k[2].value = h[2].value + 1

Chained ==
  /\ \A i \in 1..(Len(down) - 1) : Follows(down[i], down[i + 1])
  /\ down # <<>> => down[1][1] = 1

\* Input is numbered from the exec frame, of which there is one.
FollowsUp(f, g) ==
  /\ g.kind # "exec"
  /\ g.kind = "data" =>
       \/ f.kind = "exec" /\ g.value = 1
       \/ f.kind = "data" /\ g.value = f.value + 1

ChainedUp == \A i \in 1..(Len(up) - 1) : FollowsUp(up[i], up[i + 1])

\* The frame that the main thread writes.
Saying ==
  IF agent = "ack" THEN Frame("hello_ack", 0)
  ELSE IF agent = "error" THEN Frame("error", 0)
  ELSE Frame("exit", code)

\* Who holds the writer has written the first half of its frame.
Locked ==
  /\ agent # "gone" =>
       /\ wlock = "pump" <=> pump = "payload"
       /\ wlock = "main" => agent \in {"ack", "error", "exit"}
  /\ Open =>
       /\ wlock = "free" <=> down = <<>> \/ Last(down)[1] = 2
       /\ wlock = "main" => Last(down) = Half(1, Saying)
       /\ wlock = "pump" => Last(down) = Half(1, Frame("data", piece))

\* Nothing happens before it is asked for: the hello, its answer, the exec.
Early ==
  /\ agent \in {"hello", "ack", "exec"} =>
       /\ child = "none" /\ pump = "off" /\ sink = "off"
       /\ made = 0 /\ pty = <<>> /\ fed = <<>> /\ shown = <<>>
  /\ call.doctor => client \in {"hello", "ack", "wait", "done"}
  /\ call.doctor \/ client \in {"hello", "ack", "exec"} =>
       /\ agent \in {"hello", "ack", "exec", "gone"}
       /\ \A f \in ToSet(up) : f.kind = "hello"
  /\ client = "hello" => up = <<>> /\ down = <<>> /\ agent \in {"hello", "gone"}
  /\ client = "ack" =>
       /\ Len(up) <= 1 /\ Len(down) <= 2
       /\ agent \notin {"hello", "gone"} \/ down # <<>> => up = <<>>
  /\ client = "exec" => up = <<>> /\ down = <<>>
  /\ client \in {"exec", "eof", "relay"} => agent \notin {"hello", "ack"}
  /\ client \in {"eof", "relay"} /\ agent = "exec" => down = <<>>
  /\ agent = "hello" => down = <<>>
  /\ agent = "ack" => Len(down) <= 1
  /\ call.doctor \/ client \in {"hello", "ack", "exec", "eof"} => stdin = "off"
  /\ stdin = "off" => typed = 0
  /\ client = "wait" /\ Open => call.doctor

\* Pieces are on their way after what was shown, and none before it was made.
OnTheWay ==
  /\ down # <<>> /\ down[1][2].kind = "data" => down[1][2].value = Len(shown) + 1
  /\ \A h \in ToSet(down) : h[2].kind = "data" => h[2].value \in 1..made
  /\ Len(shown) <= made
  /\ \A i \in 1..Len(shown) : shown[i] = i

\* The last piece that was sent, and the last that left the PTY.
Sent == IF down = <<>> THEN Len(shown) ELSE Last(down)[2].value
Held == IF pump = "lock" THEN Sent + 1 ELSE Sent

Pumped ==
  Open /\ wlock # "main" /\ pump \in {"read", "lock", "payload"} =>
    /\ down # <<>> => Last(down)[2].kind = "data"
    /\ pump # "read" => piece = Held
    /\ made = Held + Len(pty)
    /\ \A i \in 1..Len(pty) : pty[i] = Held + i

\* The same of the input.
Typed ==
  /\ up # <<>> =>
       /\ up[1].kind = "exec" => sink = "off" /\ fed = <<>>
       /\ up[1].kind = "data" => up[1].value = Len(fed) + 1
  /\ \A f \in ToSet(up) : f.kind = "data" => f.value <= typed
  /\ Len(fed) <= typed
  /\ \A i \in 1..Len(fed) : fed[i] = i
  /\ stdin = "read" /\ ~UpBroken /\ client # "done" =>
       IF up = <<>> THEN typed = Len(fed)
       ELSE \/ Last(up).kind = "exec" /\ typed = 0
            \/ Last(up).kind = "data" /\ typed = Last(up).value

\* c is the child's exit code, or the 0 of a closed shared connection.
Told(c) == child = c \/ (c = Zero /\ call.elevated /\ closed)

Truthful ==
  /\ closed => call.elevated
  /\ agent = "exit" => Told(code)
  /\ \A h \in ToSet(down) :
       /\ h[2].kind = "exit" => h[2].value \in Codes /\ Told(h[2].value)
       /\ h[2].kind \in {"exit", "error"} /\ h[1] = 2 => agent = "gone"
  /\ result \in Codes /\ ~call.doctor => Told(result)

IInv ==
  /\ TypeOK
  /\ Chained /\ ChainedUp
  /\ Locked /\ Early
  /\ OnTheWay /\ Pumped /\ Typed
  /\ Truthful

-----------------------------------------------------------------------------
(* The pipes. *)

Writes == {1, 2} \X DownFrames

\* A read of a frame takes its two writes from the front.
Popped(frame) ==
  /\ down' \in Seq(Writes) /\ down # <<>>
  /\ Len(down) \in Nat /\ Len(down) >= 2 /\ Len(down') = Len(down) - 2
  /\ down[1] = <<1, frame>>
  /\ <<1, frame>> \in ToSet(down) /\ <<2, frame>> \in ToSet(down)
  /\ ToSet(down') \subseteq ToSet(down)
  /\ down' # <<>> =>
       /\ Last(down') = Last(down)
       /\ down'[1][2].kind = "data" =>
            frame.kind = "data" /\ down'[1][2].value = frame.value + 1
  /\ down' = <<>> <=> Len(down) = 2
  /\ down' = <<>> => Last(down) = <<2, frame>>
  /\ Chained'

LEMMA PopDown ==
  ASSUME TypeOK, Chained, NEW frame, NextDown(frame)
  PROVE  Popped(frame)
<1> USE DEF NextDown, Garbled, Half, ToSet, Last
<1>1. down \in Seq(Writes) /\ Len(down) \in Nat /\ DOMAIN down = 1..Len(down)
  BY LenProperties DEF TypeOK, Streams, Writes
<1>2. Len(down) >= 2 /\ down # <<>> /\ down[1] = <<1, frame>> /\ down[2] = <<2, frame>>
  BY <1>1
<1>3. \A i \in 3..Len(down) : down[i] \in Writes
  BY <1>1, ElementOfSeq
<1>4. down' = SubSeq(down, 3, Len(down))
  OBVIOUS
<1>5. /\ down' \in Seq(Writes)
      /\ Len(down') = Len(down) - 2
      /\ \A i \in 1..(Len(down) - 2) : down'[i] = down[i + 2]
  <2> HIDE DEF NextDown, Garbled, ToSet, Last
  <2>1. /\ SubSeq(down, 3, Len(down)) \in Seq(Writes)
        /\ Len(SubSeq(down, 3, Len(down))) =
             IF 3 <= Len(down) THEN Len(down) - 3 + 1 ELSE 0
        /\ \A i \in 1..(Len(down) - 3 + 1) :
             SubSeq(down, 3, Len(down))[i] = down[3 + i - 1]
    BY <1>1, <1>3, SubSeqProperties
  <2>2. \A i \in 1..(Len(down) - 2) :
          i \in 1..(Len(down) - 3 + 1) /\ 3 + i - 1 = i + 2
    BY <1>1
  <2> QED BY <1>1, <1>2, <1>4, <2>1, <2>2
<1>6. Len(down') \in Nat /\ DOMAIN down' = 1..Len(down')
  BY <1>5, LenProperties
<1>7. /\ ToSet(down') \subseteq ToSet(down)
      /\ <<1, frame>> \in ToSet(down) /\ <<2, frame>> \in ToSet(down)
  <2>1. 1 \in DOMAIN down /\ 2 \in DOMAIN down
    BY <1>1, <1>2
  <2>2. ASSUME NEW i \in DOMAIN down'
        PROVE  i + 2 \in DOMAIN down /\ down'[i] = down[i + 2]
    BY <1>1, <1>5, <1>6
  <2> QED BY <1>2, <2>1, <2>2
<1>8. ASSUME NEW i \in 1..(Len(down') - 1)
      PROVE  Follows(down'[i], down'[i + 1])
  <2>1. i + 2 \in 1..(Len(down) - 1) /\ i \in 1..(Len(down) - 2)
        /\ i + 1 \in 1..(Len(down) - 2)
    BY <1>1, <1>5
  <2>2. down'[i] = down[i + 2] /\ down'[i + 1] = down[(i + 2) + 1]
    BY <2>1, <1>5
  <2> QED BY <2>1, <2>2 DEF Chained
<1>9. ASSUME down' # <<>>
      PROVE  Follows(<<2, frame>>, down'[1]) /\ down'[1][1] = 1 /\ Last(down') = Last(down)
  <2>1. Len(down) >= 3
    BY <1>1, <1>5, <1>9, EmptySeq
  <2>2. down'[1] = down[2 + 1] /\ down'[Len(down')] = down[Len(down)]
    BY <1>1, <1>5, <2>1
  <2>3. Follows(<<2, frame>>, down'[1])
    BY <1>1, <1>2, <2>1, <2>2 DEF Chained
  <2> QED BY <2>2, <2>3 DEF Follows
<1>10. down' = <<>> => Last(down) = <<2, frame>> /\ Len(down) = 2
  <2>1. ASSUME down' = <<>>
        PROVE  Len(down) = 2
    <3>1. Len(down') = 0
      BY <2>1
    <3> QED BY <1>1, <1>5, <3>1
  <2> QED BY <1>2, <2>1
<1>11. Len(down) = 2 => down' = <<>>
  BY <1>5, EmptySeq
<1> HIDE DEF NextDown, Garbled, ToSet, Last
<1> QED BY <1>1, <1>2, <1>5, <1>7, <1>8, <1>9, <1>10, <1>11 DEF Chained, Popped, Follows

\* A write goes to the end, while both ends are there.
Put(half) ==
  /\ ~cut /\ client # "done"
  /\ down' \in Seq(Writes) /\ down' # <<>>
  /\ Len(down) \in Nat /\ Len(down') = Len(down) + 1 /\ (down = <<>> <=> Len(down) = 0)
  /\ ToSet(down') = ToSet(down) \cup {half}
  /\ Last(down') = half
  /\ down # <<>> => Last(down) \in ToSet(down) /\ Last(down) \in Writes
  /\ down'[1] = IF down = <<>> THEN half ELSE down[1]
  /\ (IF down = <<>> THEN half[1] = 1 ELSE Follows(Last(down), half)) => Chained'

LEMMA PutDown ==
  ASSUME TypeOK, Chained, NEW half \in Writes, WriteDown(half)
  PROVE  Put(half)
<1>1. down \in Seq(Writes) /\ Len(down) \in Nat /\ DOMAIN down = 1..Len(down)
  BY LenProperties DEF TypeOK, Streams, Writes
<1>2. /\ down' \in Seq(Writes) /\ down' # <<>>
      /\ Len(down') = Len(down) + 1
      /\ \A i \in 1..Len(down) : down'[i] = down[i]
      /\ down'[Len(down) + 1] = half
  BY <1>1, AppendProperties DEF WriteDown
<1>3. DOMAIN down' = 1..(Len(down) + 1)
  BY <1>2, LenProperties
<1>4. ToSet(down') = ToSet(down) \cup {half}
  BY <1>1, <1>2, <1>3 DEF ToSet
<1>5. Last(down') = half
  BY <1>2 DEF Last
<1>6. down = <<>> <=> Len(down) = 0
  BY <1>1, EmptySeq
<1>7. down'[1] = IF down = <<>> THEN half ELSE down[1]
  BY <1>1, <1>2, <1>6
<1>8. ASSUME IF down = <<>> THEN half[1] = 1 ELSE Follows(Last(down), half)
      PROVE  Chained'
  <2>0. Len(down') - 1 = Len(down)
    BY <1>1, <1>2
  <2>1. ASSUME NEW i \in 1..Len(down)
        PROVE  Follows(down'[i], down'[i + 1])
    <3>1. CASE i = Len(down)
      BY <1>1, <1>2, <1>6, <1>8, <3>1 DEF Last
    <3>2. CASE i # Len(down)
      <4>0. Len(down) \in Nat
        BY <1>1
      <4>1. i \in 1..(Len(down) - 1)
        BY <4>0, <3>2
      <4>2. i \in 1..Len(down) /\ i + 1 \in 1..Len(down)
        BY <1>1, <4>1
      <4> QED BY <1>2, <4>1, <4>2 DEF Chained
    <3> QED BY <3>1, <3>2
  <2> QED BY <1>7, <1>8, <2>0, <2>1 DEF Chained, Follows
<1>9. down # <<>> => Last(down) \in ToSet(down) /\ Last(down) \in Writes
  BY <1>1, <1>6, ElementOfSeq DEF Last, ToSet
<1> QED BY <1>1, <1>2, <1>4, <1>5, <1>6, <1>7, <1>8, <1>9 DEF WriteDown, DownBroken, Put

\* The agent takes whole frames.
PoppedUp(kind) ==
  /\ up' \in Seq(UpFrames) /\ up # <<>>
  /\ Len(up) \in Nat /\ Len(up') = Len(up) - 1 /\ (up' = <<>> <=> Len(up) = 1)
  /\ ToSet(up') \subseteq ToSet(up)
  /\ up[1] \in ToSet(up) /\ up[1] \in UpFrames /\ up[1] = Head(up)
  /\ up[1].kind = kind
  /\ up' # <<>> =>
       /\ Last(up') = Last(up)
       /\ FollowsUp(up[1], up'[1])
  /\ up' = <<>> => Last(up) = up[1]
  /\ ChainedUp'

LEMMA PopUp ==
  ASSUME TypeOK, ChainedUp, NEW kind, NextUp(kind)
  PROVE  PoppedUp(kind)
<1>1. up \in Seq(UpFrames) /\ up # <<>> /\ up' = Tail(up) /\ Head(up).kind = kind
  BY DEF NextUp, TypeOK, Streams
<1>2. /\ Head(up) = up[1] /\ Len(up) \in Nat /\ Len(up) >= 1 /\ up[1] \in UpFrames
      /\ DOMAIN up = 1..Len(up)
  BY <1>1, EmptySeq, LenProperties
<1>3. /\ up' \in Seq(UpFrames) /\ Len(up') = Len(up) - 1
      /\ \A i \in 1..(Len(up) - 1) : up'[i] = up[i + 1]
  BY <1>1, <1>2, HeadTailProperties
<1>4. DOMAIN up' = 1..(Len(up) - 1)
  BY <1>3, LenProperties
<1>5. ToSet(up') \subseteq ToSet(up) /\ up[1] \in ToSet(up)
  <2>1. 1 \in DOMAIN up
    BY <1>2
  <2>2. ASSUME NEW i \in DOMAIN up'
        PROVE  i + 1 \in DOMAIN up /\ up'[i] = up[i + 1]
    BY <1>2, <1>3, <1>4
  <2> QED BY <2>1, <2>2 DEF ToSet
<1>6. ASSUME NEW i \in 1..(Len(up') - 1)
      PROVE  FollowsUp(up'[i], up'[i + 1])
  <2>1. i \in 1..(Len(up) - 1) /\ i + 1 \in 1..(Len(up) - 1)
    BY <1>2, <1>3
  <2> QED BY <1>3, <2>1 DEF ChainedUp
<1>7. ASSUME up' # <<>>
      PROVE  FollowsUp(up[1], up'[1]) /\ Last(up') = Last(up)
  <2>1. Len(up) >= 2
    BY <1>2, <1>3, <1>7, EmptySeq
  <2>2. up'[1] = up[1 + 1] /\ up'[Len(up')] = up[Len(up)]
    BY <1>2, <1>3, <2>1
  <2> QED BY <1>2, <2>1, <2>2 DEF ChainedUp, Last
<1>8. up' = <<>> => Last(up) = up[1]
  <2>1. ASSUME up' = <<>>
        PROVE  Len(up) = 1
    <3>1. Len(up') = 0
      BY <2>1
    <3>2. Len(up) \in Nat /\ Len(up') = Len(up) - 1
      BY <1>2, <1>3
    <3> QED BY <3>1, <3>2
  <2> QED BY <2>1 DEF Last
<1>9. up' = <<>> <=> Len(up) = 1
  <2>1. up' = <<>> <=> Len(up') = 0
    BY <1>3, EmptySeq
  <2> QED BY <1>2, <1>3, <2>1
<1> QED
  BY <1>1, <1>2, <1>3, <1>5, <1>6, <1>7, <1>8, <1>9 DEF ChainedUp, PoppedUp

\* The client sends whole frames, while the agent is there.
PutUpAs(frame) ==
  /\ ~cut /\ agent # "gone"
  /\ up' \in Seq(UpFrames) /\ up' # <<>>
  /\ Len(up) \in Nat /\ Len(up') = Len(up) + 1 /\ (up = <<>> <=> Len(up) = 0)
  /\ ToSet(up') = ToSet(up) \cup {frame}
  /\ Last(up') = frame
  /\ up'[1] = IF up = <<>> THEN frame ELSE up[1]
  /\ up # <<>> => Last(up) \in ToSet(up)
  /\ (up # <<>> => FollowsUp(Last(up), frame)) => ChainedUp'

LEMMA PutUp ==
  ASSUME TypeOK, ChainedUp, NEW frame \in UpFrames, SendUp(frame)
  PROVE  PutUpAs(frame)
<1>1. up \in Seq(UpFrames) /\ Len(up) \in Nat /\ DOMAIN up = 1..Len(up)
  BY LenProperties DEF TypeOK, Streams
<1>2. /\ up' \in Seq(UpFrames) /\ up' # <<>>
      /\ Len(up') = Len(up) + 1
      /\ \A i \in 1..Len(up) : up'[i] = up[i]
      /\ up'[Len(up) + 1] = frame
  BY <1>1, AppendProperties DEF SendUp
<1>3. DOMAIN up' = 1..(Len(up) + 1)
  BY <1>2, LenProperties
<1>4. ToSet(up') = ToSet(up) \cup {frame}
  BY <1>1, <1>2, <1>3 DEF ToSet
<1>5. up = <<>> <=> Len(up) = 0
  BY <1>1, EmptySeq
<1>6. /\ Last(up') = frame
      /\ up'[1] = IF up = <<>> THEN frame ELSE up[1]
      /\ up # <<>> => Last(up) \in ToSet(up)
  BY <1>1, <1>2, <1>5 DEF Last, ToSet
<1>7. ASSUME up # <<>> => FollowsUp(Last(up), frame)
      PROVE  ChainedUp'
  <2>0. Len(up') - 1 = Len(up)
    BY <1>1, <1>2
  <2>1. ASSUME NEW i \in 1..Len(up)
        PROVE  FollowsUp(up'[i], up'[i + 1])
    <3>1. CASE i = Len(up)
      BY <1>1, <1>2, <1>5, <1>7, <3>1 DEF Last
    <3>2. CASE i # Len(up)
      <4>0. Len(up) \in Nat
        BY <1>1
      <4>1. i \in 1..(Len(up) - 1)
        BY <4>0, <3>2
      <4>2. i \in 1..Len(up) /\ i + 1 \in 1..Len(up)
        BY <1>1, <4>1
      <4> QED BY <1>2, <4>1, <4>2 DEF ChainedUp
    <3> QED BY <3>1, <3>2
  <2> QED BY <2>0, <2>1 DEF ChainedUp
<1> QED BY <1>1, <1>2, <1>4, <1>5, <1>6, <1>7 DEF SendUp, UpBroken, PutUpAs

\* A lost connection leaves a prefix in each pipe.
Shortened ==
  /\ cut'
  /\ down' \in Seq(Writes) /\ up' \in Seq(UpFrames)
  /\ Len(down) \in Nat /\ Len(down') \in 0..Len(down)
  /\ Len(up) \in Nat /\ Len(up') \in 0..Len(up)
  /\ ToSet(down') \subseteq ToSet(down) /\ ToSet(up') \subseteq ToSet(up)
  /\ down' # <<>> => down # <<>> /\ down'[1] = down[1]
  /\ up' # <<>> => up # <<>> /\ up'[1] = up[1]
  /\ Chained' /\ ChainedUp'

LEMMA CutPipes ==
  ASSUME TypeOK, Chained, ChainedUp, Cut
  PROVE  Shortened
<1>1. /\ down \in Seq(Writes) /\ Len(down) \in Nat /\ DOMAIN down = 1..Len(down)
      /\ up \in Seq(UpFrames) /\ Len(up) \in Nat /\ DOMAIN up = 1..Len(up)
  BY LenProperties DEF TypeOK, Streams, Writes
<1>2. PICK n \in 0..Len(down) : down' = SubSeq(down, 1, n)
  BY DEF Cut
<1>3. PICK m \in 0..Len(up) : up' = SubSeq(up, 1, m)
  BY DEF Cut
<1>4. (\A i \in 1..n : down[i] \in Writes) /\ (\A i \in 1..m : up[i] \in UpFrames)
  BY <1>1, ElementOfSeq
<1>5. /\ down' \in Seq(Writes) /\ Len(down') = n
      /\ \A i \in 1..n : down'[i] = down[i]
  BY <1>1, <1>2, <1>4, SubSeqProperties
<1>6. /\ up' \in Seq(UpFrames) /\ Len(up') = m
      /\ \A i \in 1..m : up'[i] = up[i]
  BY <1>1, <1>3, <1>4, SubSeqProperties
<1>7. DOMAIN down' = 1..n /\ DOMAIN up' = 1..m
  BY <1>5, <1>6, LenProperties
<1>8. ToSet(down') \subseteq ToSet(down) /\ ToSet(up') \subseteq ToSet(up)
  BY <1>1, <1>5, <1>6, <1>7 DEF ToSet
<1>9. /\ down' # <<>> => down # <<>> /\ down'[1] = down[1]
      /\ up' # <<>> => up # <<>> /\ up'[1] = up[1]
  BY <1>1, <1>5, <1>6, EmptySeq
<1>10. Chained'
  <2>1. ASSUME NEW i \in 1..(n - 1)
        PROVE  i \in 1..n /\ i + 1 \in 1..n /\ i \in 1..(Len(down) - 1)
    BY <1>1
  <2> QED BY <1>5, <1>9, <2>1 DEF Chained
<1>11. ChainedUp'
  <2>1. ASSUME NEW i \in 1..(m - 1)
        PROVE  i \in 1..m /\ i + 1 \in 1..m /\ i \in 1..(Len(up) - 1)
    BY <1>1
  <2> QED BY <1>6, <2>1 DEF ChainedUp
<1> QED BY <1>1, <1>5, <1>6, <1>8, <1>9, <1>10, <1>11 DEF Cut, Shortened

\* What the sides write are frames.
FramesWritten ==
  /\ {Frame("hello", 0), Frame("exec", 0), Frame("EOF", 0)} \subseteq UpFrames
  /\ typed < MaxIn => Frame("data", typed + 1) \in UpFrames
  /\ \A n \in {1, 2} :
       {Half(n, Frame("hello_ack", 0)), Half(n, Frame("error", 0)),
        Half(n, Frame("exit", code)), Half(n, Frame("data", piece))} \subseteq Writes

LEMMA FramesKnown ==
  ASSUME TypeOK
  PROVE  FramesWritten
  BY BoundsAssumption
  DEF TypeOK, Places, Streams, Frame, Half, UpFrames, DownFrames, Writes, Pieces,
      FramesWritten

-----------------------------------------------------------------------------
\* The counters and the lengths of the streams are natural numbers.
LEMMA Numbers ==
  ASSUME TypeOK
  PROVE  /\ {typed, made, piece} \subseteq Nat
         /\ Len(pty) \in Nat /\ Len(fed) \in Nat /\ Len(shown) \in Nat
         /\ pty \in Seq(Pieces) /\ fed \in Seq(1..MaxIn) /\ shown \in Seq(Pieces)
         /\ Pieces \subseteq Nat
<1> USE BoundsAssumption DEF TypeOK, Streams, Pieces
<1>1. pty \in Seq(Pieces) /\ fed \in Seq(1..MaxIn) /\ shown \in Seq(Pieces)
  OBVIOUS
<1>2. Len(pty) \in Nat /\ Len(fed) \in Nat /\ Len(shown) \in Nat
  BY <1>1, LenProperties
<1>3. {typed, made, piece} \subseteq Nat
  OBVIOUS
<1> QED BY <1>1, <1>2, <1>3

\* The last write of a pipe is one of its writes.
LEMMA LastIn ==
  ASSUME TypeOK, down # <<>>
  PROVE  Last(down) \in ToSet(down)
<1>1. Len(down) \in Nat /\ Len(down) # 0 /\ DOMAIN down = 1..Len(down)
  BY LenProperties, EmptySeq DEF TypeOK, Streams
<1> QED BY <1>1 DEF Last, ToSet

LEMMA InitInv == Init => IInv
<1> SUFFICES ASSUME Init PROVE IInv
  OBVIOUS
<1> USE BoundsAssumption, CodesAssumption DEF Init
<1>1. Flags
  BY DEF Flags
<1>2. Places /\ Streams
  BY DEF Places, Streams, Results, NoResult, Pieces
<1>3. Chained /\ ChainedUp /\ Locked /\ Early
  BY DEF Chained, ChainedUp, Locked, Early, Open, Call, ToSet
<1>4. OnTheWay /\ Pumped /\ Typed /\ Truthful
  BY DEF OnTheWay, Pumped, Typed, Truthful, NoResult, ToSet
<1> QED BY <1>1, <1>2, <1>3, <1>4 DEF IInv, TypeOK

-----------------------------------------------------------------------------
(* What every step keeps. *)

\* The request does not change; the connection and the message are flags.
LEMMA FlagsKept ==
  ASSUME TypeOK, [Next]_vars
  PROVE  Flags'
<1> USE DEF TypeOK, Flags, ClientGoes, ClientFails, AgentSide, ClientSide, MainSide,
        clientVars, pumpVars, childVars
<1>1. CASE SayHello \/ ReadAck \/ SendExec \/ SendEof \/ ForwardStdin
  BY <1>1, Zenon
  DEF SayHello, ReadAck, SendExec, SendEof, ForwardStdin
<1>2. CASE ShowData \/ ReadExit \/ ReadEnd \/ ReadFailure \/ WaitForSsh
           \/ ClientDies \/ AgentDies
  BY <1>2, Zenon
  DEF ShowData, ReadExit, ReadEnd, ReadFailure, WaitForSsh, ClientDies,
      AgentDies
<1>3. CASE ReadHello \/ WriteAck \/ WriteError \/ WriteExit \/ ReadExec
  BY <1>3, Zenon
  DEF ReadHello, WriteAck, WriteError, WriteExit, ReadExec, WriteFrame
<1>4. CASE PollChild \/ PumpRead \/ PumpLock \/ PumpPayload
  BY <1>4, Zenon
  DEF PollChild, PumpRead, PumpLock, PumpPayload
<1>5. CASE Sink \/ ChildWrites \/ ChildExits \/ Cut
  BY <1>5, Zenon
  DEF Sink, ChildWrites, ChildExits, Cut
<1>6. CASE UNCHANGED vars
  BY <1>6 DEF vars
<1> QED
  BY <1>1, <1>2, <1>3, <1>4, <1>5, <1>6
  DEF Next, ClientStep, MainStep, PumpStep, Over

\* Every thread and process is somewhere.
LEMMA PlacesKept ==
  ASSUME TypeOK, [Next]_vars
  PROVE  Places'
<1> USE CodesAssumption
    DEF TypeOK, Places, Results, Error, Ended, ClientGoes, ClientFails, AgentSide,
        ClientSide, MainSide,
        clientVars, pumpVars, childVars
<1>1. CASE SayHello \/ ReadAck \/ SendExec \/ SendEof \/ ForwardStdin
  BY <1>1
  DEF SayHello, ReadAck, SendExec, SendEof, ForwardStdin
<1>2. CASE ShowData \/ ReadExit \/ ReadEnd \/ ReadFailure \/ WaitForSsh
           \/ ClientDies \/ AgentDies
  BY <1>2
  DEF ShowData, ReadExit, ReadEnd, ReadFailure, WaitForSsh, ClientDies,
      AgentDies
<1>3. CASE ReadHello \/ WriteAck \/ WriteError \/ WriteExit \/ ReadExec
  BY <1>3
  DEF ReadHello, WriteAck, WriteError, WriteExit, ReadExec, WriteFrame
<1>4. CASE PollChild \/ PumpRead \/ PumpLock \/ PumpPayload
  BY <1>4
  DEF PollChild, PumpRead, PumpLock, PumpPayload
<1>5. CASE Sink \/ ChildWrites \/ ChildExits \/ Cut
  BY <1>5
  DEF Sink, ChildWrites, ChildExits, Cut
<1>6. CASE UNCHANGED vars
  BY <1>6 DEF vars
<1> QED
  BY <1>1, <1>2, <1>3, <1>4, <1>5, <1>6
  DEF Next, ClientStep, MainStep, PumpStep, Over

\* Frames stay whole in the pipe, and pieces of output in their order.
LEMMA ChainedKept ==
  ASSUME IInv, [Next]_vars
  PROVE  Chained'
<1> USE DEF Half, Frame, IInv, Open, ClientGoes, ClientFails, AgentSide,
        ClientSide, MainSide,
        clientVars, pumpVars, childVars
<1>1. \A frame : NextDown(frame) => Popped(frame)
  BY PopDown DEF IInv
<1>2. \A half \in Writes : WriteDown(half) => Put(half)
  BY PutDown DEF IInv
<1>3. Cut => Shortened
  BY CutPipes DEF IInv
<1>4. FramesWritten
  BY FramesKnown DEF IInv
<1>5. CASE ReadAck \/ ReadFailure
  BY <1>5, <1>1
  DEF ReadAck, ReadFailure, Popped, Chained
<1>6. CASE ShowData
  BY <1>6, <1>1
  DEF ShowData, Popped
<1>7. CASE ReadExit
  BY <1>7, <1>1
  DEF ReadExit, Popped
<1>8. CASE WriteAck \/ WriteError \/ WriteExit
  <2>1. CASE UNCHANGED down
    BY <2>1 DEF Chained
  <2>2. CASE down' # down
    BY <1>8, <2>2, <1>2, <1>4
    DEF WriteAck, WriteError, WriteExit, WriteFrame, Put, FramesWritten,
        Locked, Follows, Saying
  <2> QED BY <2>1, <2>2
<1>9. CASE PumpLock
  BY <1>9, <1>2, <1>4
  DEF PumpLock, Put, FramesWritten, Locked, Follows, Pumped, Sent, Held, Chained
<1>10. CASE PumpPayload
  <2>1. CASE UNCHANGED down
    BY <2>1 DEF Chained
  <2>2. CASE down' # down
    BY <1>10, <2>2, <1>2, <1>4
    DEF PumpPayload, Put, FramesWritten, Locked, Follows
  <2> QED BY <2>1, <2>2
<1>11. CASE Cut
  BY <1>11, <1>3
  DEF Cut, Shortened
<1>12. CASE SayHello \/ SendExec \/ SendEof \/ ForwardStdin \/ ReadEnd \/ WaitForSsh
          \/ ClientDies \/ AgentDies \/ ReadHello \/ ReadExec \/ PollChild \/ PumpRead
          \/ Sink \/ ChildWrites \/ ChildExits
          \/ UNCHANGED vars
  <2>1. UNCHANGED <<down>>
    BY <1>12
    DEF SayHello, SendExec, SendEof, ForwardStdin, ReadEnd, WaitForSsh,
        ClientDies, AgentDies, ReadHello, ReadExec, PollChild, PumpRead, Sink,
        ChildWrites, ChildExits, vars
  <2> QED BY <2>1 DEF Chained
<1> QED
  BY <1>5, <1>6, <1>7, <1>8, <1>9, <1>10, <1>11, <1>12
  DEF Next, ClientStep, MainStep, PumpStep, Over

\* Pieces of input stay in their order on their way.
LEMMA ChainedUpKept ==
  ASSUME IInv, [Next]_vars
  PROVE  ChainedUp'
<1> USE DEF Half, Frame, IInv, Open, ClientGoes, ClientFails, AgentSide,
        ClientSide, MainSide,
        clientVars, pumpVars, childVars
<1>1. \A kind : NextUp(kind) => PoppedUp(kind)
  BY PopUp DEF IInv
<1>2. \A frame \in UpFrames : SendUp(frame) => PutUpAs(frame)
  BY PutUp DEF IInv
<1>3. Cut => Shortened
  BY CutPipes DEF IInv
<1>4. FramesWritten
  BY FramesKnown DEF IInv
<1>5. CASE SayHello
  BY <1>5, <1>2, <1>4
  DEF SayHello, PutUpAs, FramesWritten, Early, FollowsUp, ChainedUp
<1>6. CASE SendExec \/ SendEof
  BY <1>6, <1>2, <1>4
  DEF SendExec, SendEof, PutUpAs, FramesWritten, Early, FollowsUp, ChainedUp
<1>7. CASE ForwardStdin
  BY <1>7, <1>2, <1>4
  DEF ForwardStdin, PutUpAs, FramesWritten, Typed, UpBroken, FollowsUp,
      ChainedUp
<1>8. CASE ReadHello \/ ReadExec \/ Sink
  BY <1>8, <1>1
  DEF ReadHello, ReadExec, Sink, PoppedUp, ChainedUp
<1>9. CASE Cut
  BY <1>9, <1>3
  DEF Cut, Shortened
<1>10. CASE ReadAck \/ ShowData \/ ReadExit \/ ReadEnd \/ ReadFailure \/ WaitForSsh
          \/ ClientDies \/ AgentDies \/ WriteAck \/ WriteError \/ WriteExit \/ PollChild
          \/ PumpRead \/ PumpLock \/ PumpPayload \/ ChildWrites \/ ChildExits
          \/ UNCHANGED vars
  <2>1. UNCHANGED <<up>>
    BY <1>10
    DEF ReadAck, ShowData, ReadExit, ReadEnd, ReadFailure, WaitForSsh,
        ClientDies, AgentDies, WriteAck, WriteError, WriteExit, PollChild,
        PumpRead, PumpLock, PumpPayload, ChildWrites, ChildExits, WriteFrame,
        vars
  <2> QED BY <2>1 DEF ChainedUp
<1> QED
  BY <1>5, <1>6, <1>7, <1>8, <1>9, <1>10
  DEF Next, ClientStep, MainStep, PumpStep, Over

\* A thread that holds the writer has written the first half of its frame.
LEMMA LockedKept ==
  ASSUME IInv, [Next]_vars
  PROVE  Locked'
<1> USE DEF Half, Frame, IInv, Open, ClientGoes, ClientFails, AgentSide,
        ClientSide, MainSide,
        clientVars, pumpVars, childVars
<1>1. \A frame : NextDown(frame) => Popped(frame)
  BY PopDown DEF IInv
<1>2. \A half \in Writes : WriteDown(half) => Put(half)
  BY PutDown DEF IInv
<1>3. \A kind : NextUp(kind) => PoppedUp(kind)
  BY PopUp DEF IInv
<1>4. \A frame \in UpFrames : SendUp(frame) => PutUpAs(frame)
  BY PutUp DEF IInv
<1>5. Cut => Shortened
  BY CutPipes DEF IInv
<1>6. FramesWritten
  BY FramesKnown DEF IInv
<1>7. CASE ReadAck \/ ShowData \/ ReadExit \/ ReadFailure
  <2>1. UNCHANGED <<wlock, agent, pump, piece, code, cut>> /\ client # "done"
    BY <1>7 DEF ReadAck, ShowData, ReadExit, ReadFailure
  <2>2. CASE client' = "done"
    BY <2>1, <2>2 DEF Locked
  <2>3. CASE client' # "done"
    <3>1. PICK frame : NextDown(frame)
      BY <1>7, <2>3 DEF ReadAck, ShowData, ReadExit, ReadFailure
    <3>2. /\ down # <<>> /\ wlock \in {"free", "pump", "main"}
          /\ down' = <<>> => Last(down) = <<2, frame>>
          /\ down' # <<>> => Last(down') = Last(down)
      BY <3>1, <1>1 DEF Popped, TypeOK, Places
    <3> QED BY <2>1, <3>2 DEF Locked, Saying
  <2> QED BY <2>2, <2>3
<1>8. CASE ReadHello \/ ReadExec \/ PollChild \/ AgentDies
  <2>1. UNCHANGED <<down, wlock, cut, client, piece>>
    BY <1>8 DEF ReadHello, ReadExec, PollChild, AgentDies
  <2>2. agent \notin {"ack", "exit", "error", "gone"} \/ agent' = "gone"
    BY <1>8 DEF ReadHello, ReadExec, PollChild, AgentDies
  <2>3. agent' = "gone" \/ pump' = pump \/ (pump = "off" /\ pump' = "read")
    BY <1>8 DEF ReadHello, ReadExec, PollChild, AgentDies, Early
  <2> QED BY <2>1, <2>2, <2>3 DEF Locked
<1>9. CASE PumpRead
  BY <1>9
  DEF PumpRead, Locked, Saying
<1>10. CASE WriteAck \/ WriteError \/ WriteExit
  BY <1>10, <1>2, <1>6
  DEF WriteAck, WriteError, WriteExit, Put, FramesWritten, WriteFrame,
      Locked, Saying, DownBroken
<1>11. CASE PumpLock \/ PumpPayload
  BY <1>11, <1>2, <1>6
  DEF PumpLock, PumpPayload, Put, FramesWritten, Locked, Saying, DownBroken
<1>12. CASE Cut
  BY <1>12, <1>5
  DEF Cut, Shortened, Locked, Saying
<1>13. CASE SayHello \/ SendExec \/ SendEof \/ ReadEnd \/ WaitForSsh \/ ClientDies
  BY <1>13, <1>4, <1>6
  DEF SayHello, SendExec, SendEof, ReadEnd, WaitForSsh, ClientDies, PutUpAs,
      FramesWritten, Locked, Saying
<1>14. CASE ForwardStdin \/ Sink \/ ChildWrites \/ ChildExits
          \/ UNCHANGED vars
  <2>1. UNCHANGED <<down, wlock, agent, client, pump, piece, code, cut>>
    BY <1>14
    DEF ForwardStdin, Sink, ChildWrites, ChildExits, vars
  <2> QED BY <2>1 DEF Locked, Saying
<1> QED
  BY <1>7, <1>8, <1>9, <1>10, <1>11, <1>12, <1>13, <1>14
  DEF Next, ClientStep, MainStep, PumpStep, Over

\* Nothing happens before it is asked for.
LEMMA EarlyKept ==
  ASSUME IInv, [Next]_vars
  PROVE  Early'
<1> USE DEF Half, Frame, IInv, Open, ClientGoes, ClientFails, AgentSide,
        ClientSide, MainSide,
        clientVars, pumpVars, childVars
<1>1. \A frame : NextDown(frame) => Popped(frame)
  BY PopDown DEF IInv
<1>2. \A half \in Writes : WriteDown(half) => Put(half)
  BY PutDown DEF IInv
<1>3. \A kind : NextUp(kind) => PoppedUp(kind)
  BY PopUp DEF IInv
<1>4. \A frame \in UpFrames : SendUp(frame) => PutUpAs(frame)
  BY PutUp DEF IInv
<1>5. Cut => Shortened
  BY CutPipes DEF IInv
<1>6. FramesWritten
  BY FramesKnown DEF IInv
<1>7. CASE SayHello
  BY <1>7, <1>4, <1>6
  DEF SayHello, PutUpAs, FramesWritten, Early
<1>8. CASE ReadAck
  <2>1. /\ client = "ack"
        /\ UNCHANGED <<call, cut, up, stdin, typed, shown, agent, child, pump, sink,
                       made, pty, fed>>
    BY <1>8 DEF ReadAck
  <2>2. CASE UNCHANGED down /\ client' = "done"
    BY <2>1, <2>2 DEF Early
  <2>3. CASE NextDown(Frame("hello_ack", 0)) /\ client' = IF call.doctor THEN "wait" ELSE "exec"
    <3>0. Popped([kind |-> "hello_ack", value |-> 0])
      BY <2>3, <1>1
    <3>1. Len(down) = 2 /\ down # <<>> /\ down' = <<>>
      BY <2>1, <3>0 DEF Popped, Early
    <3>2. up = <<>> /\ agent \notin {"hello", "ack"} /\ stdin = "off"
      BY <2>1, <3>1 DEF Early
    <3> QED BY <2>1, <2>3, <3>1, <3>2 DEF Early
  <2> QED BY <1>8, <2>2, <2>3 DEF ReadAck
<1>9. CASE SendExec
  BY <1>9, <1>4, <1>6
  DEF SendExec, PutUpAs, FramesWritten, Early
<1>10. CASE SendEof
  BY <1>10, <1>4, <1>6
  DEF SendEof, PutUpAs, FramesWritten, Early
<1>11. CASE ForwardStdin
  BY <1>11, <1>4, <1>6
  DEF ForwardStdin, PutUpAs, FramesWritten, Early
<1>12. CASE ShowData
  BY <1>12, <1>1
  DEF ShowData, Popped, Early, OnTheWay
<1>13. CASE ReadExit
  <2>1. agent = "gone" /\ client = "relay" /\ client' = "wait"
    <3>1. PICK c \in Codes : NextDown(Frame("exit", c))
      BY <1>13 DEF ReadExit
    <3>2. <<2, Frame("exit", c)>> \in ToSet(down)
      BY <3>1, <1>1 DEF Popped
    <3> QED BY <1>13, <3>2 DEF Truthful, ReadExit
  <2>2. UNCHANGED <<call, up, cut, stdin, typed, shown, AgentSide>>
    BY <1>13 DEF ReadExit
  <2> QED BY <2>1, <2>2 DEF Early
<1>14. CASE ReadEnd \/ ReadFailure
  BY <1>14, <1>1
  DEF ReadEnd, ReadFailure, Popped, Early, NothingDown, DownEnds
<1>15. CASE WaitForSsh \/ ClientDies \/ AgentDies
  BY <1>15
  DEF WaitForSsh, ClientDies, AgentDies, Early, DownEnds
<1>16. CASE ReadHello
  BY <1>16, <1>3
  DEF ReadHello, PoppedUp, Early
<1>17. CASE WriteAck
  <2>1. /\ agent = "ack" /\ Len(down) <= 1
        /\ UNCHANGED <<call, cut, up, client, stdin, typed, shown, child, pump, sink,
                       made, pty, fed>>
    BY <1>17 DEF WriteAck, Early
  <2>2. CASE UNCHANGED down /\ agent' = "gone"
    BY <2>1, <2>2 DEF Early
  <2>3. CASE WriteDown(Half(1, Frame("hello_ack", 0))) /\ wlock = "free" /\ agent' = "ack"
    <3>1. Put(Half(1, Frame("hello_ack", 0)))
      BY <2>3, <1>2, <1>6 DEF FramesWritten
    <3>2. down # <<>> => Len(down) = 1
      <4>1. Len(down) \in Nat /\ Len(down) <= 1
        BY <2>1, <3>1 DEF Put
      <4>2. Len(down) = 0 \/ Len(down) = 1
        BY <4>1
      <4>3. down = <<>> <=> Len(down) = 0
        BY <3>1 DEF Put
      <4> QED BY <4>2, <4>3, Zenon
    <3>3. down = <<>>
      <4>1. down # <<>> => Last(down)[1] = 1
        BY <3>2 DEF Chained, Last
      <4> QED BY <2>1, <2>3, <3>1, <4>1 DEF Locked, Put
    <3> QED BY <2>1, <2>3, <3>1, <3>3 DEF Early, Put
  <2>4. CASE WriteDown(Half(2, Frame("hello_ack", 0))) /\ agent' = "exec"
    <3>1. Put(Half(2, Frame("hello_ack", 0)))
      BY <2>4, <1>2, <1>6 DEF FramesWritten
    <3> QED BY <2>1, <2>4, <3>1 DEF Early, Put
  <2> QED BY <1>17, <2>1, <2>2, <2>3, <2>4 DEF WriteAck, WriteFrame
<1>18. CASE WriteError \/ WriteExit
  BY <1>18, <1>2, <1>6
  DEF WriteError, WriteExit, Put, FramesWritten, WriteFrame, Early
<1>19. CASE ReadExec
  BY <1>19, <1>3
  DEF ReadExec, PoppedUp, Early
<1>20. CASE PollChild
  BY <1>20
  DEF PollChild, Early
<1>21. CASE PumpRead
  BY <1>21
  DEF PumpRead, Early
<1>22. CASE PumpLock \/ PumpPayload
  BY <1>22, <1>2, <1>6
  DEF PumpLock, PumpPayload, Put, FramesWritten, Early
<1>23. CASE Sink
  BY <1>23, <1>3
  DEF Sink, PoppedUp, Early
<1>24. CASE ChildWrites \/ ChildExits
  BY <1>24
  DEF ChildWrites, ChildExits, Early
<1>25. CASE Cut
  BY <1>25, <1>5
  DEF Cut, Shortened, Early
<1>26. CASE UNCHANGED vars
  <2>1. UNCHANGED <<agent, child, pump, sink, made, pty, fed, shown, client, up,
                    down, stdin, typed, cut, call>>
    BY <1>26
    DEF vars
  <2> QED BY <2>1 DEF Early
<1> QED
  BY <1>7, <1>8, <1>9, <1>10, <1>11, <1>12, <1>13, <1>14, <1>15, <1>16, <1>17,
     <1>18, <1>19, <1>20, <1>21, <1>22, <1>23, <1>24, <1>25, <1>26
  DEF Next, ClientStep, MainStep, PumpStep, Over

\* What is on its way follows what was shown, and was made.
LEMMA OnTheWayKept ==
  ASSUME IInv, [Next]_vars
  PROVE  OnTheWay'
<1> USE DEF Half, Frame, IInv, Open, ClientGoes, ClientFails, AgentSide,
        ClientSide, MainSide,
        clientVars, pumpVars, childVars
<1>1. \A frame : NextDown(frame) => Popped(frame)
  BY PopDown DEF IInv
<1>2. \A half \in Writes : WriteDown(half) => Put(half)
  BY PutDown DEF IInv
<1>3. Cut => Shortened
  BY CutPipes DEF IInv
<1>4. FramesWritten
  BY FramesKnown DEF IInv
<1>5. CASE ReadAck
  <2>1. CASE UNCHANGED down
    BY <1>5, <2>1 DEF ReadAck, OnTheWay
  <2>2. CASE NextDown(Frame("hello_ack", 0))
    <3>1. Popped([kind |-> "hello_ack", value |-> 0])
      BY <2>2, <1>1
    <3> QED BY <1>5, <3>1 DEF ReadAck, OnTheWay, Popped
  <2> QED BY <1>5, <2>1, <2>2 DEF ReadAck
<1>6. CASE ShowData
  <2>1. PICK n \in Pieces : NextDown(Frame("data", n)) /\ shown' = Append(shown, n)
    BY <1>6 DEF ShowData
  <2>2. Popped([kind |-> "data", value |-> n])
    BY <2>1, <1>1
  <2>3. n = Len(shown) + 1 /\ n \in 1..made /\ made' = made
    BY <1>6, <2>2 DEF ShowData, OnTheWay, Popped
  <2>4. /\ Len(shown) \in Nat /\ Len(shown') = Len(shown) + 1 /\ shown'[Len(shown) + 1] = n
        /\ \A i \in 1..Len(shown) : shown'[i] = shown[i]
    BY <2>1, Numbers, AppendProperties DEF IInv
  <2>5. \A i \in 1..Len(shown') : i = Len(shown) + 1 \/ i \in 1..Len(shown)
    BY <2>4
  <2>6. Len(shown') <= made' /\ \A i \in 1..Len(shown') : shown'[i] = i
    BY <2>3, <2>4, <2>5 DEF OnTheWay
  <2>7. /\ down' # <<>> /\ down'[1][2].kind = "data" => down'[1][2].value = Len(shown') + 1
        /\ ToSet(down') \subseteq ToSet(down)
    BY <2>2, <2>3, <2>4 DEF Popped
  <2> QED BY <2>3, <2>6, <2>7 DEF OnTheWay
<1>7. CASE ReadExit
  <2>1. PICK c \in Codes : NextDown(Frame("exit", c))
    BY <1>7 DEF ReadExit
  <2>2. Popped([kind |-> "exit", value |-> c])
    BY <2>1, <1>1
  <2> QED BY <1>7, <2>2 DEF ReadExit, OnTheWay, Popped
<1>8. CASE ReadFailure
  <2>1. CASE UNCHANGED down
    BY <1>8, <2>1 DEF ReadFailure, OnTheWay
  <2>2. CASE NextDown(Frame("error", 0))
    <3>1. Popped([kind |-> "error", value |-> 0])
      BY <2>2, <1>1
    <3> QED BY <1>8, <3>1 DEF ReadFailure, OnTheWay, Popped
  <2> QED BY <1>8, <2>1, <2>2 DEF ReadFailure
<1>9. CASE WriteAck \/ WriteError \/ WriteExit
  BY <1>9, <1>2, <1>4
  DEF WriteAck, WriteError, WriteExit, Put, FramesWritten, WriteFrame, OnTheWay,
      DownBroken
<1>10. CASE PumpLock
  <2>1. CASE UNCHANGED down
    BY <1>10, <2>1 DEF PumpLock, OnTheWay
  <2>2. CASE WriteDown(Half(1, Frame("data", piece)))
    <3>1. Put(<<1, [kind |-> "data", value |-> piece]>>) /\ Open /\ UNCHANGED <<shown, made>>
      BY <1>10, <2>2, <1>2, <1>4 DEF PumpLock, FramesWritten, Put
    <3>2. piece = Sent + 1 /\ made = piece + Len(pty)
      BY <1>10, <3>1 DEF PumpLock, Pumped, Held
    <3>3. Len(pty) \in Nat /\ made \in Nat /\ piece \in Nat /\ Len(shown) \in Nat
      BY Numbers
    <3>4. Sent \in Nat
      BY <1>10, <3>1, <3>3 DEF Sent, Put, OnTheWay, Pumped, PumpLock
    <3>5. piece \in 1..made
      BY <3>2, <3>3, <3>4
    <3> QED BY <3>1, <3>2, <3>5 DEF OnTheWay, Put, Sent
  <2> QED BY <1>10, <2>1, <2>2 DEF PumpLock
<1>11. CASE PumpPayload
  BY <1>11, <1>2, <1>4
  DEF PumpPayload, Put, FramesWritten, OnTheWay, Locked
<1>12. CASE ChildWrites
  <2>1. made' = made + 1 /\ made \in Nat /\ UNCHANGED <<down, shown>> /\ Len(shown) \in Nat
    BY <1>12, Numbers DEF ChildWrites
  <2> QED BY <2>1 DEF OnTheWay
<1>13. CASE Cut
  BY <1>13, <1>3
  DEF Cut, Shortened, OnTheWay
<1>14. CASE SayHello \/ SendExec \/ SendEof \/ ForwardStdin \/ ReadEnd \/ WaitForSsh
          \/ ClientDies \/ AgentDies \/ ReadHello \/ ReadExec \/ PollChild \/ PumpRead
          \/ Sink \/ ChildExits
          \/ UNCHANGED vars
  <2>1. UNCHANGED <<down, shown, made>>
    BY <1>14
    DEF SayHello, SendExec, SendEof, ForwardStdin, ReadEnd, WaitForSsh,
        ClientDies, AgentDies, ReadHello, ReadExec, PollChild, PumpRead, Sink,
        ChildExits, vars
  <2> QED BY <2>1 DEF OnTheWay
<1> QED
  BY <1>5, <1>6, <1>7, <1>8, <1>9, <1>10, <1>11, <1>12, <1>13, <1>14
  DEF Next, ClientStep, MainStep, PumpStep, Over

\* The pieces in the PTY follow the one that was sent last.
LEMMA PumpedKept ==
  ASSUME IInv, [Next]_vars
  PROVE  Pumped'
<1> USE DEF Half, Frame, IInv, Open, ClientGoes, ClientFails, AgentSide,
        ClientSide, MainSide,
        clientVars, pumpVars, childVars
<1>1. \A frame : NextDown(frame) => Popped(frame)
  BY PopDown DEF IInv
<1>2. \A half \in Writes : WriteDown(half) => Put(half)
  BY PutDown DEF IInv
<1>3. \A kind : NextUp(kind) => PoppedUp(kind)
  BY PopUp DEF IInv
<1>4. \A frame \in UpFrames : SendUp(frame) => PutUpAs(frame)
  BY PutUp DEF IInv
<1>5. Cut => Shortened
  BY CutPipes DEF IInv
<1>6. FramesWritten
  BY FramesKnown DEF IInv
<1>7. CASE ReadAck
  BY <1>7, <1>1
  DEF ReadAck, Popped, Pumped, Sent, Held, Early
<1>8. CASE ShowData
  <2>1. PICK n \in Pieces : NextDown(Frame("data", n)) /\ shown' = Append(shown, n)
    BY <1>8 DEF ShowData
  <2>2. Popped([kind |-> "data", value |-> n])
    BY <2>1, <1>1
  <2>3. n = Len(shown) + 1 /\ Len(shown') = Len(shown) + 1
    BY <2>1, <2>2, Numbers, AppendProperties DEF OnTheWay, Popped
  <2>4. Sent' = Sent /\ (down' # <<>> => Last(down') = Last(down))
    BY <2>2, <2>3 DEF Sent, Popped
  <2>5. UNCHANGED <<made, cut, client, agent, wlock, pump, piece,
                    pty>> /\ down # <<>>
    BY <1>8, <2>2 DEF ShowData, Popped
  <2> QED BY <2>4, <2>5 DEF Pumped, Held
<1>9. CASE ReadExit
  <2>1. PICK c \in Codes : NextDown(Frame("exit", c))
    BY <1>9 DEF ReadExit
  <2>2. <<2, Frame("exit", c)>> \in ToSet(down)
    BY <2>1, <1>1 DEF Popped
  <2>3. agent = "gone" /\ agent' = agent
    BY <1>9, <2>2 DEF Truthful, ReadExit
  <2> QED BY <2>3 DEF Pumped
<1>10. CASE ReadEnd \/ ReadFailure
  BY <1>10, <1>1
  DEF ReadEnd, ReadFailure, Popped, Pumped, Sent, Held
<1>11. CASE SayHello \/ SendExec \/ SendEof \/ WaitForSsh \/ ClientDies \/ AgentDies
  BY <1>11, <1>4, <1>6
  DEF SayHello, SendExec, SendEof, WaitForSsh, ClientDies, AgentDies, PutUpAs,
      FramesWritten, Pumped, Sent, Held
<1>12. CASE ReadHello \/ PollChild
  BY <1>12, <1>3
  DEF ReadHello, PollChild, PoppedUp, Pumped, Sent, Held
<1>13. CASE ReadExec
  <2>1. CASE NextUp("exec") /\ Open' /\ pump' = "read"
    <3>1. agent = "exec" /\ UNCHANGED <<cut, client, call, down, shown, made, pty>>
      BY <1>13 DEF ReadExec
    <3>2. up[1] \in ToSet(up) /\ up[1].kind = "exec"
      BY <2>1, <1>3 DEF PoppedUp
    <3>3. client \in {"eof", "relay"}
      BY <2>1, <3>1, <3>2 DEF Early, TypeOK, Places
    <3>4. down = <<>> /\ shown = <<>> /\ made = 0 /\ pty = <<>>
      BY <3>1, <3>3 DEF Early
    <3>5. Len(shown) = 0 /\ Len(pty) = 0
      BY <3>4
    <3> QED BY <2>1, <3>1, <3>4, <3>5 DEF Pumped, Held, Sent
  <2>2. CASE ~Open' \/ pump' = "off"
    BY <2>2 DEF Pumped
  <2> QED BY <1>13, <2>1, <2>2 DEF ReadExec, Early
<1>14. CASE WriteAck \/ WriteError \/ WriteExit
  BY <1>14, <1>2, <1>6
  DEF WriteAck, WriteError, WriteExit, Put, FramesWritten, WriteFrame,
      Pumped, Sent, Held, Locked, Early
<1>15. CASE PumpRead
  <2>1. CASE pump' = "end"
    BY <2>1 DEF Pumped
  <2>2. CASE pty # <<>> /\ piece' = Head(pty) /\ pty' = Tail(pty) /\ pump' = "lock"
    <3>1. UNCHANGED <<cut, client, agent, wlock, down, shown,
                      made>> /\ pump = "read"
      BY <1>15 DEF PumpRead
    <3>2. /\ Len(pty) \in Nat \ {0} /\ Head(pty) = pty[1]
          /\ Len(pty') = Len(pty) - 1
          /\ \A i \in 1..(Len(pty) - 1) : pty'[i] = pty[i + 1]
      BY <2>2, Numbers, HeadTailProperties, EmptySeq
    <3>3. SUFFICES ASSUME Open, wlock # "main"
                   PROVE  /\ down # <<>> => Last(down)[2].kind = "data"
                          /\ piece' = Sent + 1
                          /\ made = (Sent + 1) + Len(pty')
                          /\ \A i \in 1..Len(pty') : pty'[i] = (Sent + 1) + i
      BY <2>2, <3>1 DEF Pumped, Held, Sent
    <3>4. /\ down # <<>> => Last(down)[2].kind = "data"
          /\ made = Sent + Len(pty)
          /\ \A i \in 1..Len(pty) : pty[i] = Sent + i
      BY <3>1, <3>3 DEF Pumped, Held
    <3>5. pty[1] = Sent + 1 /\ pty[1] \in Nat
      BY <3>2, <3>4, Numbers, ElementOfSeq
    <3>6. Sent \in Nat
      BY <3>4, Numbers, LastIn DEF Sent, OnTheWay
    <3>7. \A i \in 1..Len(pty') : i + 1 \in 1..Len(pty) /\ pty'[i] = pty[i + 1]
      BY <3>2
    <3> QED BY <2>2, <3>2, <3>4, <3>5, <3>6, <3>7
  <2> QED BY <1>15, <2>1, <2>2 DEF PumpRead
<1>16. CASE PumpLock
  <2>1. CASE ~Open \/ pump' = "end"
    BY <1>16, <2>1 DEF Pumped, PumpLock
  <2>2. CASE Open /\ WriteDown(Half(1, Frame("data", piece)))
    <3>1. Put(<<1, [kind |-> "data", value |-> piece]>>)
      BY <2>2, <1>2, <1>6 DEF FramesWritten
    <3>2. Sent' = piece
      BY <3>1 DEF Put, Sent
    <3>3. /\ pump = "lock" /\ wlock = "free"
          /\ UNCHANGED <<made, pty, piece>>
      BY <1>16 DEF PumpLock
    <3>4. piece = Held /\ made = Held + Len(pty) /\ \A i \in 1..Len(pty) : pty[i] = Held + i
      BY <2>2, <3>3 DEF Pumped
    <3>5. Held' = piece
      BY <1>16, <2>2, <3>2 DEF Held, PumpLock, Put, DownBroken, WriteDown
    <3>6. down' # <<>> /\ Last(down')[2].kind = "data"
      BY <3>1 DEF Put
    <3> QED BY <3>3, <3>4, <3>5, <3>6 DEF Pumped
  <2> QED BY <1>16, <2>1, <2>2 DEF PumpLock, DownBroken
<1>17. CASE PumpPayload
  <2>1. CASE ~Open \/ pump' = "end"
    BY <1>17, <2>1 DEF Pumped, PumpPayload
  <2>2. CASE Open /\ WriteDown(Half(2, Frame("data", piece)))
    <3>1. Put(<<2, [kind |-> "data", value |-> piece]>>)
      BY <2>2, <1>2, <1>6 DEF FramesWritten
    <3>2. Sent' = piece
      BY <3>1 DEF Put, Sent
    <3>3. /\ pump = "payload" /\ wlock = "pump"
          /\ UNCHANGED <<made, pty, piece>>
      BY <1>17, <2>2 DEF PumpPayload, Locked
    <3>4. piece = Held /\ made = Held + Len(pty) /\ \A i \in 1..Len(pty) : pty[i] = Held + i
      BY <2>2, <3>3 DEF Pumped
    <3>5. Held' = piece
      BY <1>17, <2>2, <3>2 DEF Held, PumpPayload, DownBroken, WriteDown
    <3>6. down' # <<>> /\ Last(down')[2].kind = "data"
      BY <3>1 DEF Put
    <3> QED BY <3>3, <3>4, <3>5, <3>6 DEF Pumped
  <2> QED BY <1>17, <2>1, <2>2 DEF PumpPayload, DownBroken
<1>18. CASE ChildWrites
  <2>1. /\ UNCHANGED <<cut, client, agent, wlock, down, shown, pump, piece>>
        /\ made' = made + 1 /\ pty' = Append(pty, made + 1) /\ made + 1 \in Pieces
    BY <1>18, Numbers, BoundsAssumption DEF ChildWrites, Pieces, TypeOK, Streams
  <2>2. /\ Len(pty) \in Nat /\ made \in Nat
        /\ Len(pty') = Len(pty) + 1 /\ pty'[Len(pty) + 1] = made + 1
        /\ \A i \in 1..Len(pty) : pty'[i] = pty[i]
    BY <2>1, Numbers, AppendProperties
  <2>3. SUFFICES ASSUME Open, wlock # "main", pump \in {"read", "lock", "payload"}
                 PROVE  /\ down # <<>> => Last(down)[2].kind = "data"
                        /\ pump # "read" => piece = Held
                        /\ made' = Held + Len(pty')
                        /\ \A i \in 1..Len(pty') : pty'[i] = Held + i
    BY <2>1 DEF Pumped, Held, Sent
  <2>4. /\ down # <<>> => Last(down)[2].kind = "data"
        /\ pump # "read" => piece = Held
        /\ made = Held + Len(pty)
        /\ \A i \in 1..Len(pty) : pty[i] = Held + i
    BY <2>3 DEF Pumped
  <2>5. Held \in Nat
    <3>1. Sent \in Nat
      BY <2>4, Numbers, LastIn DEF Sent, OnTheWay
    <3> QED BY <3>1 DEF Held
  <2>6. \A i \in 1..Len(pty') : i = Len(pty) + 1 \/ i \in 1..Len(pty)
    BY <2>2
  <2> QED BY <2>1, <2>2, <2>4, <2>5, <2>6
<1>19. CASE Cut
  BY <1>19, <1>5
  DEF Cut, Shortened, Pumped, Sent, Held
<1>20. CASE ForwardStdin \/ Sink \/ ChildExits
          \/ UNCHANGED vars
  <2>1. UNCHANGED <<down, shown, made, cut, client, agent, wlock, pump, piece, pty>>
    BY <1>20
    DEF ForwardStdin, Sink, ChildExits, vars
  <2> QED BY <2>1 DEF Pumped, Sent, Held
<1> QED
  BY <1>7, <1>8, <1>9, <1>10, <1>11, <1>12, <1>13, <1>14, <1>15, <1>16, <1>17,
     <1>18, <1>19, <1>20
  DEF Next, ClientStep, MainStep, PumpStep, Over

\* Input is numbered as it was typed.
LEMMA TypedKept ==
  ASSUME IInv, [Next]_vars
  PROVE  Typed'
<1> USE DEF Half, Frame, IInv, Open, ClientGoes, ClientFails, AgentSide,
        ClientSide, MainSide,
        clientVars, pumpVars, childVars, UpBroken
<1>1. \A frame : NextDown(frame) => Popped(frame)
  BY PopDown DEF IInv
<1>2. \A half \in Writes : WriteDown(half) => Put(half)
  BY PutDown DEF IInv
<1>3. \A kind : NextUp(kind) => PoppedUp(kind)
  BY PopUp DEF IInv
<1>4. \A frame \in UpFrames : SendUp(frame) => PutUpAs(frame)
  BY PutUp DEF IInv
<1>5. Cut => Shortened
  BY CutPipes DEF IInv
<1>6. FramesWritten
  BY FramesKnown DEF IInv
<1>7. CASE SayHello
  BY <1>7, <1>4, <1>6
  DEF SayHello, PutUpAs, FramesWritten, Typed, Early
<1>8. CASE SendExec \/ SendEof
  BY <1>8, <1>4, <1>6
  DEF SendExec, SendEof, PutUpAs, FramesWritten, Typed, Early
<1>9. CASE ForwardStdin
  <2>1. /\ UNCHANGED <<cut, client, agent, sink, fed>>
        /\ stdin = "read" /\ client # "done"
        /\ typed \in Nat /\ Len(fed) \in Nat
    BY <1>9, Numbers DEF ForwardStdin
  <2>2. CASE UNCHANGED <<up, typed>> /\ stdin' = "end"
    BY <2>1, <2>2 DEF Typed
  <2>3. CASE SendUp(Frame("EOF", 0)) /\ stdin' = "end" /\ typed' = typed
    <3>1. PutUpAs(Frame("EOF", 0))
      BY <2>3, <1>4, <1>6 DEF FramesWritten
    <3> QED BY <2>1, <2>3, <3>1 DEF Typed, PutUpAs
  <2>4. CASE typed < MaxIn /\ SendUp(Frame("data", typed + 1)) /\ typed' = typed + 1
    <3>1. PutUpAs([kind |-> "data", value |-> typed + 1])
      BY <2>4, <1>4, <1>6 DEF FramesWritten
    <3>2. /\ \A f \in ToSet(up) : f \in UpFrames
          /\ up = <<>> => typed = Len(fed)
      BY <2>1, <3>1, LenProperties DEF Typed, PutUpAs, ToSet, TypeOK, Streams
    <3>3. \A f \in ToSet(up') : f.kind = "data" => f.value <= typed'
      BY <2>1, <2>4, <3>1, <3>2 DEF Typed, PutUpAs, UpFrames
    <3> QED BY <2>1, <2>4, <3>1, <3>2, <3>3 DEF Typed, PutUpAs
  <2> QED BY <1>9, <2>2, <2>3, <2>4 DEF ForwardStdin
<1>10. CASE ReadAck \/ ShowData \/ ReadExit \/ ReadEnd \/ ReadFailure
            \/ WaitForSsh \/ ClientDies \/ AgentDies
  BY <1>10, <1>1
  DEF ReadAck, ShowData, ReadExit, ReadEnd, ReadFailure, WaitForSsh, ClientDies,
      AgentDies, Popped, Typed
<1>11. CASE ReadHello
  BY <1>11, <1>3
  DEF ReadHello, PoppedUp, Typed, FollowsUp, Early
<1>12. CASE ReadExec
  BY <1>12, <1>3
  DEF ReadExec, PoppedUp, Typed, FollowsUp, Early
<1>13. CASE WriteAck \/ WriteError \/ WriteExit \/ PollChild
  BY <1>13, <1>2, <1>6
  DEF WriteAck, WriteError, WriteExit, PollChild, Put, FramesWritten,
      WriteFrame, Typed
<1>14. CASE Sink
  <2>1. UNCHANGED <<cut, client, agent, stdin, typed>>
    BY <1>14 DEF Sink
  <2>2. CASE NextUp("data") /\ fed' = Append(fed, Head(up).value)
    <3>1. PoppedUp("data")
      BY <2>2, <1>3
    <3>2. /\ Head(up).value = Len(fed) + 1 /\ up[1].value <= typed /\ up[1].value \in 0..MaxIn
          /\ Len(fed) \in Nat /\ typed \in Nat
      BY <3>1, Numbers DEF PoppedUp, Typed, UpFrames
    <3>3. /\ Len(fed') = Len(fed) + 1 /\ fed'[Len(fed) + 1] = Len(fed) + 1
          /\ \A i \in 1..Len(fed) : fed'[i] = fed[i]
      BY <2>2, <3>2, Numbers, AppendProperties
    <3>4. \A i \in 1..Len(fed') : i = Len(fed) + 1 \/ i \in 1..Len(fed)
      BY <3>2, <3>3
    <3>5. Len(fed') <= typed' /\ \A i \in 1..Len(fed') : fed'[i] = i
      BY <2>1, <3>1, <3>2, <3>3, <3>4 DEF Typed, PoppedUp
    <3>6. up' # <<>> => up'[1].kind # "exec" /\ (up'[1].kind = "data" => up'[1].value = Len(fed') + 1)
      BY <3>1, <3>2, <3>3 DEF PoppedUp, FollowsUp
    <3>7. stdin = "read" /\ ~UpBroken /\ client # "done" /\ up' = <<>> => typed = Len(fed')
      BY <3>1, <3>2, <3>3 DEF PoppedUp, Typed
    <3> QED BY <2>1, <3>1, <3>5, <3>6, <3>7 DEF Typed, PoppedUp
  <2>3. CASE NextUp("EOF") /\ UNCHANGED fed
    <3>1. PoppedUp("EOF")
      BY <2>3, <1>3
    <3> QED BY <2>1, <2>3, <3>1 DEF Typed, PoppedUp, FollowsUp
  <2>4. CASE UNCHANGED <<up, fed>> /\ sink' = "end"
    BY <1>14, <2>1, <2>4 DEF Typed, NothingUp, Sink
  <2> QED BY <1>14, <2>2, <2>3, <2>4 DEF Sink
<1>15. CASE Cut
  BY <1>15, <1>5
  DEF Cut, Shortened, Typed
<1>16. CASE PumpRead \/ PumpLock \/ PumpPayload \/ ChildWrites \/ ChildExits
          \/ UNCHANGED vars
  <2>1. UNCHANGED <<up, typed, fed, sink, stdin, cut, agent, client>>
    BY <1>16
    DEF PumpRead, PumpLock, PumpPayload, ChildWrites, ChildExits, vars
  <2> QED BY <2>1 DEF Typed
<1> QED
  BY <1>7, <1>8, <1>9, <1>10, <1>11, <1>12, <1>13, <1>14, <1>15, <1>16
  DEF Next, ClientStep, MainStep, PumpStep, Over

\* The exit code that is told is the child's.
LEMMA TruthfulKept ==
  ASSUME IInv, [Next]_vars
  PROVE  Truthful'
<1> USE DEF Half, Frame, IInv, Open, ClientGoes, ClientFails, AgentSide,
        ClientSide, MainSide,
        clientVars, pumpVars, childVars, Told
<1>1. \A frame : NextDown(frame) => Popped(frame)
  BY PopDown DEF IInv
<1>2. \A half \in Writes : WriteDown(half) => Put(half)
  BY PutDown DEF IInv
<1>3. \A kind : NextUp(kind) => PoppedUp(kind)
  BY PopUp DEF IInv
<1>4. \A frame \in UpFrames : SendUp(frame) => PutUpAs(frame)
  BY PutUp DEF IInv
<1>5. Cut => Shortened
  BY CutPipes DEF IInv
<1>6. FramesWritten
  BY FramesKnown DEF IInv
<1>7. CASE SayHello \/ SendExec \/ SendEof \/ ReadEnd \/ WaitForSsh
           \/ ClientDies \/ AgentDies
  BY <1>7, <1>4, <1>6, CodesAssumption
  DEF SayHello, SendExec, SendEof, ReadEnd, WaitForSsh, ClientDies, AgentDies,
      PutUpAs, FramesWritten, Truthful, Error
<1>8. CASE ReadAck
  BY <1>8, <1>1, CodesAssumption
  DEF ReadAck, Popped, Truthful, Error
<1>9. CASE ShowData
  BY <1>9, <1>1
  DEF ShowData, Popped, Truthful
<1>10. CASE ReadExit
  <2>1. PICK c \in Codes : NextDown(Frame("exit", c)) /\ result' = c
    BY <1>10 DEF ReadExit
  <2>2. <<1, Frame("exit", c)>> \in ToSet(down) /\ ToSet(down') \subseteq ToSet(down)
    BY <2>1, <1>1 DEF Popped
  <2>3. Told(c)
    BY <2>2 DEF Truthful
  <2>4. UNCHANGED <<call, closed, agent, code, child>>
    BY <1>10 DEF ReadExit
  <2> QED BY <2>1, <2>2, <2>3, <2>4 DEF Truthful
<1>11. CASE ReadFailure
  BY <1>11, <1>1, CodesAssumption
  DEF ReadFailure, Popped, Truthful, Error
<1>12. CASE ReadHello
  BY <1>12, <1>3
  DEF ReadHello, PoppedUp, Truthful
<1>13. CASE WriteAck \/ WriteError
  BY <1>13, <1>2, <1>6
  DEF WriteAck, WriteError, Put, FramesWritten, WriteFrame, Truthful
<1>14. CASE WriteExit
  <2>1. /\ agent = "exit" /\ UNCHANGED <<call, closed, code, child, result>>
        /\ code \in Codes
    BY <1>14 DEF WriteExit, TypeOK, Places
  <2>2. CASE UNCHANGED down /\ agent' = "gone"
    BY <2>1, <2>2 DEF Truthful
  <2>3. CASE WriteDown(Half(1, Frame("exit", code))) /\ agent' = agent
    <3>1. Put(<<1, [kind |-> "exit", value |-> code]>>)
      BY <2>3, <1>2, <1>6 DEF FramesWritten
    <3> QED BY <2>1, <2>3, <3>1 DEF Truthful, Put
  <2>4. CASE WriteDown(Half(2, Frame("exit", code))) /\ agent' = "gone"
    <3>1. Put(<<2, [kind |-> "exit", value |-> code]>>)
      BY <2>4, <1>2, <1>6 DEF FramesWritten
    <3> QED BY <2>1, <2>4, <3>1 DEF Truthful, Put
  <2> QED BY <1>14, <2>2, <2>3, <2>4 DEF WriteExit, WriteFrame
<1>15. CASE ReadExec
  BY <1>15, <1>3, CodesAssumption
  DEF ReadExec, PoppedUp, Truthful, Early
<1>16. CASE PollChild
  <2>1. /\ agent = "wait" /\ agent' = "exit" /\ UNCHANGED <<call, closed, down, result>>
        /\ (closed /\ code' = Zero) \/ (child \in Codes /\ code' = child /\ child' = child)
        /\ child \in Codes => child' = child
    BY <1>16 DEF PollChild, Ended
  <2>2. \A c \in Codes : Told(c) => Told(c)'
    BY <2>1
  <2>3. Told(code)'
    BY <2>1 DEF Truthful
  <2> QED BY <2>1, <2>2, <2>3 DEF Truthful
<1>17. CASE PumpRead
  BY <1>17
  DEF PumpRead, Truthful
<1>18. CASE PumpLock \/ PumpPayload
  BY <1>18, <1>2, <1>6
  DEF PumpLock, PumpPayload, Put, FramesWritten, Truthful
<1>19. CASE ChildExits
  <2>1. /\ child \notin Codes /\ UNCHANGED <<agent, code, call, closed, down, result>>
    BY <1>19, CodesAssumption DEF ChildExits
  <2>2. \A c \in Codes : Told(c) => Told(c)'
    BY <2>1
  <2>3. code \in Codes
    BY DEF TypeOK, Places
  <2> QED BY <2>1, <2>2, <2>3 DEF Truthful
<1>20. CASE Cut
  BY <1>20, <1>5
  DEF Cut, Shortened, Truthful
<1>21. CASE ForwardStdin \/ Sink \/ ChildWrites
          \/ UNCHANGED vars
  <2>1. UNCHANGED <<call, closed, agent, code, down, result, child>>
    BY <1>21
    DEF ForwardStdin, Sink, ChildWrites, vars
  <2> QED BY <2>1 DEF Truthful
<1> QED
  BY <1>7, <1>8, <1>9, <1>10, <1>11, <1>12, <1>13, <1>14, <1>15, <1>16, <1>17,
     <1>18, <1>19, <1>20, <1>21
  DEF Next, ClientStep, MainStep, PumpStep, Over

\* The pipes hold frames, and the streams pieces.
LEMMA StreamsKept ==
  ASSUME IInv, [Next]_vars
  PROVE  Streams'
<1> USE BoundsAssumption DEF IInv, TypeOK, Streams, ClientGoes, ClientFails,
        AgentSide, ClientSide, MainSide,
        clientVars, pumpVars, childVars
<1>1. \A frame : NextDown(frame) => Popped(frame)
  BY PopDown DEF IInv
<1>2. \A half \in Writes : WriteDown(half) => Put(half)
  BY PutDown DEF IInv
<1>3. \A kind : NextUp(kind) => PoppedUp(kind)
  BY PopUp DEF IInv
<1>4. \A frame \in UpFrames : SendUp(frame) => PutUpAs(frame)
  BY PutUp DEF IInv
<1>5. FramesWritten
  BY FramesKnown DEF IInv
<1>6. (down \in Seq({1, 2} \X DownFrames))'
  <2>1. CASE ReadAck \/ ShowData \/ ReadExit \/ ReadFailure
    BY <2>1, <1>1
    DEF ReadAck, ShowData, ReadExit, ReadFailure, Popped, Writes
  <2>2. CASE WriteAck \/ WriteError \/ WriteExit
    BY <2>2, <1>2, <1>5
    DEF WriteAck, WriteError, WriteExit, WriteFrame, Put, FramesWritten, Writes
  <2>3. CASE PumpLock \/ PumpPayload
    BY <2>3, <1>2, <1>5
    DEF PumpLock, PumpPayload, Put, FramesWritten, Writes
  <2>4. CASE Cut
    BY <2>4, CutPipes
    DEF Cut, Shortened, Writes
  <2>5. CASE UNCHANGED down
    BY <2>5
  <2> QED
    BY <2>1, <2>2, <2>3, <2>4, <2>5
    DEF Next, ClientStep, MainStep, PumpStep, Over, vars,
        SayHello, SendExec, SendEof, ForwardStdin, ReadEnd, WaitForSsh,
        ClientDies, AgentDies, ReadHello, ReadExec, PollChild, PumpRead, Sink,
        ChildWrites, ChildExits
<1>7. (up \in Seq(UpFrames))'
  <2>1. CASE SayHello \/ SendExec \/ SendEof \/ ForwardStdin
    BY <2>1, <1>4, <1>5
    DEF SayHello, SendExec, SendEof, ForwardStdin, PutUpAs, FramesWritten
  <2>2. CASE ReadHello \/ ReadExec \/ Sink
    BY <2>2, <1>3
    DEF ReadHello, ReadExec, Sink, PoppedUp
  <2>3. CASE Cut
    BY <2>3, CutPipes
    DEF Cut, Shortened
  <2>4. CASE UNCHANGED up
    BY <2>4
  <2> QED
    BY <2>1, <2>2, <2>3, <2>4
    DEF Next, ClientStep, MainStep, PumpStep, Over, vars,
        ReadAck, ShowData, ReadExit, ReadEnd, ReadFailure, WaitForSsh,
        ClientDies, AgentDies, WriteAck, WriteError, WriteExit, PollChild,
        PumpRead, PumpLock, PumpPayload, ChildWrites, ChildExits, WriteFrame
<1>8. (typed \in 0..MaxIn /\ fed \in Seq(1..MaxIn))'
  <2>1. CASE ForwardStdin
    BY <2>1
    DEF ForwardStdin
  <2>2. CASE Sink
    <3>1. CASE UNCHANGED fed
      BY <2>2, <3>1 DEF Sink
    <3>2. CASE NextUp("data") /\ fed' = Append(fed, Head(up).value)
      <4>1. PoppedUp("data")
        BY <3>2, <1>3
      <4>2. Head(up).value \in 0..MaxIn /\ Head(up).value = Len(fed) + 1
        BY <4>1 DEF PoppedUp, Typed, UpFrames
      <4>3. Head(up).value \in 1..MaxIn
        BY <4>2, Numbers
      <4>4. fed' \in Seq(1..MaxIn)
        BY <3>2, <4>3, AppendProperties
      <4> QED BY <2>2, <4>4 DEF Sink
    <3> QED BY <2>2, <3>1, <3>2 DEF Sink
  <2>3. CASE UNCHANGED <<typed, fed>>
    BY <2>3
  <2> QED
    BY <2>1, <2>2, <2>3
    DEF Next, ClientStep, MainStep, PumpStep, Over, vars,
        SayHello, ReadAck, SendExec, SendEof, ShowData, ReadExit, ReadEnd,
        ReadFailure, WaitForSsh, ClientDies, AgentDies, ReadHello, WriteAck,
        WriteError, WriteExit, ReadExec, PollChild, PumpRead, PumpLock,
        PumpPayload, ChildWrites, ChildExits, Cut, WriteFrame
<1>9. (made \in 0..MaxOut /\ pty \in Seq(Pieces) /\ Len(pty) <= Cap)'
  <2>1. CASE ChildWrites
    <3>1. made + 1 \in Pieces /\ made' \in 0..MaxOut
      BY <2>1 DEF ChildWrites, Pieces
    <3> QED BY <2>1, <3>1, AppendProperties, Numbers DEF ChildWrites
  <2>2. CASE PumpRead
    <3>1. CASE UNCHANGED pty
      BY <2>2, <3>1 DEF PumpRead
    <3>2. CASE pty # <<>> /\ pty' = Tail(pty)
      BY <2>2, <3>2, HeadTailProperties, Numbers DEF PumpRead
    <3> QED BY <2>2, <3>1, <3>2 DEF PumpRead
  <2>3. CASE UNCHANGED <<made, pty>>
    BY <2>3
  <2> QED
    BY <2>1, <2>2, <2>3
    DEF Next, ClientStep, MainStep, PumpStep, Over, vars,
        SayHello, ReadAck, SendExec, SendEof, ForwardStdin, ShowData, ReadExit,
        ReadEnd, ReadFailure, WaitForSsh, ClientDies, AgentDies, ReadHello,
        WriteAck, WriteError, WriteExit, ReadExec, PollChild, PumpLock,
        PumpPayload, Sink, ChildExits, Cut, WriteFrame
<1>10. (piece \in Pieces \cup {0})'
  <2>1. CASE PumpRead
    BY <2>1, HeadTailProperties
    DEF PumpRead
  <2>2. CASE UNCHANGED piece
    BY <2>2
  <2> QED
    BY <2>1, <2>2
    DEF Next, ClientStep, MainStep, PumpStep, Over, vars,
        SayHello, ReadAck, SendExec, SendEof, ForwardStdin, ShowData, ReadExit,
        ReadEnd, ReadFailure, WaitForSsh, ClientDies, AgentDies, ReadHello,
        WriteAck, WriteError, WriteExit, ReadExec, PollChild, PumpLock,
        PumpPayload, Sink, ChildWrites, ChildExits, Cut, WriteFrame
<1>11. (shown \in Seq(Pieces))'
  <2>1. CASE ShowData
    BY <2>1, AppendProperties
    DEF ShowData
  <2>2. CASE UNCHANGED shown
    BY <2>2
  <2> QED
    BY <2>1, <2>2
    DEF Next, ClientStep, MainStep, PumpStep, Over, vars,
        SayHello, ReadAck, SendExec, SendEof, ForwardStdin, ReadExit, ReadEnd,
        ReadFailure, WaitForSsh, ClientDies, AgentDies, ReadHello, WriteAck,
        WriteError, WriteExit, ReadExec, PollChild, PumpRead, PumpLock,
        PumpPayload, Sink, ChildWrites, ChildExits, Cut, WriteFrame
<1> QED BY <1>6, <1>7, <1>8, <1>9, <1>10, <1>11 DEF Streams

-----------------------------------------------------------------------------
(* The theorems. *)

\* Whatever either side, its threads and the connection do, the steps above
\* are all that is done to the two pipes and the two streams.
THEOREM Invariance == Spec => []IInv
<1>1. IInv /\ [Next]_vars => IInv'
  BY FlagsKept, PlacesKept, StreamsKept, ChainedKept, ChainedUpKept, LockedKept,
     EarlyKept, OnTheWayKept, PumpedKept, TypedKept, TruthfulKept
  DEF IInv, TypeOK
<1> QED BY InitInv, <1>1, PTL DEF Spec

\* TypeOK holds of both sides, their threads and the pipes.
THEOREM TypeCorrect == Spec => []TypeOK
<1>1. IInv => TypeOK
  BY DEF IInv
<1> QED BY Invariance, <1>1, PTL

\* A stream of the numbers from 1 is the beginning of a longer one.
LEMMA Beginning ==
  ASSUME NEW s, NEW S, s \in Seq(S), NEW n \in Nat, Len(s) <= n,
         \A i \in 1..Len(s) : s[i] = i
  PROVE  IsPrefix(s, [i \in 1..n |-> i])
<1> DEFINE all == [i \in 1..n |-> i]
<1>1. all \in Seq(Nat) /\ Len(all) = n /\ \A i \in 1..n : all[i] = i
  <2>1. \A i \in 1..n : i \in Nat
    OBVIOUS
  <2> QED BY <2>1, SeqDef
<1>2. Len(s) \in Nat /\ s \in Seq(Nat)
  <2>1. Len(s) \in Nat /\ s \in [1..Len(s) -> S] /\ DOMAIN s = 1..Len(s)
    BY LenProperties
  <2>2. s \in [1..Len(s) -> Nat]
    BY <2>1
  <2> QED BY <2>1, <2>2, SeqDef
<1> HIDE DEF all
<1>3. SubSeq(s, 1, Len(s)) = s
  BY <1>2, SubSeqFull
<1>4. /\ SubSeq(all, 1, Len(s)) \in Seq(Nat)
      /\ Len(SubSeq(all, 1, Len(s))) = Len(s)
      /\ \A i \in 1..Len(s) : SubSeq(all, 1, Len(s))[i] = i
  <2>1. \A i \in 1..Len(s) : i \in 1..n /\ all[i] \in Nat
    BY <1>1, <1>2
  <2> QED BY <1>1, <1>2, <2>1, SubSeqProperties
<1>5. s = SubSeq(all, 1, Len(s))
  BY <1>2, <1>4, SeqEqual
<1>6. IsPrefix(s, all)
  BY <1>1, <1>3, <1>5 DEF IsPrefix
<1> QED BY <1>6 DEF all

\* StreamsInOrder: whatever is lost and whoever dies, the client can decode
\* what it gets, and what it showed and what the child was fed are the
\* beginning of what was made and typed. pump_pty_to_tunnel and the main thread
\* share the writer, and a frame is written under its lock.
THEOREM InOrder == Spec => []StreamsInOrder
<1>1. IInv => StreamsInOrder
  <2> SUFFICES ASSUME IInv PROVE StreamsInOrder
    OBVIOUS
  <2>1. FramesWhole
    <3>1. Len(down) \in Nat
      BY LenProperties DEF IInv, TypeOK, Streams
    <3>2. Len(down) >= 2 => 1 \in 1..(Len(down) - 1) /\ down # <<>>
      BY <3>1
    <3>3. Len(down) >= 2 => down[1 + 1] = Half(2, down[1][2])
      BY <3>2 DEF IInv, Chained, Follows
    <3> QED BY <3>3 DEF FramesWhole, Garbled
  <2>2. OutputInOrder
    BY Numbers, Beginning DEF IInv, OnTheWay, OutputInOrder
  <2>3. InputInOrder
    BY Numbers, Beginning DEF IInv, Typed, InputInOrder
  <2> QED BY <2>1, <2>2, <2>3 DEF StreamsInOrder
<1> QED BY Invariance, <1>1, PTL

\* ExitTruthful: the client of run_local_session returns 0 or another code of
\* the inner brokre only when that is how the child ended, or the elevated
\* session said that its shared connection was closed.
THEOREM ToldTruly == Spec => []ExitTruthful
<1>1. IInv => ExitTruthful
  BY DEF IInv, Truthful, Told, ExitTruthful
<1> QED BY Invariance, <1>1, PTL

=============================================================================
