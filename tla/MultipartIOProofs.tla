--------------------------- MODULE MultipartIOProofs ---------------------------
(***************************************************************************)
(* The safety of MultipartIO for any number of messages, of frames in a    *)
(* message and of interruptions.                                           *)
(***************************************************************************)
EXTENDS MultipartIO, SequenceTheorems, TLAPS

-----------------------------------------------------------------------------
(***************************************************************************)
(* The log of the frames sent: messages one after the other.  Where the    *)
(* message of a frame begins is told by the number of the frame.           *)
(***************************************************************************)
Start(log, i) == i - log[i].part + 1

\* Every frame sits in its message.
InBlock(log, i) ==
  /\ Start(log, i) >= 1
  /\ \A j \in 1..Len(log) :
       Start(log, i) <= j /\ j < Start(log, i) + Parts
         => log[j] = [msg |-> log[i].msg, part |-> j - Start(log, i) + 1]
Blocks(log) == \A i \in 1..Len(log) : InBlock(log, i)

\* A message begins where another one ended.
Begins(log) ==
  \A i \in 1..Len(log) : (i = 1 \/ log[i - 1].part = Parts) => log[i].part = 1

LastWhole(log) == Len(log) = 0 \/ log[Len(log)].part = Parts

\* A frame that goes next to the log: the next one of the message under way, or
\* the first one of a message.
Continues(log, frame) ==
  IF frame.part = 1 THEN LastWhole(log)
  ELSE Len(log) > 0 /\ log[Len(log)] = [msg |-> frame.msg, part |-> frame.part - 1]

LEMMA LogGrows ==
  ASSUME NEW log \in Seq(Frame), Blocks(log), Begins(log),
         NEW frame \in Frame, Continues(log, frame)
  PROVE  Blocks(Append(log, frame)) /\ Begins(Append(log, frame))
<1> DEFINE n == Len(log)
           longer == Append(log, frame)
<1>1. /\ n \in Nat /\ longer \in Seq(Frame) /\ Len(longer) = n + 1
      /\ longer[n + 1] = frame /\ \A i \in 1..n : longer[i] = log[i] /\ longer[i] \in Frame
  BY AppendProperties
<1>2. /\ Parts \in Nat \ {0}
      /\ \A f \in Frame : f.part \in 1..Parts /\ f.msg \in Message
                          /\ f = [msg |-> f.msg, part |-> f.part]
  BY MultipartAssumption DEF Frame
<1> HIDE DEF longer
<1>3. ASSUME NEW i \in 1..n PROVE InBlock(longer, i)
  <2> DEFINE s == Start(log, i)
  <2>1. /\ Start(longer, i) = s /\ s \in Int /\ s >= 1 /\ s <= i
        /\ longer[i] = log[i]
    BY <1>1, <1>2 DEF Start, Blocks, InBlock
  <2>2. ASSUME NEW j \in 1..n, s <= j, j < s + Parts
        PROVE  longer[j] = [msg |-> log[i].msg, part |-> j - s + 1]
    BY <1>1, <2>2 DEF Blocks, InBlock
  <2> HIDE DEF s
  <2>3. ASSUME n + 1 < s + Parts
        PROVE  longer[n + 1] = [msg |-> log[i].msg, part |-> n + 1 - s + 1]
    <3>0. n \in 1..n /\ s <= n /\ n < s + Parts
      BY <1>1, <1>2, <2>1, <2>3
    <3>1. log[n] = [msg |-> log[i].msg, part |-> n - s + 1] /\ n \in 1..n
      BY <1>1, <2>2, <3>0
    <3>2. log[n].part = n - s + 1 /\ log[n].part # Parts /\ log[n].msg = log[i].msg
      BY <1>1, <1>2, <2>1, <2>3, <3>1
    <3>3. frame.part # 1
      BY <1>1, <3>1, <3>2 DEF Continues, LastWhole
    <3>4. log[n] = [msg |-> frame.msg, part |-> frame.part - 1]
      BY <3>3 DEF Continues
    <3>5. frame.msg = log[i].msg /\ frame.part - 1 = n - s + 1
      BY <3>2, <3>4
    <3>6. frame.part = n + 1 - s + 1
      BY <1>1, <1>2, <2>1, <3>5
    <3> QED  BY <1>1, <1>2, <3>5, <3>6
  <2>4. ASSUME NEW j \in 1..n + 1, s <= j, j < s + Parts
        PROVE  longer[j] = [msg |-> log[i].msg, part |-> j - s + 1]
    <3>1. CASE j \in 1..n
      BY <2>2, <2>4, <3>1
    <3>2. CASE j = n + 1
      BY <1>1, <2>1, <2>3, <2>4, <3>2
    <3> QED  BY <1>1, <3>1, <3>2
  <2> QED  BY <1>1, <2>1, <2>4 DEF InBlock
<1>4. InBlock(longer, n + 1)
  <2> DEFINE s == n + 1 - frame.part + 1
  <2>0. frame.part \in 1..Parts
    BY <1>2
  <2>1. Start(longer, n + 1) = s /\ s \in Int
    BY <1>1, <1>2, <2>0 DEF Start
  <2>2. CASE frame.part = 1
    <3>1. s = n + 1
      BY <1>1, <2>2
    <3>2. ASSUME NEW j \in 1..n + 1, s <= j
          PROVE  longer[j] = [msg |-> frame.msg, part |-> j - s + 1]
      BY <1>1, <1>2, <2>2, <3>1, <3>2
    <3> QED  BY <1>1, <2>1, <3>1, <3>2 DEF InBlock
  <2>3. CASE frame.part # 1
    <3>1. n \in 1..n /\ log[n] = [msg |-> frame.msg, part |-> frame.part - 1]
      BY <1>1, <2>3 DEF Continues
    <3>2. log[n].part = frame.part - 1 /\ log[n].msg = frame.msg
      BY <3>1
    <3>3. Start(log, n) = s
      BY <1>1, <1>2, <3>2 DEF Start
    <3>4. InBlock(longer, n) /\ Start(longer, n) = s /\ longer[n].msg = frame.msg
      BY <1>1, <1>3, <3>1, <3>2, <3>3 DEF Start
    <3> QED  BY <1>1, <2>1, <3>4 DEF InBlock
  <2> QED  BY <2>2, <2>3
<1>5. Blocks(longer)
  BY <1>1, <1>3, <1>4 DEF Blocks
<1>6. Begins(longer)
  <2> SUFFICES ASSUME NEW i \in 1..n + 1, i = 1 \/ longer[i - 1].part = Parts
               PROVE  longer[i].part = 1
    BY <1>1 DEF Begins
  <2>1. CASE i \in 1..n
    <3>1. i = 1 \/ (i - 1 \in 1..n /\ longer[i - 1] = log[i - 1])
      BY <1>1, <2>1
    <3> QED  BY <1>1, <2>1, <3>1 DEF Begins
  <2>2. CASE i = n + 1 /\ frame.part # 1
    <3>1. n \in 1..n /\ log[n] = [msg |-> frame.msg, part |-> frame.part - 1]
      BY <1>1, <2>2 DEF Continues
    <3>2. log[n].part = frame.part - 1 /\ i - 1 = n /\ i # 1
      BY <1>1, <2>2, <3>1
    <3> QED  BY <1>1, <1>2, <3>1, <3>2
  <2>3. CASE i = n + 1 /\ frame.part = 1
    BY <1>1, <2>3
  <2> QED  BY <1>1, <2>1, <2>2, <2>3
<1> QED  BY <1>5, <1>6 DEF longer

-----------------------------------------------------------------------------
(***************************************************************************)
(* Types.                                                                  *)
(***************************************************************************)
CallerState == {"none", "putting", "returned", "expired"}
SenderState == [at : {"ready", "sending", "ended"}, msg : 0..Messages, part : 1..Parts,
                caught : BOOLEAN, again : BOOLEAN]

\* The parts gathered, as a sequence of at most Parts frames.
LEMMA Gathered ==
  ASSUME NEW parts
  PROVE  parts \in BoundedSeq(Frame, Parts) <=> parts \in Seq(Frame) /\ Len(parts) <= Parts
<1>1. ASSUME parts \in BoundedSeq(Frame, Parts)
      PROVE  parts \in Seq(Frame) /\ Len(parts) <= Parts
  <2>1. PICK n \in 0..Parts : parts \in [1..n -> Frame]
    BY <1>1 DEF BoundedSeq, SeqOf
  <2>2. parts \in Seq(Frame) /\ Len(parts) = n
    BY <2>1, MultipartAssumption
  <2> QED  BY <2>1, <2>2, MultipartAssumption
<1>2. ASSUME parts \in Seq(Frame), Len(parts) <= Parts
      PROVE  parts \in BoundedSeq(Frame, Parts)
  <2>1. Len(parts) \in 0..Parts /\ parts \in [1..Len(parts) -> Frame]
    BY <1>2, LenProperties, MultipartAssumption
  <2> QED  BY <2>1 DEF BoundedSeq, SeqOf
<1> QED  BY <1>1, <1>2

\* The parts of the type invariant, those of the receiver spelled out.
Types ==
  /\ caller \in [Message -> CallerState] /\ sender \in SenderState
  /\ receiver = [at |-> receiver.at, parts |-> receiver.parts, caught |-> receiver.caught,
                 again |-> receiver.again]
  /\ receiver.at \in {"receiving", "putting", "ended"}
  /\ receiver.parts \in Seq(Frame) /\ Len(receiver.parts) <= Parts
  /\ receiver.at = "receiving" => Len(receiver.parts) < Parts
  /\ receiver.at = "putting" => Len(receiver.parts) = Parts
  /\ receiver.caught \in BOOLEAN /\ receiver.again \in BOOLEAN
  /\ frames \in Seq(Frame) /\ sentLog \in Seq(Frame) /\ got \in Seq(Seq(Frame))
  /\ left \in [{"sender", "receiver"} -> 0..Interruptions]

-----------------------------------------------------------------------------
(***************************************************************************)
(* Where the sender and the receiver are in the log.                       *)
(***************************************************************************)
\* The frame to send next continues the log, and a greenlet that does not send
\* left it whole; only messages that were taken are in it.
InMessage ==
  /\ Blocks(sentLog) /\ Begins(sentLog)
  /\ sender.at = "sending" =>
       /\ sender.msg \in Message /\ caller[sender.msg] = "returned"
       /\ Continues(sentLog, [msg |-> sender.msg, part |-> sender.part])
  /\ sender.at = "ready" => ~sender.again
  /\ sender.at # "sending" /\ ~sender.again => LastWhole(sentLog)
  /\ \A i \in 1..Len(sentLog) : caller[sentLog[i].msg] = "returned"

\* How many frames the messages received had; the rest of the log is what was
\* gathered and what is under way.
Before == Len(got) * Parts
Aligned ==
  LET L == Len(receiver.parts) IN
  /\ Len(sentLog) = Before + L + Len(frames)
  /\ \A k \in 1..L : receiver.parts[k] = sentLog[Before + k]
  /\ \A k \in 1..Len(frames) : frames[k] = sentLog[Before + L + k]
  /\ Before = 0 \/ sentLog[Before].part = Parts
Gotten ==
  \A i \in 1..Len(got) :
    /\ \E m \in Message : got[i] = Whole(m)
    /\ \A k \in 1..Parts : /\ (i - 1) * Parts + k \in 1..Before
                            /\ got[i][k] = sentLog[(i - 1) * Parts + k]

IInv == Types /\ InMessage /\ Aligned /\ Gotten

LEMMA InitCorrect == Init => IInv
<1> SUFFICES ASSUME Init PROVE IInv
  OBVIOUS
<1> USE MultipartAssumption DEF Init, ReadySender, ReadyReceiver
<1>1. Types
  <2>1. /\ caller \in [Message -> CallerState] /\ sender \in SenderState
        /\ left \in [{"sender", "receiver"} -> 0..Interruptions]
    BY DEF CallerState, SenderState
  <2>2. /\ <<>> \in Seq(Frame) /\ <<>> \in Seq(Seq(Frame)) /\ Len(<<>>) = 0
    OBVIOUS
  <2>3. receiver.parts = <<>> /\ receiver.at = "receiving"
    OBVIOUS
  <2> QED  BY <2>1, <2>2, <2>3 DEF Types
<1>2. InMessage
  BY DEF InMessage, Blocks, Begins, LastWhole
<1>3. Aligned
  BY DEF Aligned, Before
<1>4. Gotten
  BY DEF Gotten
<1> QED  BY <1>1, <1>2, <1>3, <1>4 DEF IInv

\* A frame is sent: the log grows by the frame that comes next.
LEMMA SendFrameCorrect == IInv /\ SendFrame => IInv'
<1> SUFFICES ASSUME IInv, SendFrame PROVE IInv'
  OBVIOUS
<1> DEFINE n == Len(sentLog)
           frame == [msg |-> sender.msg, part |-> sender.part]
<1>0. Types /\ InMessage /\ Aligned /\ Gotten
  BY DEF IInv
<1>1. /\ sender.at = "sending" /\ frames' = Append(frames, frame)
      /\ sentLog' = Append(sentLog, frame) /\ UNCHANGED <<caller, receiver, got, left>>
      /\ sender' = IF sender.part < Parts
                   THEN [sender EXCEPT !.part = @ + 1, !.again = FALSE]
                   ELSE [ReadySender EXCEPT !.at = IF sender.caught THEN "ended" ELSE "ready"]
  BY DEF SendFrame
<1>2. /\ sender \in SenderState /\ sender.part \in 1..Parts /\ Parts \in Nat \ {0}
      /\ sender.msg \in Message /\ caller[sender.msg] = "returned"
      /\ sender.caught \in BOOLEAN
  BY <1>0, <1>1, MultipartAssumption DEF Types, InMessage, SenderState
<1>3. frame \in Frame /\ frame.part = sender.part /\ frame.msg = sender.msg
  BY <1>2 DEF Frame
<1>4. Blocks(sentLog') /\ Begins(sentLog')
  BY <1>0, <1>1, <1>3, LogGrows DEF Types, InMessage
<1>5. /\ sentLog \in Seq(Frame) /\ n \in Nat
      /\ sentLog' \in Seq(Frame) /\ Len(sentLog') = n + 1
      /\ sentLog'[n + 1] = frame /\ \A i \in 1..n : sentLog'[i] = sentLog[i]
  BY <1>0, <1>1, <1>3, AppendProperties DEF Types
<1>6. /\ frames \in Seq(Frame) /\ Len(frames) \in Nat
      /\ frames' \in Seq(Frame) /\ Len(frames') = Len(frames) + 1
      /\ frames'[Len(frames) + 1] = frame /\ \A i \in 1..Len(frames) : frames'[i] = frames[i]
  BY <1>0, <1>1, <1>3, AppendProperties DEF Types
<1>7. /\ sender' \in SenderState
      /\ sender.part < Parts => /\ sender'.at = "sending" /\ sender'.msg = sender.msg
                                 /\ sender'.part = sender.part + 1
      /\ sender.part = Parts => sender'.at # "sending" /\ ~sender'.again
  <2>1. CASE sender.part < Parts
    <3>1. sender' = [sender EXCEPT !.part = sender.part + 1, !.again = FALSE]
      BY <1>1, <2>1
    <3>2. sender.part + 1 \in 1..Parts /\ sender.part # Parts
      BY <1>2, <2>1
    <3>3. sender' \in SenderState
      BY <1>2, <3>1, <3>2 DEF SenderState
    <3>4. sender'.at = "sending" /\ sender'.msg = sender.msg /\ sender'.part = sender.part + 1
      BY <1>1, <1>2, <3>1 DEF SenderState
    <3> QED  BY <3>2, <3>3, <3>4
  <2>2. CASE sender.part = Parts
    <3>1. PICK at \in {"ended", "ready"} :
            sender' = [at |-> at, msg |-> 0, part |-> 1, caught |-> FALSE, again |-> FALSE]
      <4>1. ~(sender.part < Parts)
        BY <1>2, <2>2
      <4>2. sender' = [ReadySender EXCEPT !.at = IF sender.caught THEN "ended" ELSE "ready"]
        BY <1>1, <4>1
      <4>3. CASE sender.caught   BY <4>2, <4>3 DEF ReadySender
      <4>4. CASE ~sender.caught  BY <4>2, <4>4 DEF ReadySender
      <4> QED  BY <4>3, <4>4
    <3>2. sender' \in SenderState
      BY <1>2, <3>1, MultipartAssumption DEF SenderState
    <3> QED  BY <1>2, <2>2, <3>1, <3>2
  <2> QED  BY <1>2, <2>1, <2>2
<1>8. Types'
  <2>1. UNCHANGED <<caller, receiver, got, left>> /\ Types
    BY <1>0, <1>1
  <2> QED  BY <1>5, <1>6, <1>7, <2>1 DEF Types
<1>9. InMessage'
  <2>1. \A i \in 1..Len(sentLog') : caller'[sentLog'[i].msg] = "returned"
    <3> SUFFICES ASSUME NEW i \in 1..n + 1 PROVE caller[sentLog'[i].msg] = "returned"
      BY <1>1, <1>5
    <3>1. CASE i \in 1..n  BY <1>0, <1>5, <3>1 DEF InMessage
    <3>2. CASE i = n + 1    BY <1>2, <1>3, <1>5, <3>2
    <3> QED  BY <1>5, <3>1, <3>2
  <2>2. CASE sender.part < Parts
    <3> DEFINE next == [msg |-> sender'.msg, part |-> sender'.part]
    <3>1. /\ next.part = sender.part + 1 /\ next.msg = sender.msg /\ next.part # 1
          /\ next.part - 1 = sender.part
      BY <1>2, <1>7, <2>2
    <3>2. [msg |-> next.msg, part |-> next.part - 1] = frame
      BY <3>1
    <3>3. Len(sentLog') > 0 /\ sentLog'[Len(sentLog')] = frame
      BY <1>5
    <3> HIDE DEF next, frame
    <3>4. Continues(sentLog', next)
      BY <3>1, <3>2, <3>3 DEF Continues
    <3> QED  BY <1>1, <1>2, <1>4, <1>7, <2>1, <2>2, <3>4 DEF InMessage, next
  <2>3. CASE sender.part = Parts
    <3>1. LastWhole(sentLog')
      BY <1>3, <1>5, <2>3 DEF LastWhole
    <3> QED  BY <1>4, <1>7, <2>1, <2>3, <3>1 DEF InMessage
  <2> QED  BY <1>2, <2>2, <2>3
<1>10. Before' = Before /\ Before \in Nat /\ Len(got) \in Nat
  <2>1. Len(got) \in Nat
    BY <1>0 DEF Types
  <2> QED  BY <1>1, <1>2, <2>1 DEF Before
<1>11. Len(receiver.parts) \in Nat
  BY <1>0 DEF Types
<1>12. Aligned'
  <2> DEFINE L == Len(receiver.parts)
  <2>1. n = Before + L + Len(frames)
    BY <1>0 DEF Aligned
  <2>2. receiver' = receiver
    BY <1>1
  <2>3. Len(sentLog') = Before + L + Len(frames')
    <3>1. /\ n \in Nat /\ Len(frames) \in Nat /\ L \in Nat /\ Before \in Nat
          /\ Len(sentLog') = n + 1 /\ Len(frames') = Len(frames) + 1
      BY <1>5, <1>6, <1>10, <1>11
    <3> HIDE DEF n, L
    <3> QED  BY <2>1, <3>1
  <2>4. \A k \in 1..L : receiver.parts[k] = sentLog'[Before + k]
    <3>1. \A k \in 1..L : Before + k \in 1..n
      BY <1>5, <1>6, <1>10, <1>11, <2>1
    <3> QED  BY <1>0, <1>5, <3>1 DEF Aligned
  <2>5. ASSUME NEW k \in 1..Len(frames') PROVE frames'[k] = sentLog'[Before + L + k]
    <3>1. CASE k \in 1..Len(frames)
      <4>1. Before + L + k \in 1..n
        BY <1>5, <1>6, <1>10, <1>11, <2>1, <3>1
      <4> QED  BY <1>0, <1>5, <1>6, <3>1, <4>1 DEF Aligned
    <3>2. CASE k = Len(frames) + 1
      <4>1. Before + L + k = n + 1
        <5>1. n \in Nat /\ Len(frames) \in Nat /\ L \in Nat /\ Before \in Nat
          BY <1>5, <1>6, <1>10, <1>11
        <5> HIDE DEF n, L
        <5> QED  BY <2>1, <3>2, <5>1
      <4> QED  BY <1>5, <1>6, <3>2, <4>1
    <3> QED  BY <1>6, <3>1, <3>2
  <2>6. Before = 0 \/ (sentLog'[Before].part = Parts)
    <3>1. Before = 0 \/ Before \in 1..n
      BY <1>5, <1>6, <1>10, <1>11, <2>1
    <3> QED  BY <1>0, <1>5, <3>1 DEF Aligned
  <2> QED  BY <1>10, <2>2, <2>3, <2>4, <2>5, <2>6 DEF Aligned
<1>13. Gotten'
  <2>1. Before <= n
    <3>1. n = Before + Len(receiver.parts) + Len(frames)
      BY <1>0 DEF Aligned
    <3> QED  BY <1>6, <1>10, <1>11, <3>1
  <2>2. \A k \in 1..Before : sentLog'[k] = sentLog[k]
    BY <1>5, <1>10, <2>1
  <2>3. got' = got
    BY <1>1
  <2> QED  BY <1>0, <1>10, <2>2, <2>3 DEF Gotten
<1> QED  BY <1>8, <1>9, <1>12, <1>13 DEF IInv

\* The first frame that is not received yet begins a message, and those that were
\* gathered are the beginning of the message of the one that follows.
LEMMA FrameAhead ==
  ASSUME Types, InMessage, Aligned,
         NEW k \in 1..Len(receiver.parts) + Len(frames), k <= Parts
  PROVE  /\ Before + 1 \in 1..Len(sentLog) /\ Before + k \in 1..Len(sentLog)
         /\ sentLog[Before + k] = [msg |-> sentLog[Before + 1].msg, part |-> k]
         /\ sentLog[Before + 1].msg \in Message
<1> DEFINE n == Len(sentLog)
           L == Len(receiver.parts)
           F == Len(frames)
           b == Before
<1>1. /\ n \in Nat /\ L \in Nat /\ F \in Nat /\ Parts \in Nat \ {0} /\ sentLog \in Seq(Frame)
  BY MultipartAssumption DEF Types
<1>2. b \in Nat
  BY MultipartAssumption DEF Types, Before
<1>3. n = b + L + F /\ (b = 0 \/ sentLog[b].part = Parts)
  BY DEF Aligned
<1> HIDE DEF n, L, F, b
<1>4. b + 1 \in 1..n /\ b + k \in 1..n /\ (b + 1) - 1 = b /\ (b = 0 => b + 1 = 1)
  BY <1>1, <1>2, <1>3 DEF L, F
<1>5. sentLog[b + 1].part = 1
  BY <1>3, <1>4 DEF InMessage, Begins, n
<1>6. sentLog[b + 1] \in Frame
  BY <1>1, <1>4 DEF n
<1>7. Start(sentLog, b + 1) = b + 1
  BY <1>2, <1>5 DEF Start
<1>8. b + 1 <= b + k /\ b + k < b + 1 + Parts /\ (b + k) - (b + 1) + 1 = k
  BY <1>1, <1>2
<1>9. InBlock(sentLog, b + 1)
  BY <1>4 DEF InMessage, Blocks, n
<1>10. sentLog[b + k] = [msg |-> sentLog[b + 1].msg, part |-> (b + k) - (b + 1) + 1]
  BY <1>4, <1>7, <1>8, <1>9 DEF InBlock, n
<1> QED  BY <1>4, <1>6, <1>8, <1>10 DEF Frame, n, b

\* A frame is received: it is the one that follows those that were gathered.
LEMMA RecvFrameCorrect == IInv /\ RecvFrame => IInv'
<1> SUFFICES ASSUME IInv, RecvFrame PROVE IInv'
  OBVIOUS
<1> DEFINE L == Len(receiver.parts)
           F == Len(frames)
           frame == Head(frames)
<1>0. Types /\ InMessage /\ Aligned /\ Gotten
  BY DEF IInv
<1>1. /\ receiver.at = "receiving" /\ frames # <<>> /\ frames' = Tail(frames)
      /\ UNCHANGED <<caller, sender, sentLog, got, left>>
      /\ receiver' =
          [receiver EXCEPT !.parts = Append(receiver.parts, frame), !.again = FALSE,
             !.at = IF ~NoMore(frame) THEN "receiving"
                    ELSE IF receiver.caught THEN "ended" ELSE "putting"]
  BY DEF RecvFrame
<1>2. /\ receiver.parts \in Seq(Frame) /\ L \in Nat /\ L < Parts /\ Parts \in Nat \ {0}
      /\ frames \in Seq(Frame) /\ sentLog \in Seq(Frame)
  BY <1>0, <1>1, MultipartAssumption DEF Types
<1>3. /\ frame \in Frame /\ frame = frames[1] /\ F \in Nat \ {0} /\ frames' \in Seq(Frame)
      /\ Len(frames') = F - 1
      /\ \A k \in 1..Len(frames') : k + 1 \in 1..F /\ frames'[k] = frames[k + 1]
  BY <1>1, <1>2, HeadTailProperties, EmptySeq
<1>4. /\ receiver' = [at |-> receiver'.at, parts |-> receiver'.parts,
                     caught |-> receiver'.caught, again |-> receiver'.again]
      /\ receiver'.parts = Append(receiver.parts, frame)
      /\ receiver'.caught = receiver.caught /\ receiver'.again = FALSE
      /\ receiver'.at = IF ~NoMore(frame) THEN "receiving"
                        ELSE IF receiver.caught THEN "ended" ELSE "putting"
  <2>1. receiver = [at |-> receiver.at, parts |-> receiver.parts, caught |-> receiver.caught,
                    again |-> receiver.again]
    BY <1>0 DEF Types
  <2> HIDE DEF frame
  <2> QED  BY <1>1, <2>1
<1>5. /\ receiver'.parts \in Seq(Frame) /\ Len(receiver'.parts) = L + 1
      /\ receiver'.parts[L + 1] = frame
      /\ \A k \in 1..L : receiver'.parts[k] = receiver.parts[k]
  BY <1>2, <1>3, <1>4, AppendProperties
<1>6. frame = sentLog[Before + L + 1]
  <2>1. 1 \in 1..F
    BY <1>3
  <2> QED  BY <1>0, <1>3, <2>1 DEF Aligned
<1>7. frame.part = L + 1
  <2>1. L + 1 \in 1..(L + F) /\ L + 1 <= Parts
    BY <1>2, <1>3
  <2>2. sentLog[Before + (L + 1)].part = L + 1
    <3>1. PICK m : sentLog[Before + (L + 1)] = [msg |-> m, part |-> L + 1]
      BY <1>0, <2>1, FrameAhead
    <3> QED  BY <3>1
  <2>3. Before + (L + 1) = Before + L + 1
    <3>1. Before \in Nat
      BY <1>0, MultipartAssumption DEF Types, Before
    <3> QED  BY <1>2, <3>1
  <2> QED  BY <1>6, <2>2, <2>3
<1>8. Types'
  <2>1. /\ L + 1 <= Parts /\ receiver'.at \in {"receiving", "putting", "ended"}
        /\ receiver'.at = "receiving" => L + 1 < Parts
        /\ receiver'.at = "putting" => L + 1 = Parts
    BY <1>2, <1>4, <1>7 DEF NoMore
  <2>2. receiver'.caught \in BOOLEAN /\ receiver'.again \in BOOLEAN
    BY <1>0, <1>4 DEF Types
  <2>3. UNCHANGED <<caller, sender, sentLog, got, left>> /\ Types
    BY <1>0, <1>1
  <2> HIDE DEF L, F, frame
  <2> QED  BY <1>3, <1>4, <1>5, <2>1, <2>2, <2>3 DEF Types
<1>9. InMessage'
  BY <1>0, <1>1 DEF InMessage
<1>10. Before' = Before /\ Before \in Nat
  BY <1>0, <1>1, MultipartAssumption DEF Types, Before
<1>11. Aligned'
  <2>1. Len(sentLog) = Before + L + F
    BY <1>0 DEF Aligned
  <2>2. Len(sentLog) = Before + (L + 1) + Len(frames')
    <3>1. Len(frames') = F - 1 /\ F \in Nat /\ L \in Nat /\ Before \in Nat
      BY <1>2, <1>3, <1>10
    <3> HIDE DEF L, F
    <3> QED  BY <2>1, <3>1
  <2>3. ASSUME NEW k \in 1..L + 1 PROVE receiver'.parts[k] = sentLog[Before + k]
    <3>1. CASE k \in 1..L
      BY <1>0, <1>5, <3>1 DEF Aligned
    <3>2. CASE k = L + 1
      <4>1. Before + k = Before + L + 1
        BY <1>2, <1>10, <3>2
      <4> QED  BY <1>5, <1>6, <3>2, <4>1
    <3> QED  BY <1>2, <3>1, <3>2
  <2>4. ASSUME NEW k \in 1..Len(frames') PROVE frames'[k] = sentLog[Before + (L + 1) + k]
    <3>1. k + 1 \in 1..F /\ frames'[k] = frames[k + 1]
      BY <1>3
    <3>2. frames[k + 1] = sentLog[Before + L + (k + 1)]
      BY <1>0, <3>1 DEF Aligned
    <3>3. Before + L + (k + 1) = Before + (L + 1) + k
      <4>1. k \in Nat /\ L \in Nat /\ Before \in Nat
        BY <1>2, <1>3, <1>10
      <4> HIDE DEF L
      <4> QED  BY <4>1
    <3> QED  BY <3>1, <3>2, <3>3
  <2>5. Before = 0 \/ sentLog[Before].part = Parts
    BY <1>0 DEF Aligned
  <2>6. sentLog' = sentLog
    BY <1>1
  <2> HIDE DEF L, F
  <2> QED  BY <1>5, <1>10, <2>2, <2>3, <2>4, <2>5, <2>6 DEF Aligned
<1>12. Gotten'
  BY <1>0, <1>1, <1>10 DEF Gotten
<1> QED  BY <1>8, <1>9, <1>11, <1>12 DEF IInv

\* The messages that were received are ahead of those that are.
LEMMA Position ==
  ASSUME NEW n \in Nat, NEW p \in Nat \ {0}, NEW i \in 1..n, NEW k \in 1..p
  PROVE  (i - 1) * p + k \in 1..n * p
<1>1. i * p = (i - 1) * p + p /\ (i - 1) * p \in Nat /\ i * p \in Nat
  OBVIOUS
<1>2. n * p = i * p + (n - i) * p /\ (n - i) * p \in Nat
  OBVIOUS
<1> QED  BY <1>1, <1>2

\* The events layer takes a message: what was gathered is a whole one.
LEMMA DeliverCorrect == IInv /\ Deliver => IInv'
<1> SUFFICES ASSUME IInv, Deliver PROVE IInv'
  OBVIOUS
<1> DEFINE L == Len(receiver.parts)
           F == Len(frames)
           g == Len(got)
<1>0. Types /\ InMessage /\ Aligned /\ Gotten
  BY DEF IInv
<1>1. /\ receiver.at = "putting" /\ got' = Append(got, receiver.parts)
      /\ receiver' = ReadyReceiver /\ UNCHANGED <<caller, sender, frames, sentLog, left>>
  BY DEF Deliver
<1>2. /\ receiver.parts \in Seq(Frame) /\ L = Parts /\ Parts \in Nat \ {0}
      /\ frames \in Seq(Frame) /\ F \in Nat /\ sentLog \in Seq(Frame)
  BY <1>0, <1>1, MultipartAssumption DEF Types
<1>3. /\ g \in Nat /\ got' \in Seq(Seq(Frame)) /\ Len(got') = g + 1
      /\ got'[g + 1] = receiver.parts /\ \A i \in 1..g : got'[i] = got[i]
  BY <1>0, <1>1, <1>2, AppendProperties DEF Types
<1>4. Before \in Nat /\ Before' = Before + Parts /\ Before = ((g + 1) - 1) * Parts
  BY <1>2, <1>3 DEF Before
<1>5. /\ receiver'.parts = <<>> /\ receiver'.at = "receiving" /\ receiver'.caught = FALSE
      /\ receiver'.again = FALSE
  BY <1>1 DEF ReadyReceiver
<1>6. Types'
  <2>1. UNCHANGED <<caller, sender, frames, sentLog, left>> /\ Types
    BY <1>0, <1>1
  <2>2. receiver' = [at |-> "receiving", parts |-> <<>>, caught |-> FALSE, again |-> FALSE]
    BY <1>1 DEF ReadyReceiver
  <2>3. <<>> \in Seq(Frame) /\ Len(<<>>) = 0 /\ 0 < Parts /\ 0 <= Parts
    BY <1>2
  <2> QED  BY <1>3, <1>5, <2>1, <2>2, <2>3 DEF Types
<1>7. InMessage'
  BY <1>0, <1>1 DEF InMessage
<1>8. \E m \in Message : \A k \in 1..Parts :
        /\ Before + k \in 1..Len(sentLog)
        /\ sentLog[Before + k] = [msg |-> m, part |-> k]
        /\ receiver.parts[k] = [msg |-> m, part |-> k]
  <2>1. 1 \in 1..L + F /\ 1 <= Parts
    BY <1>2
  <2>2. sentLog[Before + 1].msg \in Message
    BY <1>0, <2>1, FrameAhead
  <2>3. ASSUME NEW k \in 1..Parts
        PROVE  /\ Before + k \in 1..Len(sentLog)
               /\ sentLog[Before + k] = [msg |-> sentLog[Before + 1].msg, part |-> k]
               /\ receiver.parts[k] = sentLog[Before + k]
    <3>1. k \in 1..L + F /\ k <= Parts /\ k \in 1..L
      BY <1>2
    <3> QED  BY <1>0, <3>1, FrameAhead DEF Aligned
  <2> QED  BY <2>2, <2>3
<1>9. PICK m \in Message : \A k \in 1..Parts :
        /\ Before + k \in 1..Len(sentLog)
        /\ sentLog[Before + k] = [msg |-> m, part |-> k]
        /\ receiver.parts[k] = [msg |-> m, part |-> k]
  BY <1>8
<1>10. receiver.parts = Whole(m)
  <2>1. receiver.parts \in [1..Parts -> Frame]
    BY <1>2, LenProperties
  <2> QED  BY <1>9, <2>1 DEF Whole
<1>11. Aligned'
  <2>1. Len(sentLog) = Before + L + F
    BY <1>0 DEF Aligned
  <2>2. Len(sentLog) = Before' + 0 + F
    BY <1>2, <1>4, <2>1
  <2>3. ASSUME NEW k \in 1..F PROVE frames[k] = sentLog[Before' + 0 + k]
    <3>1. frames[k] = sentLog[Before + L + k]
      BY <1>0 DEF Aligned
    <3>2. Before + L + k = Before' + 0 + k
      BY <1>2, <1>4
    <3> QED  BY <3>1, <3>2
  <2>4. sentLog[Before'].part = Parts
    <3>1. Parts \in 1..Parts /\ Before' = Before + Parts
      BY <1>2, <1>4
    <3>2. sentLog[Before'] = [msg |-> m, part |-> Parts]
      BY <1>9, <3>1
    <3> QED  BY <3>2
  <2>5. sentLog' = sentLog /\ frames' = frames /\ Len(receiver'.parts) = 0
    BY <1>1, <1>5
  <2> QED  BY <2>2, <2>3, <2>4, <2>5 DEF Aligned
<1>12. Gotten'
  <2>1. sentLog' = sentLog /\ Before' = (g + 1) * Parts
    BY <1>1, <1>3 DEF Before
  <2>2. ASSUME NEW i \in 1..g + 1
        PROVE  /\ \E q \in Message : got'[i] = Whole(q)
               /\ \A k \in 1..Parts : /\ (i - 1) * Parts + k \in 1..Before'
                                       /\ got'[i][k] = sentLog[(i - 1) * Parts + k]
    <3>1. \A k \in 1..Parts : (i - 1) * Parts + k \in 1..Before'
      <4>1. g + 1 \in Nat /\ Parts \in Nat \ {0}
        BY <1>2, <1>3
      <4>2. \A k \in 1..Parts : (i - 1) * Parts + k \in 1..(g + 1) * Parts
        BY <4>1, Position
      <4> QED  BY <2>1, <4>2
    <3>2. CASE i \in 1..g
      BY <1>0, <1>3, <3>1, <3>2 DEF Gotten
    <3>3. CASE i = g + 1
      <4>1. got'[i] = Whole(m) /\ got'[i] = receiver.parts
        BY <1>3, <1>10, <3>3
      <4>2. (i - 1) * Parts = Before
        BY <1>4, <3>3
      <4>3. \A k \in 1..Parts : got'[i][k] = sentLog[(i - 1) * Parts + k]
        BY <1>9, <4>1, <4>2
      <4> QED  BY <3>1, <4>1, <4>3
    <3> QED  BY <1>3, <3>2, <3>3
  <2> QED  BY <1>3, <2>1, <2>2 DEF Gotten
<1> QED  BY <1>6, <1>7, <1>11, <1>12 DEF IInv

-----------------------------------------------------------------------------
\* A step that sends, receives and delivers nothing.
LEMMA FramesKept ==
  ASSUME Aligned, Gotten, UNCHANGED <<frames, sentLog, got>>, receiver'.parts = receiver.parts
  PROVE  Aligned' /\ Gotten'
<1>1. Before' = Before
  BY DEF Before
<1> QED  BY <1>1 DEF Aligned, Gotten

LEMMA InterruptSenderCorrect == IInv /\ InterruptSender => IInv'
<1> SUFFICES ASSUME IInv, InterruptSender PROVE IInv'
  OBVIOUS
<1>0. Types /\ InMessage /\ Aligned /\ Gotten
  BY DEF IInv
<1>1. /\ UNCHANGED <<caller, receiver, frames, sentLog, got>>
      /\ left["sender"] > 0 /\ left' = [left EXCEPT !["sender"] = left["sender"] - 1]
      /\ sender' = IF sender.at = "ready" \/ SendRaises(sender)
                   THEN [sender EXCEPT !.at = "ended"]
                   ELSE [sender EXCEPT !.caught = TRUE, !.again = TRUE]
  BY DEF InterruptSender
<1>2. sender \in SenderState /\ sender.at \in {"ready", "sending"}
  BY <1>0 DEF InterruptSender, Types, SenderState
<1>3. left' \in [{"sender", "receiver"} -> 0..Interruptions]
  BY <1>0, <1>1, MultipartAssumption DEF Types
<1>4. CASE sender.at = "ready" \/ SendRaises(sender)
  <2>1. sender' = [sender EXCEPT !.at = "ended"]
    BY <1>1, <1>4
  <2>2. sender' \in SenderState /\ sender'.at = "ended" /\ sender'.again = sender.again
    BY <1>2, <2>1 DEF SenderState
  <2>3. Types'
    BY <1>0, <1>1, <1>3, <2>2 DEF Types
  <2>4. sender.again \/ LastWhole(sentLog)
    <3>1. CASE sender.at = "ready"
      BY <1>0, <3>1 DEF InMessage
    <3>2. CASE sender.at = "sending" /\ sender.part = 1
      BY <1>0, <3>2 DEF InMessage, Continues
    <3>3. CASE sender.again
      BY <3>3
    <3> QED  BY <1>2, <1>4, <3>1, <3>2, <3>3 DEF SendRaises
  <2>5. InMessage'
    BY <1>0, <1>1, <2>2, <2>4 DEF InMessage
  <2> QED  BY <1>0, <1>1, <2>3, <2>5, FramesKept DEF IInv
<1>5. CASE ~(sender.at = "ready" \/ SendRaises(sender))
  <2>1. sender' = [sender EXCEPT !.caught = TRUE, !.again = TRUE]
    BY <1>1, <1>5
  <2>2. /\ sender' \in SenderState /\ sender'.at = "sending" /\ sender.at = "sending"
        /\ sender'.msg = sender.msg /\ sender'.part = sender.part
    BY <1>2, <1>5, <2>1 DEF SenderState
  <2>3. Types'
    BY <1>0, <1>1, <1>3, <2>2 DEF Types
  <2>4. InMessage'
    BY <1>0, <1>1, <2>2 DEF InMessage
  <2> QED  BY <1>0, <1>1, <2>3, <2>4, FramesKept DEF IInv
<1> QED  BY <1>4, <1>5

LEMMA InterruptReceiverCorrect == IInv /\ InterruptReceiver => IInv'
<1> SUFFICES ASSUME IInv, InterruptReceiver PROVE IInv'
  OBVIOUS
<1>0. Types /\ InMessage /\ Aligned /\ Gotten
  BY DEF IInv
<1>1. /\ UNCHANGED <<caller, sender, frames, sentLog, got>>
      /\ left["receiver"] > 0 /\ left' = [left EXCEPT !["receiver"] = left["receiver"] - 1]
      /\ receiver' = IF receiver.at = "putting" \/ receiver.parts = <<>> \/ receiver.again
                     THEN [receiver EXCEPT !.at = "ended"]
                     ELSE [receiver EXCEPT !.caught = TRUE, !.again = TRUE]
  BY DEF InterruptReceiver
<1>2. left' \in [{"sender", "receiver"} -> 0..Interruptions]
  BY <1>0, <1>1, MultipartAssumption DEF Types
<1>3. receiver = [at |-> receiver.at, parts |-> receiver.parts, caught |-> receiver.caught,
                  again |-> receiver.again]
  BY <1>0 DEF Types
<1>4. /\ receiver' = [at |-> receiver'.at, parts |-> receiver'.parts,
                     caught |-> receiver'.caught, again |-> receiver'.again]
      /\ receiver'.parts = receiver.parts /\ receiver'.at \in {receiver.at, "ended"}
      /\ receiver'.caught \in {receiver.caught, TRUE}
      /\ receiver'.again \in {receiver.again, TRUE}
  <2>1. CASE receiver' = [receiver EXCEPT !.at = "ended"]
    BY <1>3, <2>1
  <2>2. CASE receiver' = [receiver EXCEPT !.caught = TRUE, !.again = TRUE]
    BY <1>3, <2>2
  <2> QED  BY <1>1, <2>1, <2>2
<1>5. Types'
  <2>1. receiver'.caught \in BOOLEAN /\ receiver'.again \in BOOLEAN
    BY <1>0, <1>4 DEF Types
  <2> QED  BY <1>0, <1>1, <1>2, <1>4, <2>1 DEF Types
<1>6. InMessage'
  BY <1>0, <1>1 DEF InMessage
<1> QED  BY <1>0, <1>1, <1>4, <1>5, <1>6, FramesKept DEF IInv

\* The callers: only a message that is waited for is taken or expires.
LEMMA CallersCorrect ==
  ASSUME IInv, NEW m \in Message, Call(m) \/ CallExpires(m) \/ Take(m)
  PROVE  IInv'
<1>0. Types /\ InMessage /\ Aligned /\ Gotten
  BY DEF IInv
<1>1. /\ UNCHANGED <<receiver, frames, sentLog, got, left>>
      /\ caller[m] \in {"none", "putting"}
      /\ \E state \in CallerState : caller' = [caller EXCEPT ![m] = state]
  BY DEF Call, CallExpires, Take, CallerState
<1>2. caller' \in [Message -> CallerState]
  BY <1>0, <1>1 DEF Types
<1>3. \A q \in Message : caller[q] = "returned" => caller'[q] = "returned"
  BY <1>0, <1>1 DEF Types
<1>4. \A i \in 1..Len(sentLog) : caller'[sentLog[i].msg] = "returned"
  <2>1. \A i \in 1..Len(sentLog) : sentLog[i].msg \in Message
    <3>1. \A i \in 1..Len(sentLog) : sentLog[i] \in Frame
      BY <1>0 DEF Types
    <3> QED  BY <3>1 DEF Frame
  <2> QED  BY <1>0, <1>3, <2>1 DEF InMessage
<1>5. CASE Call(m) \/ CallExpires(m)
  <2>1. sender' = sender
    BY <1>5 DEF Call, CallExpires
  <2>2. Types'
    BY <1>0, <1>1, <1>2, <2>1 DEF Types
  <2>3. InMessage'
    BY <1>0, <1>1, <1>3, <1>4, <2>1 DEF InMessage
  <2> QED  BY <1>0, <1>1, <2>2, <2>3, FramesKept DEF IInv
<1>6. CASE Take(m)
  <2>1. /\ sender' = [at |-> "sending", msg |-> m, part |-> 1, caught |-> FALSE, again |-> FALSE]
        /\ caller' = [caller EXCEPT ![m] = "returned"] /\ sender.at = "ready"
    BY <1>6 DEF Take, ReadySender
  <2>2. /\ sender' \in SenderState /\ sender'.at = "sending" /\ sender'.msg = m
        /\ sender'.part = 1 /\ caller'[m] = "returned"
    BY <1>0, <2>1, MultipartAssumption DEF SenderState, Message, Types
  <2>3. LastWhole(sentLog)
    BY <1>0, <2>1 DEF InMessage
  <2>4. Types'
    BY <1>0, <1>1, <1>2, <2>2 DEF Types
  <2>5. Continues(sentLog', [msg |-> sender'.msg, part |-> sender'.part])
    BY <1>1, <2>2, <2>3 DEF Continues
  <2>6. InMessage'
    BY <1>0, <1>1, <1>4, <2>2, <2>5 DEF InMessage
  <2> QED  BY <1>0, <1>1, <2>4, <2>6, FramesKept DEF IInv
<1> QED  BY <1>5, <1>6

LEMMA Invariant == Spec => []IInv
<1>1. IInv /\ [Next]_vars => IInv'
  <2>1. IInv /\ UNCHANGED vars => IInv'
    BY DEF IInv, vars, Types, InMessage, Aligned, Gotten, Before
  <2> QED
    BY <2>1, SendFrameCorrect, RecvFrameCorrect, DeliverCorrect, InterruptSenderCorrect,
       InterruptReceiverCorrect, CallersCorrect
    DEF Next
<1> QED  BY <1>1, InitCorrect, PTL DEF Spec

-----------------------------------------------------------------------------
\* The type invariant: no more frames are gathered than a message has.
THEOREM TypeCorrect == Spec => []TypeOK
<1>1. IInv => TypeOK
  <2> SUFFICES ASSUME Types PROVE TypeOK
    BY DEF IInv
  <2>1. receiver.parts \in BoundedSeq(Frame, Parts)
    BY Gathered DEF Types
  <2>2. receiver \in [at : {"receiving", "putting", "ended"}, parts : BoundedSeq(Frame, Parts),
                      caught : BOOLEAN, again : BOOLEAN]
    BY <2>1 DEF Types
  <2> QED  BY <2>2 DEF Types, TypeOK, SenderState, CallerState
<1> QED  BY <1>1, Invariant, PTL

\* Each message sent is sent whole and at one go, and one whose caller was told
\* TimeoutExpired is not sent, not even in part.
THEOREM WholeCorrect == Spec => []WholeOrNothing
<1>1. IInv => WholeOrNothing
  <2> SUFFICES ASSUME Types, InMessage PROVE WholeOrNothing
    BY DEF IInv
  <2> DEFINE n == Len(sentLog)
  <2>1. /\ n \in Nat /\ Parts \in Nat \ {0}
        /\ \A i \in 1..n : sentLog[i] \in Frame
    BY MultipartAssumption DEF Types
  <2>2. ASSUME LastWhole(sentLog), NEW i \in 1..n
        PROVE  LET first == i - sentLog[i].part + 1 IN
                 /\ first >= 1 /\ first + Parts - 1 <= n
                 /\ SubSeq(sentLog, first, first + Parts - 1) = Whole(sentLog[i].msg)
    <3> DEFINE first == i - sentLog[i].part + 1
               last == first + Parts - 1
               msg == sentLog[i].msg
               block == SubSeq(sentLog, first, last)
    <3>1. /\ first \in Int /\ first >= 1 /\ first <= i /\ last \in Int
          /\ \A j \in 1..n : first <= j /\ j < first + Parts
                => sentLog[j] = [msg |-> msg, part |-> j - first + 1]
      <4>1. sentLog[i].part \in 1..Parts
        BY <2>1 DEF Frame
      <4>2. InBlock(sentLog, i)
        BY DEF InMessage, Blocks
      <4> QED  BY <2>1, <4>1, <4>2 DEF InBlock, Start
    <3> HIDE DEF first, msg
    <3>2. last <= n
      <4> SUFFICES ASSUME n < last PROVE FALSE
        BY <2>1, <3>1
      <4>1. n \in 1..n /\ first <= n /\ n < first + Parts
        BY <2>1, <3>1
      <4>2. sentLog[n] = [msg |-> msg, part |-> n - first + 1]
        BY <3>1, <4>1
      <4>3. sentLog[n].part = Parts
        BY <2>1, <2>2, <4>1 DEF LastWhole
      <4>4. n - first + 1 = Parts
        BY <4>2, <4>3
      <4> QED  BY <2>1, <3>1, <4>4
    <3>3. /\ block \in Seq(Frame) /\ Len(block) = Parts
          /\ \A k \in 1..Parts : block[k] = sentLog[first + k - 1]
      <4>1. \A j \in first..last : sentLog[j] \in Frame
        BY <2>1, <3>1, <3>2
      <4>2. last - first + 1 = Parts /\ first <= last
        <5>1. first \in Int /\ Parts \in Nat \ {0}
          BY <2>1, <3>1
        <5> QED  BY <5>1
      <4> QED  BY <3>1, <4>1, <4>2, SubSeqProperties
    <3>4. \A k \in 1..Parts : block[k] = [msg |-> msg, part |-> k]
      <4> SUFFICES ASSUME NEW k \in 1..Parts PROVE block[k] = [msg |-> msg, part |-> k]
        OBVIOUS
      <4>1. /\ first + k - 1 \in 1..n /\ first <= first + k - 1
            /\ first + k - 1 < first + Parts /\ (first + k - 1) - first + 1 = k
        BY <2>1, <3>1, <3>2
      <4> QED  BY <3>1, <3>3, <4>1
    <3>5. block \in [1..Parts -> Frame]
      BY <3>3, LenProperties
    <3>6. block = Whole(msg)
      BY <3>4, <3>5 DEF Whole
    <3> QED  BY <3>1, <3>2, <3>6 DEF first, msg
  <2>3. \A m \in Message : caller[m] = "expired" => m \notin SentMessages
    BY DEF InMessage, SentMessages
  <2> QED  BY <2>2, <2>3 DEF InMessage, WholeOrNothing
<1> QED  BY <1>1, Invariant, PTL

\* What is received is what was sent, message by message and in order.
THEOREM ReceivedCorrect == Spec => []ReceivedAsSent
<1>1. IInv => ReceivedAsSent
  <2> SUFFICES ASSUME Types, Aligned, Gotten PROVE ReceivedAsSent
    BY DEF IInv
  <2> DEFINE n == Len(sentLog)
             L == Len(receiver.parts)
             F == Len(frames)
             rest == receiver.parts \o frames
             log == SubSeq(sentLog, Before + 1, n)
  <2>1. /\ Before \in Nat /\ n \in Nat /\ L \in Nat /\ F \in Nat
        /\ \A i \in 1..n : sentLog[i] \in Frame
    BY MultipartAssumption DEF Types, Before
  <2>2. n = Before + L + F
    BY DEF Aligned
  <2>3. /\ rest \in Seq(Frame) /\ Len(rest) = L + F
        /\ \A k \in 1..L + F : rest[k] = IF k <= L THEN receiver.parts[k] ELSE frames[k - L]
    BY ConcatProperties DEF Types
  <2>4. /\ log \in Seq(Frame) /\ Len(log) = L + F
        /\ \A k \in 1..L + F : log[k] = sentLog[Before + k]
    <3>1. n - (Before + 1) + 1 = L + F /\ (Before + 1 <= n <=> 0 < L + F)
      BY <2>1, <2>2
    <3>2. \A j \in (Before + 1)..n : sentLog[j] \in Frame
      BY <2>1
    <3>3. \A k \in 1..L + F : Before + 1 + k - 1 = Before + k
      BY <2>1
    <3>4. /\ log \in Seq(Frame)
          /\ Len(log) = IF Before + 1 <= n THEN n - (Before + 1) + 1 ELSE 0
          /\ \A k \in 1..n - (Before + 1) + 1 : log[k] = sentLog[Before + 1 + k - 1]
      BY <2>1, <3>2, SubSeqProperties
    <3> HIDE DEF log, L, F, n
    <3> QED  BY <2>1, <3>1, <3>3, <3>4
  <2>5. \A k \in 1..L + F : rest[k] = log[k]
    <3> SUFFICES ASSUME NEW k \in 1..L + F PROVE rest[k] = log[k]
      OBVIOUS
    <3>1. CASE k <= L
      <4>1. k \in 1..L
        BY <2>1, <3>1
      <4> QED  BY <2>3, <2>4, <3>1, <4>1 DEF Aligned
    <3>2. CASE ~(k <= L)
      <4>1. k - L \in 1..F /\ Before + L + (k - L) = Before + k
        <5>1. k \in Int /\ L \in Nat /\ F \in Nat /\ Before \in Nat /\ L < k /\ k <= L + F
          BY <2>1, <3>2
        <5> HIDE DEF L, F
        <5> QED  BY <5>1
      <4>2. frames[k - L] = sentLog[Before + L + (k - L)]
        BY <4>1 DEF Aligned
      <4> QED  BY <2>3, <2>4, <3>2, <4>1, <4>2
    <3> QED  BY <3>1, <3>2
  <2>6. rest = log
    <3> HIDE DEF rest, log
    <3> QED  BY <2>3, <2>4, <2>5, SeqEqual
  <2>7. n = Before + Len(rest)
    BY <2>1, <2>2, <2>3
  <2> QED  BY <2>6, <2>7 DEF ReceivedAsSent, Gotten, Before
<1> QED  BY <1>1, Invariant, PTL
===============================================================================
