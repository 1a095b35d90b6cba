----------------------------- MODULE MultipartIO -----------------------------
(***************************************************************************)
(* The sending and the receiving greenlet of two connected sockets         *)
(* (zerorpc/events.py, classes Sender and Receiver).                       *)
(*                                                                         *)
(* A message goes over the socket in several frames, each sent by a call   *)
(* that may block, and a blocked call may be interrupted: close() kills    *)
(* the greenlet, a gevent.Timeout fires in it.  A message cut in the       *)
(* middle would be read as the beginning of the next one, so a frame that  *)
(* was interrupted is tried once more and the interruption raised at the   *)
(* end of the message.  Callers hand messages over through a rendezvous    *)
(* queue and may give up waiting for it.                                   *)
(***************************************************************************)
EXTENDS Naturals, Sequences, SequencesExt

CONSTANTS
  Messages,       \* bound: how many messages are handed over
  Parts,          \* how many frames a message has
  Interruptions   \* bound: how often each greenlet is interrupted

ASSUME MultipartAssumption ==
  Messages \in Nat /\ Parts \in Nat \ {0} /\ Interruptions \in Nat

VARIABLES
  caller,    \* where the call that hands a message over stands
  sender,    \* the sending greenlet: what it does, with which message and frame
  receiver,  \* the receiving greenlet: what it does, with which frames
  frames,    \* the frames under way
  sentLog,   \* history: the frames sent
  got,       \* history: the messages received, as frames
  left       \* left[g]: the interruptions that may still hit a greenlet

vars == <<caller, sender, receiver, frames, sentLog, got, left>>

Message == 1..Messages
Frame == [msg : Message, part : 1..Parts]
Whole(m) == [i \in 1..Parts |-> [msg |-> m, part |-> i]]

\* The type invariant: no more frames are gathered than a message has.
\* caught: an interruption is to be raised at the end of the message; again:
\* the frame was interrupted and is tried for the last time.
TypeOK ==
  /\ caller   \in [Message -> {"none", "putting", "returned", "expired"}]
  /\ sender   \in [at : {"ready", "sending", "ended"}, msg : 0..Messages, part : 1..Parts,
                   caught : BOOLEAN, again : BOOLEAN]
  /\ receiver \in [at : {"receiving", "putting", "ended"}, parts : BoundedSeq(Frame, Parts),
                   caught : BOOLEAN, again : BOOLEAN]
  /\ frames   \in Seq(Frame)
  /\ sentLog  \in Seq(Frame)
  /\ got      \in Seq(Seq(Frame))
  /\ left     \in [{"sender", "receiver"} -> 0..Interruptions]

ReadySender == [at |-> "ready", msg |-> 0, part |-> 1, caught |-> FALSE, again |-> FALSE]
ReadyReceiver == [at |-> "receiving", parts |-> <<>>, caught |-> FALSE, again |-> FALSE]

Init ==
  /\ caller = [m \in Message |-> "none"]
  /\ sender = ReadySender /\ receiver = ReadyReceiver
  /\ frames = <<>> /\ sentLog = <<>> /\ got = <<>>
  /\ left = [g \in {"sender", "receiver"} |-> Interruptions]

-----------------------------------------------------------------------------
(***************************************************************************)
(* Sender: the callers and the sending greenlet.                           *)
(***************************************************************************)
Call(m) ==
  /\ caller[m] = "none"
  /\ caller' = [caller EXCEPT ![m] = "putting"]
  /\ UNCHANGED <<sender, receiver, frames, sentLog, got, left>>

\* queue.Full: the caller gets TimeoutExpired.
CallExpires(m) ==
  /\ caller[m] = "putting"
  /\ caller' = [caller EXCEPT ![m] = "expired"]
  /\ UNCHANGED <<sender, receiver, frames, sentLog, got, left>>

\* The sending greenlet takes a message from a caller, whose call returns.
Take(m) ==
  /\ sender.at = "ready" /\ caller[m] = "putting"
  /\ caller' = [caller EXCEPT ![m] = "returned"]
  /\ sender' = [ReadySender EXCEPT !.at = "sending", !.msg = m]
  /\ UNCHANGED <<receiver, frames, sentLog, got, left>>

\* A frame is sent; after the last one, what was caught is raised: in Python 3, where
\* "e" is unbound once its except clause is left, an UnboundLocalError.  Either ends
\* the greenlet.
SendFrame ==
  LET frame == [msg |-> sender.msg, part |-> sender.part] IN
  /\ sender.at = "sending"
  /\ frames' = Append(frames, frame) /\ sentLog' = Append(sentLog, frame)
  /\ sender' = IF sender.part < Parts
               THEN [sender EXCEPT !.part = @ + 1, !.again = FALSE]
               ELSE [ReadySender EXCEPT !.at = IF sender.caught THEN "ended" ELSE "ready"]
  /\ UNCHANGED <<caller, receiver, got, left>>

\* Mutated form: what interrupts a frame is raised at once.
SendRaisesAlways(s) == TRUE
\* Whether _send raises what interrupts it: before the first of several frames
\* was sent, or the second time for one frame.
SendRaises(s) == (s.part = 1 /\ Parts > 1) \/ s.again

InterruptSender ==
  /\ left["sender"] > 0 /\ sender.at # "ended"
  /\ left' = [left EXCEPT !["sender"] = @ - 1]
  /\ sender' = IF sender.at = "ready" \/ SendRaises(sender)
               THEN [sender EXCEPT !.at = "ended"]
               ELSE [sender EXCEPT !.caught = TRUE, !.again = TRUE]
  /\ UNCHANGED <<caller, receiver, frames, sentLog, got>>

-----------------------------------------------------------------------------
(***************************************************************************)
(* Receiver: the receiving greenlet and its queue.                         *)
(***************************************************************************)
\* Mutated forms: a message ends at its first frame; it never ends.
NoMoreEver(frame) == TRUE
MoreForever(frame) == FALSE
\* part.more is false.
NoMore(frame) == frame.part = Parts

\* A frame is received; a message that is whole is put in the queue, unless an
\* interruption was caught on the way, which is raised instead.
RecvFrame ==
  /\ receiver.at = "receiving" /\ frames # <<>>
  /\ frames' = Tail(frames)
  /\ receiver' =
       [receiver EXCEPT !.parts = Append(@, Head(frames)), !.again = FALSE,
          !.at = IF ~NoMore(Head(frames)) THEN "receiving"
                 ELSE IF receiver.caught THEN "ended" ELSE "putting"]
  /\ UNCHANGED <<caller, sender, sentLog, got, left>>

InterruptReceiver ==
  /\ left["receiver"] > 0 /\ receiver.at # "ended"
  /\ left' = [left EXCEPT !["receiver"] = @ - 1]
  /\ receiver' = IF receiver.at = "putting" \/ receiver.parts = <<>> \/ receiver.again
                 THEN [receiver EXCEPT !.at = "ended"]
                 ELSE [receiver EXCEPT !.caught = TRUE, !.again = TRUE]
  /\ UNCHANGED <<caller, sender, frames, sentLog, got>>

\* The events layer takes the message from the queue.
Deliver ==
  /\ receiver.at = "putting"
  /\ got' = Append(got, receiver.parts)
  /\ receiver' = ReadyReceiver
  /\ UNCHANGED <<caller, sender, frames, sentLog, left>>

-----------------------------------------------------------------------------
Next == \/ \E m \in Message : Call(m) \/ CallExpires(m) \/ Take(m)
        \/ SendFrame \/ InterruptSender
        \/ RecvFrame \/ InterruptReceiver \/ Deliver

Spec == Init /\ [][Next]_vars

\* The greenlets run and the messages that are received are taken.
Fairness ==
  /\ \A m \in Message : WF_vars(Take(m))
  /\ WF_vars(SendFrame) /\ WF_vars(RecvFrame) /\ WF_vars(Deliver)

LiveSpec == Spec /\ Fairness

-----------------------------------------------------------------------------
\* The messages of which a frame was sent.
SentMessages == {sentLog[i].msg : i \in 1..Len(sentLog)}

\* A socket is never left in the middle of a message, by a sending greenlet that
\* rests or was killed: each message sent is sent whole and at one go, unless the
\* greenlet ended while it tried an interrupted frame for the last time.  One
\* whose caller was told TimeoutExpired is never sent, not even in part.
WholeOrNothing ==
  /\ sender.at # "sending" /\ ~sender.again =>
       \A i \in 1..Len(sentLog) :
         LET first == i - sentLog[i].part + 1 IN
           /\ first >= 1 /\ first + Parts - 1 <= Len(sentLog)
           /\ SubSeq(sentLog, first, first + Parts - 1) = Whole(sentLog[i].msg)
  /\ \A m \in Message : caller[m] = "expired" => m \notin SentMessages

\* What is received is what was sent, message by message: none is torn and no
\* two are mixed; only what the receiving greenlet held when it was killed is
\* missing.
ReceivedAsSent ==
  LET before == Len(got) * Parts
      rest   == receiver.parts \o frames
  IN  /\ \A i \in 1..Len(got) : \E m \in Message : got[i] = Whole(m)
      /\ Len(sentLog) = before + Len(rest)
      /\ \A i \in 1..Len(got), k \in 1..Parts : got[i][k] = sentLog[(i - 1) * Parts + k]
      /\ rest = SubSeq(sentLog, before + 1, Len(sentLog))

\* A message that was taken is delivered, unless a greenlet was interrupted.
ReturnedIsDelivered ==
  \A m \in Message :
    caller[m] = "returned"
      ~> Whole(m) \in Range(got) \/ \E g \in DOMAIN left : left[g] < Interruptions
=============================================================================
