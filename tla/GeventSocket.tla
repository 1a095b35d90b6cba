----------------------------- MODULE GeventSocket -----------------------------
(***************************************************************************)
(* A ZeroMQ socket shared by a sending and a receiving greenlet            *)
(* (zerorpc/gevent_zmq.py, class Socket).                                  *)
(*                                                                         *)
(* libzmq tells of a change of state by making one file descriptor         *)
(* readable, once for both directions, until its mailbox is next read;     *)
(* and every call of the socket may read the mailbox.  So each greenlet    *)
(* may take the notice the other one is waiting for.  The code answers     *)
(* with _on_state_changed after each successful call, and with a wait that *)
(* looks for itself every second.                                          *)
(***************************************************************************)
EXTENDS Naturals

CONSTANTS
  Room,      \* how many messages the socket takes before it must be drained
  MaxIn,     \* bound: the messages that arrive
  MaxOut     \* bound: the messages that are sent

ASSUME SocketAssumption == Room \in Nat \ {0} /\ MaxIn \in Nat /\ MaxOut \in Nat

VARIABLES
  inq,       \* messages that arrived and were not received
  outq,      \* messages sent and not drained by the network
  notice,    \* whether the mailbox holds a notice: the descriptor is readable
  deaf,      \* deaf[d]: that direction was found unready, so a change is noticed
  flag,      \* the events _readable ("in") and _writable ("out")
  receiver,  \* where the receiving greenlet is
  sender,    \* where the sending greenlet is
  arrived,   \* history: how many messages arrived
  sent,      \* history: how many messages were sent
  full       \* history: whether a send found the socket full

vars == <<inq, outq, notice, deaf, flag, receiver, sender, arrived, sent, full>>

Direction == {"in", "out"}
Place == {"idle", "trying", "yielding", "waiting"}

\* The type invariant: the receiver never rests, and no more is sent than fits.
TypeOK ==
  /\ inq      \in 0..MaxIn
  /\ outq     \in 0..Room
  /\ notice   \in BOOLEAN
  /\ deaf     \in [Direction -> BOOLEAN]
  /\ flag     \in [Direction -> BOOLEAN]
  /\ receiver \in Place \ {"idle"}
  /\ sender   \in Place
  /\ arrived  \in 0..MaxIn
  /\ sent     \in 0..MaxOut
  /\ full     \in BOOLEAN

Init ==
  /\ inq = 0 /\ outq = 0 /\ notice = FALSE
  /\ deaf = [d \in Direction |-> FALSE]
  /\ flag = [d \in Direction |-> FALSE]
  /\ receiver = "trying" /\ sender = "idle"
  /\ arrived = 0 /\ sent = 0 /\ full = FALSE

-----------------------------------------------------------------------------
(***************************************************************************)
(* libzmq: its thread moves messages, and notices what the socket was last *)
(* told is not ready.                                                      *)
(***************************************************************************)
Ready(d, in, out) == IF d = "in" THEN in > 0 ELSE out < Room

Arrive ==
  /\ arrived < MaxIn
  /\ arrived' = arrived + 1 /\ inq' = inq + 1
  /\ notice' = (notice \/ deaf["in"])
  /\ deaf' = [deaf EXCEPT !["in"] = FALSE]
  /\ UNCHANGED <<outq, flag, receiver, sender, sent, full>>

Drain ==
  /\ outq > 0
  /\ outq' = outq - 1
  /\ notice' = (notice \/ deaf["out"])
  /\ deaf' = [deaf EXCEPT !["out"] = FALSE]
  /\ UNCHANGED <<inq, flag, receiver, sender, arrived, sent, full>>

\* getsockopt(EVENTS) reads the mailbox and tells the state of both directions.
Query(in, out) ==
  /\ notice' = FALSE
  /\ deaf' = [d \in Direction |-> ~Ready(d, in, out)]

-----------------------------------------------------------------------------
(***************************************************************************)
(* The callback of the descriptor, and the calls of the two greenlets.     *)
(***************************************************************************)
\* _on_state_changed: set() of the event of each direction that is ready.
OnStateChanged(in, out) ==
  /\ Query(in, out)
  /\ flag' = [d \in Direction |-> flag[d] \/ Ready(d, in, out)]

\* Mutated form: the state is not polled, though the call may read the mailbox.
NoPollAfterCall(in, out) ==
  /\ notice' \in {notice, FALSE}
  /\ UNCHANGED <<deaf, flag>>
\* What a call that succeeded does last.
PollAfterCall(in, out) == OnStateChanged(in, out)

Callback ==
  /\ notice
  /\ OnStateChanged(inq, outq)
  /\ UNCHANGED <<inq, outq, receiver, sender, arrived, sent, full>>

\* recv with NOBLOCK: a message is received, or EAGAIN: libzmq has read its
\* mailbox, and _readable is cleared.
TryRecv ==
  /\ receiver = "trying"
  /\ \/ /\ inq > 0
        /\ inq' = inq - 1
        /\ PollAfterCall(inq', outq)
        /\ UNCHANGED receiver
     \/ /\ inq = 0
        /\ notice' = FALSE
        /\ deaf' = [deaf EXCEPT !["in"] = TRUE]
        /\ flag' = [flag EXCEPT !["in"] = FALSE]
        /\ receiver' = "yielding"
        /\ UNCHANGED inq
  /\ UNCHANGED <<outq, sender, arrived, sent, full>>

Submit ==
  /\ sender = "idle" /\ sent < MaxOut
  /\ sender' = "trying"
  /\ UNCHANGED <<inq, outq, notice, deaf, flag, receiver, arrived, sent, full>>

\* send with NOBLOCK: the message is taken, or EAGAIN: libzmq may have read its
\* mailbox, and _writable is cleared.
TrySend ==
  /\ sender = "trying"
  /\ \/ /\ outq < Room
        /\ outq' = outq + 1
        /\ PollAfterCall(inq, outq')
        /\ sender' = "idle" /\ sent' = sent + 1 /\ UNCHANGED full
     \/ /\ outq = Room
        /\ notice' \in {notice, FALSE}
        /\ deaf' = [deaf EXCEPT !["out"] = TRUE]
        /\ flag' = [flag EXCEPT !["out"] = FALSE]
        /\ sender' = "yielding"
        /\ full' = TRUE /\ UNCHANGED <<outq, sent>>
  /\ UNCHANGED <<inq, receiver, arrived>>

\* gevent.sleep(0), then wait(timeout=1).
RecvYielded ==
  /\ receiver = "yielding"
  /\ receiver' = "waiting"
  /\ UNCHANGED <<inq, outq, notice, deaf, flag, sender, arrived, sent, full>>

SendYielded ==
  /\ sender = "yielding"
  /\ sender' = "waiting"
  /\ UNCHANGED <<inq, outq, notice, deaf, flag, receiver, arrived, sent, full>>

\* Mutated form: recv returns when its wait is over.
RecvWokenReturns ==
  /\ receiver = "waiting" /\ flag["in"]
  /\ receiver' = "idle"
  /\ UNCHANGED <<inq, outq, notice, deaf, flag, sender, arrived, sent, full>>
\* The event is set: the call is made again.
RecvWoken ==
  /\ receiver = "waiting" /\ flag["in"]
  /\ receiver' = "trying"
  /\ UNCHANGED <<inq, outq, notice, deaf, flag, sender, arrived, sent, full>>

SendWoken ==
  /\ sender = "waiting" /\ flag["out"]
  /\ sender' = "trying"
  /\ UNCHANGED <<inq, outq, notice, deaf, flag, receiver, arrived, sent, full>>

\* Mutated form: the wait has no timeout.
PollNever(who, d) == FALSE /\ UNCHANGED <<notice, deaf, receiver, sender>>
\* A second went by: the greenlet looks at the state of the socket, sets no
\* event, and makes its call again if it can.
Poll(who, d) ==
  /\ who = "waiting" /\ ~flag[d]
  /\ Query(inq, outq)
  /\ IF ~Ready(d, inq, outq) THEN UNCHANGED <<receiver, sender>>
     ELSE IF d = "in" THEN receiver' = "trying" /\ UNCHANGED sender
                      ELSE sender' = "trying" /\ UNCHANGED receiver

RecvPolls == Poll(receiver, "in") /\ UNCHANGED <<inq, outq, flag, arrived, sent, full>>
SendPolls == Poll(sender, "out") /\ UNCHANGED <<inq, outq, flag, arrived, sent, full>>

-----------------------------------------------------------------------------
Next == \/ Arrive \/ Drain \/ Callback
        \/ TryRecv \/ RecvYielded \/ RecvWoken \/ RecvPolls
        \/ Submit \/ TrySend \/ SendYielded \/ SendWoken \/ SendPolls

Spec == Init /\ [][Next]_vars

\* The greenlets and the event loop run, timeouts expire, and the network takes
\* what is sent.  Nothing obliges a message to arrive or to be submitted.
Fairness ==
  /\ WF_vars(Drain) /\ WF_vars(Callback)
  /\ WF_vars(TryRecv) /\ WF_vars(RecvYielded) /\ WF_vars(RecvWoken) /\ WF_vars(RecvPolls)
  /\ WF_vars(TrySend) /\ WF_vars(SendYielded) /\ WF_vars(SendWoken) /\ WF_vars(SendPolls)

LiveSpec == Spec /\ Fairness

-----------------------------------------------------------------------------
\* Every message that arrives is received, though its notice may be taken by
\* the sender.
EveryMessageReceived == \A n \in 1..MaxIn : arrived >= n ~> arrived - inq >= n

\* Every send returns, though its notice may be taken by the receiver.
EverySendReturns == sender = "trying" ~> sender = "idle"

\* So long as no send has found the socket full, a receiver that waits for its
\* event has no message to receive that it will not be woken for.
NoMissedEvent ==
  ~full /\ receiver = "waiting" /\ inq > 0 => flag["in"] \/ notice
=============================================================================
