--------------------------- MODULE GeventSocketProofs ---------------------------
(***************************************************************************)
(* The types of GeventSocket, and that no notice of a message is missed    *)
(* while no send finds the socket full, for every size of the socket and   *)
(* any number of messages.                                                 *)
(***************************************************************************)
EXTENDS GeventSocket, TLAPS

\* The type invariant, with what keeps the two counts in their bounds.
Types == TypeOK /\ inq <= arrived /\ (sender # "idle" => sent < MaxOut)

\* What the receiver relies on when it goes to wait, so long as no send has
\* found the socket full: libzmq was told that nothing had arrived and still has
\* to notice what arrives, or it has noticed, or the notice became a set event.
NoticeDue ==
  ~full => /\ sender \in {"idle", "trying"}
           /\ receiver \in {"yielding", "waiting"} => deaf["in"] \/ flag["in"] \/ notice
           /\ deaf["in"] => inq = 0

IInv == Types /\ NoticeDue

\* What getsockopt(EVENTS) leaves: no notice, and a change of the directions it
\* found unready is noticed.
LEMMA Queried ==
  ASSUME NEW in, NEW out, Query(in, out)
  PROVE  /\ notice' \in BOOLEAN /\ ~notice' /\ deaf' \in [Direction -> BOOLEAN]
         /\ (deaf'["in"] <=> ~(in > 0))
  BY Zenon DEF Query, Ready, Direction

\* What _on_state_changed leaves: the event of the receiver is set if there is a
\* message, and if there is none it will be noticed.
LEMMA StateChanged ==
  ASSUME NEW in, NEW out, OnStateChanged(in, out), flag \in [Direction -> BOOLEAN]
  PROVE  /\ notice' \in BOOLEAN /\ ~notice' /\ deaf' \in [Direction -> BOOLEAN]
         /\ flag' \in [Direction -> BOOLEAN]
         /\ (deaf'["in"] <=> ~(in > 0))
         /\ (flag'["in"] <=> flag["in"] \/ in > 0)
<1>1. Query(in, out)
  BY DEF OnStateChanged
<1>2. flag' \in [Direction -> BOOLEAN]
  BY Zenon DEF OnStateChanged, Ready
<1>3. (flag'["in"] <=> flag["in"] \/ in > 0)
  BY Zenon DEF OnStateChanged, Ready, Direction
<1> QED  BY <1>1, <1>2, <1>3, Queried

LEMMA InitCorrect == Init => IInv
<1> SUFFICES ASSUME Init PROVE IInv
  OBVIOUS
<1> USE SocketAssumption DEF Init, Direction, Place
<1>1. inq \in 0..MaxIn /\ outq \in 0..Room /\ arrived \in 0..MaxIn /\ sent \in 0..MaxOut
  OBVIOUS
<1>2. deaf \in [Direction -> BOOLEAN] /\ flag \in [Direction -> BOOLEAN] /\ ~deaf["in"]
      /\ notice \in BOOLEAN /\ full \in BOOLEAN
  OBVIOUS
<1>3. Types
  BY <1>1, <1>2 DEF Types, TypeOK
<1>4. NoticeDue
  BY DEF NoticeDue
<1> QED  BY <1>3, <1>4 DEF IInv

\* Every step keeps the types, and a receiver that waits keeps a notice coming: a
\* call that takes the notice is followed by a look at the state of the socket.
LEMMA NextCorrect == IInv /\ [Next]_vars => IInv'
<1> SUFFICES ASSUME IInv, [Next]_vars PROVE IInv'
  OBVIOUS
<1>a. "in" \in Direction /\ "out" \in Direction
  BY DEF Direction
<1>b. flag \in [Direction -> BOOLEAN] /\ deaf \in [Direction -> BOOLEAN]
  BY DEF IInv, Types, TypeOK
<1>c. /\ inq \in Nat /\ outq \in 0..Room /\ arrived \in Nat /\ sent \in Nat
      /\ Room \in Nat /\ MaxIn \in Nat /\ MaxOut \in Nat
  BY SocketAssumption DEF IInv, Types, TypeOK
<1>1. CASE Arrive
  <2>1. /\ inq' = inq + 1 /\ arrived' = arrived + 1 /\ arrived < MaxIn
        /\ notice' = (notice \/ deaf["in"]) /\ deaf' = [deaf EXCEPT !["in"] = FALSE]
        /\ UNCHANGED <<outq, flag, receiver, sender, sent, full>>
    BY <1>1 DEF Arrive
  <2>2. deaf' \in [Direction -> BOOLEAN] /\ ~deaf'["in"] /\ notice' \in BOOLEAN
    BY <1>a, <1>b, <2>1
  <2> QED  BY <1>a, <1>b, <1>c, <2>1, <2>2 DEF IInv, Types, TypeOK, NoticeDue
<1>2. CASE Drain
  <2>1. /\ outq' = outq - 1 /\ outq > 0
        /\ notice' = (notice \/ deaf["out"]) /\ deaf' = [deaf EXCEPT !["out"] = FALSE]
        /\ UNCHANGED <<inq, flag, receiver, sender, arrived, sent, full>>
    BY <1>2 DEF Drain
  <2>2. /\ deaf' \in [Direction -> BOOLEAN] /\ deaf'["in"] = deaf["in"]
        /\ notice' \in BOOLEAN /\ outq' \in 0..Room
    BY <1>a, <1>b, <1>c, <2>1
  <2> QED  BY <1>c, <2>1, <2>2 DEF IInv, Types, TypeOK, NoticeDue
<1>3. CASE Callback
  <2>1. /\ OnStateChanged(inq, outq)
        /\ UNCHANGED <<inq, outq, receiver, sender, arrived, sent, full>>
    BY <1>3 DEF Callback
  <2>2. /\ notice' \in BOOLEAN /\ ~notice' /\ deaf' \in [Direction -> BOOLEAN]
        /\ flag' \in [Direction -> BOOLEAN]
        /\ (deaf'["in"] <=> ~(inq > 0)) /\ (flag'["in"] <=> flag["in"] \/ inq > 0)
    BY <1>b, <2>1, StateChanged
  <2> QED  BY <1>c, <2>1, <2>2 DEF IInv, Types, TypeOK, NoticeDue
<1>4. CASE TryRecv
  <2>1. CASE inq > 0
    <3>1. /\ OnStateChanged(inq', outq) /\ inq' = inq - 1
          /\ receiver = "trying" /\ receiver' = "trying"
          /\ UNCHANGED <<outq, sender, arrived, sent, full>>
      BY <1>c, <1>4, <2>1 DEF TryRecv, PollAfterCall
    <3>2. /\ notice' \in BOOLEAN /\ ~notice' /\ deaf' \in [Direction -> BOOLEAN]
          /\ flag' \in [Direction -> BOOLEAN] /\ (deaf'["in"] <=> ~(inq' > 0))
      BY <1>b, <3>1, StateChanged
    <3> QED  BY <1>c, <2>1, <3>1, <3>2 DEF IInv, Types, TypeOK, NoticeDue, Place
  <2>2. CASE inq = 0
    <3>1. /\ flag' = [flag EXCEPT !["in"] = FALSE] /\ deaf' = [deaf EXCEPT !["in"] = TRUE]
          /\ notice' = FALSE /\ receiver' = "yielding" /\ inq' = inq
          /\ UNCHANGED <<outq, sender, arrived, sent, full>>
      BY <1>4, <2>2 DEF TryRecv
    <3>2. flag' \in [Direction -> BOOLEAN] /\ deaf' \in [Direction -> BOOLEAN] /\ deaf'["in"]
      BY <1>a, <1>b, <3>1
    <3> QED  BY <1>c, <2>2, <3>1, <3>2 DEF IInv, Types, TypeOK, NoticeDue, Place
  <2> QED  BY <1>c, <2>1, <2>2
<1>5. CASE RecvYielded \/ SendYielded
  BY <1>5 DEF RecvYielded, SendYielded, IInv, Types, TypeOK, NoticeDue, Place
<1>6. CASE RecvWoken \/ SendWoken
  BY <1>6 DEF RecvWoken, SendWoken, IInv, Types, TypeOK, NoticeDue, Place
<1>7. CASE RecvPolls
  <2>1. Query(inq, outq) /\ receiver = "waiting"
    BY <1>7 DEF RecvPolls, Poll
  <2>2. /\ UNCHANGED <<inq, outq, flag, arrived, sent, full, sender>>
        /\ receiver' = IF inq > 0 THEN "trying" ELSE receiver
    BY <1>7 DEF RecvPolls, Poll, Ready
  <2>3. /\ notice' \in BOOLEAN /\ ~notice' /\ deaf' \in [Direction -> BOOLEAN]
        /\ (deaf'["in"] <=> ~(inq > 0))
    BY <2>1, Queried
  <2> QED  BY <1>c, <2>1, <2>2, <2>3 DEF IInv, Types, TypeOK, NoticeDue, Place
<1>8. CASE SendPolls
  <2>1. Query(inq, outq) /\ sender = "waiting"
    BY <1>8 DEF SendPolls, Poll
  <2>2. /\ UNCHANGED <<inq, outq, flag, arrived, sent, full, receiver>>
        /\ sender' \in {"trying", "waiting"}
    BY <1>8 DEF SendPolls, Poll
  <2>3. /\ notice' \in BOOLEAN /\ ~notice' /\ deaf' \in [Direction -> BOOLEAN]
        /\ (deaf'["in"] <=> ~(inq > 0))
    BY <2>1, Queried
  <2> QED  BY <1>c, <2>1, <2>2, <2>3 DEF IInv, Types, TypeOK, NoticeDue, Place
<1>9. CASE Submit
  BY <1>9 DEF Submit, IInv, Types, TypeOK, NoticeDue, Place
<1>10. CASE TrySend
  <2>1. CASE outq # Room
    <3>1. /\ OnStateChanged(inq, outq') /\ outq' = outq + 1 /\ outq < Room
          /\ sender = "trying" /\ sender' = "idle" /\ sent' = sent + 1
          /\ UNCHANGED <<full, inq, receiver, arrived>>
      BY <1>10, <2>1, Zenon DEF TrySend, PollAfterCall
    <3>2. /\ notice' \in BOOLEAN /\ ~notice' /\ deaf' \in [Direction -> BOOLEAN]
          /\ flag' \in [Direction -> BOOLEAN]
          /\ (deaf'["in"] <=> ~(inq > 0)) /\ (flag'["in"] <=> flag["in"] \/ inq > 0)
      BY <1>b, <3>1, StateChanged
    <3>3. outq' \in 0..Room
      BY <1>c, <3>1
    <3>4. sent' \in 0..MaxOut
      BY <1>c, <3>1 DEF IInv, Types
    <3> QED  BY <1>c, <3>1, <3>2, <3>3, <3>4 DEF IInv, Types, TypeOK, NoticeDue, Place
  <2>2. CASE outq = Room
    <3>0. ~(outq < Room)
      BY <1>c, <2>2
    <3>1. /\ flag' = [flag EXCEPT !["out"] = FALSE] /\ deaf' = [deaf EXCEPT !["out"] = TRUE]
          /\ notice' \in {notice, FALSE} /\ sender' = "yielding" /\ full'
          /\ sender = "trying"
          /\ UNCHANGED <<inq, receiver, arrived, outq, sent>>
      BY <1>10, <3>0 DEF TrySend
    <3>2. flag' \in [Direction -> BOOLEAN] /\ deaf' \in [Direction -> BOOLEAN]
      BY <1>a, <1>b, <3>1
    <3>3. full' \in BOOLEAN
      BY <1>10, <3>0 DEF TrySend
    <3> QED  BY <3>1, <3>2, <3>3 DEF IInv, Types, TypeOK, NoticeDue, Place
  <2> QED  BY <2>1, <2>2
<1>11. CASE UNCHANGED vars
  BY <1>11 DEF vars, IInv, Types, TypeOK, NoticeDue
<1> QED
  BY <1>1, <1>2, <1>3, <1>4, <1>5, <1>6, <1>7, <1>8, <1>9, <1>10, <1>11 DEF Next

LEMMA Invariant == Spec => []IInv
  BY InitCorrect, NextCorrect, PTL DEF Spec

\* The type invariant: the receiver never rests, and no more is sent than fits.
THEOREM TypeCorrect == Spec => []TypeOK
<1>1. IInv => TypeOK
  BY DEF IInv, Types
<1> QED  BY <1>1, Invariant, PTL

\* While no send has found the socket full, a receiver that waits with a message
\* to receive has its event set, or the descriptor is readable and will set it:
\* the notices the sender takes are never lost to it.
THEOREM NoMissedEventCorrect == Spec => []NoMissedEvent
<1>1. IInv => NoMissedEvent
  BY DEF IInv, Types, TypeOK, NoticeDue, NoMissedEvent
<1> QED  BY <1>1, Invariant, PTL
===============================================================================
