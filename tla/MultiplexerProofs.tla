--------------------------- MODULE MultiplexerProofs ---------------------------
(***************************************************************************)
(* The safety of Multiplexer for any channels, pool and number of events.  *)
(***************************************************************************)
EXTENDS Multiplexer, SequenceTheorems, TLAPS

-----------------------------------------------------------------------------
(***************************************************************************)
(* The inductive invariant.                                                *)
(***************************************************************************)
\* Events are numbered from one.  What is queued for a channel is an event of it.
Real == {event \in Event : event.n > 0}
Types ==
  /\ role \in Roles /\ socket \in Seq(Real)
  /\ dispatcher \in Real \cup {NoEvent} /\ acceptor \in Real \cup {NoEvent}
  /\ broadcast = <<>> \/ \E event \in Real : broadcast = <<event>>
  /\ phase \in [Chan -> Phase]
  /\ queue \in [Chan -> Seq(Real)] /\ holding \in [Chan -> Real \cup {NoEvent}]
  /\ \A c \in Chan : queue[c] = <<>> \/ \E event \in Real : queue[c] = <<event>>
  /\ delivered \in [Chan -> Seq(Nat)] /\ sent \in [Chan -> Nat]

\* The events of channel c that are not routed yet are in the order they were sent.
Unsorted(c) ==
  /\ \A i \in 1..Len(socket) : socket[i].chan = c => socket[i].n <= sent[c]
  /\ \A i, j \in 1..Len(socket) :
       socket[i].chan = c /\ socket[j].chan = c /\ i < j => socket[i].n < socket[j].n
  /\ dispatcher # NoEvent /\ dispatcher.chan = c =>
       /\ dispatcher.n <= sent[c]
       /\ \A i \in 1..Len(socket) : socket[i].chan = c => dispatcher.n < socket[i].n

\* A number that was sent, before all of channel c that is not routed yet.
Before(n, c) ==
  /\ n <= sent[c]
  /\ dispatcher # NoEvent /\ dispatcher.chan = c => n < dispatcher.n
  /\ \A i \in 1..Len(socket) : socket[i].chan = c => n < socket[i].n

\* A server is sent one request for a channel, which is in one place.  A client is
\* sent nothing that is no answer.
Requested(c) ==
  /\ Serving =>
       /\ broadcast # <<>> /\ broadcast[1].chan = c => broadcast[1].n = 1 /\ Before(1, c)
       /\ acceptor # NoEvent /\ acceptor.chan = c =>
            /\ acceptor.n = 1 /\ Before(1, c)
            /\ ~(broadcast # <<>> /\ broadcast[1].chan = c)
       /\ phase[c] # "none" =>
            /\ Before(1, c)
            /\ ~(broadcast # <<>> /\ broadcast[1].chan = c)
            /\ ~(acceptor # NoEvent /\ acceptor.chan = c)
  /\ ~Serving =>
       /\ broadcast = <<>> /\ acceptor = NoEvent /\ phase[c] # "spawned"
       /\ phase[c] = "none" => sent[c] = 0

\* Nothing was routed to a channel that is not open yet.
Fresh(c) ==
  phase[c] \in {"none", "spawned"} =>
    /\ delivered[c] = <<>> /\ holding[c] = NoEvent /\ queue[c] = <<>>
    /\ dispatcher # NoEvent /\ dispatcher.chan = c => IsRequest(dispatcher)

\* What BufferedChannel of a served channel was given begins with the request.
Rising(numbers) ==
  /\ numbers # <<>> => numbers[1] = 1
  /\ \A i \in 1..Len(numbers) - 1 : numbers[i] < numbers[i + 1]

\* A number that may come after those in delivered[c]: the request, or a later one.
Follows(n, c) ==
  IF delivered[c] = <<>> THEN n = 1 ELSE n > delivered[c][Len(delivered[c])]

\* The chain of a served channel, from what was delivered to what is not routed.
Served(c) ==
  /\ Rising(delivered[c])
  /\ phase[c] = "open" =>
       /\ holding[c] # NoEvent =>
            Follows(holding[c].n, c) /\ Before(holding[c].n, c)
       /\ queue[c] # <<>> =>
            /\ IF holding[c] = NoEvent THEN Follows(queue[c][1].n, c)
               ELSE queue[c][1].n > holding[c].n
            /\ Before(queue[c][1].n, c)
       /\ delivered[c] # <<>> => Before(delivered[c][Len(delivered[c])], c)
       /\ delivered[c] # <<>> \/ holding[c] # NoEvent \/ queue[c] # <<>>

\* How many events of channel c were routed, delivered or not.
Held(c) == IF holding[c] = NoEvent THEN 0 ELSE 1
Blocked(c) == IF dispatcher # NoEvent /\ dispatcher.chan = c THEN 1 ELSE 0
Routed(c) == Len(delivered[c]) + Held(c) + Len(queue[c])

\* The chain of a client's channel, which has no gap.
Answered(c) ==
  phase[c] \in {"none", "open"} =>
    /\ \A i \in 1..Len(delivered[c]) : delivered[c][i] = i
    /\ holding[c] # NoEvent => holding[c].n = Len(delivered[c]) + 1
    /\ queue[c] # <<>> => queue[c][1].n = Len(delivered[c]) + Held(c) + 1
    /\ Blocked(c) = 1 => dispatcher.n = Routed(c) + 1
    /\ Routed(c) + Blocked(c) <= sent[c]
    /\ \A i \in 1..Len(socket) : socket[i].chan = c => socket[i].n > Routed(c) + Blocked(c)
    /\ \A n \in (Routed(c) + Blocked(c) + 1)..sent[c] :
         \E i \in 1..Len(socket) : socket[i].chan = c /\ socket[i].n = n

Ordered ==
  \A c \in Chan : /\ Unsorted(c) /\ Requested(c) /\ Fresh(c)
                  /\ Serving => Served(c)
                  /\ ~Serving => Answered(c)

-----------------------------------------------------------------------------
(***************************************************************************)
(* What the dispatcher does.                                               *)
(***************************************************************************)
LEMMA Events ==
  /\ \A event \in Real : /\ event.n \in Nat /\ event.n > 0 /\ event.chan \in Chan
                         /\ event \in Event /\ event # NoEvent
  /\ \A c \in Chan, n \in Nat : n > 0 => [chan |-> c, n |-> n] \in Real
BY DEF Real, Event, NoEvent

LEMMA Tails ==
  ASSUME NEW S, NEW s \in Seq(S), s # <<>>
  PROVE  /\ Len(s) \in Nat /\ Len(s) > 0 /\ Head(s) = s[1] /\ Head(s) \in S
         /\ Tail(s) \in Seq(S) /\ Len(Tail(s)) = Len(s) - 1
         /\ \A i \in 1..Len(Tail(s)) : i + 1 \in 1..Len(s) /\ Tail(s)[i] = s[i + 1]
         /\ \A i \in 1..Len(s) : i = 1 \/ (i - 1 \in 1..Len(Tail(s)) /\ Tail(s)[i - 1] = s[i])
<1>1. /\ Tail(s) \in Seq(S) /\ Len(Tail(s)) = Len(s) - 1
      /\ \A i \in 1..Len(Tail(s)) : Tail(s)[i] = s[i + 1]
  BY HeadTailProperties
<1>2. Len(s) \in Nat /\ Len(s) > 0 /\ Head(s) = s[1] /\ Head(s) \in S
  BY EmptySeq, HeadTailProperties, LenProperties
<1>3. ASSUME NEW i \in 1..Len(s), i # 1
      PROVE  i - 1 \in 1..Len(Tail(s)) /\ (i - 1) + 1 = i
  BY <1>1, <1>2, <1>3
<1> QED  BY <1>1, <1>2, <1>3

\* The event the dispatcher has: the one it is blocked on, or the next of the socket.
Taken(event) ==
  \/ /\ dispatcher = NoEvent /\ socket # <<>>
     /\ event = Head(socket) /\ socket' = Tail(socket)
  \/ dispatcher # NoEvent /\ event = dispatcher /\ socket' = socket
Stays == UNCHANGED <<role, acceptor, phase, holding, delivered, sent>>

\* What becomes of it.
Drops(event) ==
  /\ Taken(event) /\ Stays /\ dispatcher = NoEvent /\ dispatcher' = NoEvent
  /\ ~IsRequest(event) /\ ~Registered(event.chan)
  /\ UNCHANGED <<broadcast, queue>>
Announces(event) ==
  /\ Taken(event) /\ Stays /\ dispatcher' = NoEvent /\ IsRequest(event)
  /\ broadcast = <<>> /\ broadcast' = <<event>> /\ UNCHANGED queue
Queues(event) ==
  /\ Taken(event) /\ Stays /\ dispatcher' = NoEvent /\ ~IsRequest(event)
  /\ dispatcher # NoEvent \/ Registered(event.chan)
  /\ queue[event.chan] = <<>> /\ queue' = [queue EXCEPT ![event.chan] = <<event>>]
  /\ UNCHANGED broadcast
Blocks(event) ==
  /\ Taken(event) /\ Stays /\ dispatcher = NoEvent /\ dispatcher' = event
  /\ IsRequest(event) \/ Registered(event.chan)
  /\ UNCHANGED <<broadcast, queue>>

LEMMA Routes ==
  ASSUME Types, Dispatch \/ Unblock
  PROVE  \E event \in Real :
           Drops(event) \/ Announces(event) \/ Queues(event) \/ Blocks(event)
<1> DEFINE event == IF dispatcher = NoEvent THEN Head(socket) ELSE dispatcher
<1>1. /\ event \in Real /\ Taken(event) /\ Stays
      /\ \/ dispatcher # NoEvent /\ dispatcher' = NoEvent /\ Put(event)
         \/ dispatcher = NoEvent /\ (IsRequest(event) \/ Registered(event.chan)) /\ Put(event)
         \/ /\ dispatcher = NoEvent /\ ~IsRequest(event) /\ ~Registered(event.chan)
            /\ UNCHANGED <<dispatcher, broadcast, queue>>
  <2>1. CASE Dispatch
    <3>1. dispatcher = NoEvent /\ socket # <<>> /\ event = Head(socket)
      BY <2>1 DEF Dispatch
    <3>2. Head(socket) \in Real
      BY <3>1, Tails DEF Types
    <3> QED  BY <2>1, <3>1, <3>2 DEF Dispatch, Taken, Stays
  <2>2. CASE Unblock
    BY <2>2 DEF Unblock, Taken, Stays, Types
  <2> QED  BY <2>1, <2>2
<1> HIDE DEF event
<1>2. event # NoEvent /\ event.chan \in Chan
  BY <1>1, Events
<1>3. \A s \in Seq(Real) : Len(s) < QueueSize => s = <<>>
  BY EmptySeq DEF QueueSize
<1>4. Append(<<>>, event) = <<event>>
  <2>1. <<>> \in Seq(Real) /\ <<event>> \in Seq(Real)
    BY <1>1
  <2>2. Append(<<>>, event) = <<>> \o <<event>>
    BY <1>1, <2>1, AppendIsConcat
  <2> QED  BY <2>1, <2>2, ConcatEmptySeq
<1>5. broadcast \in Seq(Real) /\ queue[event.chan] \in Seq(Real)
      /\ queue \in [Chan -> Seq(Real)]
  <2>1. <<>> \in Seq(Real) /\ \A x \in Real : <<x>> \in Seq(Real)
    OBVIOUS
  <2>2. broadcast \in Seq(Real)
    BY <2>1 DEF Types
  <2>3. queue \in [Chan -> Seq(Real)]
    BY DEF Types
  <2> QED  BY <1>2, <2>2, <2>3
<1>6. CASE /\ Put(event)
           /\ \/ dispatcher # NoEvent /\ dispatcher' = NoEvent
              \/ dispatcher = NoEvent /\ (IsRequest(event) \/ Registered(event.chan))
  <2>1. CASE /\ IsRequest(event) /\ Len(broadcast) < QueueSize
             /\ broadcast' = Append(broadcast, event)
             /\ dispatcher' = NoEvent /\ UNCHANGED queue
    <3>1. broadcast = <<>> /\ broadcast' = <<event>>
      BY <1>3, <1>4, <1>5, <2>1
    <3> QED  BY <1>1, <2>1, <3>1 DEF Announces
  <2>2. CASE /\ ~IsRequest(event) /\ Len(queue[event.chan]) < QueueSize
             /\ queue' = [queue EXCEPT ![event.chan] = Append(@, event)]
             /\ dispatcher' = NoEvent /\ UNCHANGED broadcast
    <3>1. queue[event.chan] = <<>>
      BY <1>3, <1>5, <2>2
    <3>2. queue' = [queue EXCEPT ![event.chan] = <<event>>]
      BY <1>4, <2>2, <3>1
    <3>3. dispatcher # NoEvent \/ Registered(event.chan)
      BY <1>6, <2>2
    <3> QED  BY <1>1, <2>2, <3>1, <3>2, <3>3 DEF Queues
  <2>3. CASE dispatcher' = event /\ UNCHANGED <<broadcast, queue>>
    <3>1. dispatcher = NoEvent
      BY <1>2, <1>6, <2>3
    <3>2. IsRequest(event) \/ Registered(event.chan)
      BY <1>6, <3>1
    <3> QED  BY <1>1, <2>3, <3>1, <3>2 DEF Blocks
  <2> QED  BY <1>6, <2>1, <2>2, <2>3 DEF Put
<1>7. CASE /\ dispatcher = NoEvent /\ ~IsRequest(event) /\ ~Registered(event.chan)
           /\ UNCHANGED <<dispatcher, broadcast, queue>>
  BY <1>1, <1>7 DEF Drops
<1> QED  BY <1>1, <1>6, <1>7

LEMMA TypesStep == Types /\ [Next]_vars => Types'
<1> SUFFICES ASSUME Types, [Next]_vars PROVE Types'
  OBVIOUS
<1>0. /\ <<>> \in Seq(Real) /\ \A x \in Real : <<x>> \in Seq(Real)
  OBVIOUS
<1>q. ASSUME NEW c \in Chan, queue[c] # <<>>
      PROVE  queue[c][1] \in Real /\ Head(queue[c]) = queue[c][1] /\ Tail(queue[c]) = <<>>
  <2>1. PICK event \in Real : queue[c] = <<event>>
    BY <1>q DEF Types
  <2> QED  BY <2>1
<1>1. CASE Dispatch \/ Unblock
  <2>1. PICK event \in Real : Drops(event) \/ Announces(event) \/ Queues(event) \/ Blocks(event)
    BY <1>1, Routes
  <2>2. Taken(event) /\ Stays
    BY <2>1 DEF Drops, Announces, Queues, Blocks
  <2>3. socket' \in Seq(Real)
    BY <2>2, Tails DEF Taken, Types
  <2>4. /\ dispatcher' \in Real \cup {NoEvent}
        /\ broadcast' = <<>> \/ \E e \in Real : broadcast' = <<e>>
    BY <2>1 DEF Drops, Announces, Queues, Blocks, Types
  <2>5. /\ queue' \in [Chan -> Seq(Real)]
        /\ \A c \in Chan : queue'[c] = <<>> \/ \E e \in Real : queue'[c] = <<e>>
    <3>1. CASE queue' = queue
      BY <3>1 DEF Types
    <3>2. CASE queue' = [queue EXCEPT ![event.chan] = <<event>>]
      <4>1. event.chan \in Chan /\ <<event>> \in Seq(Real)
        BY <1>0, Events
      <4> QED  BY <3>2, <4>1 DEF Types
    <3> QED  BY <2>1, <3>1, <3>2 DEF Drops, Announces, Queues, Blocks
  <2> QED  BY <2>2, <2>3, <2>4, <2>5 DEF Stays, Types
<1>2. CASE Accept
  <2>1. PICK event \in Real : broadcast = <<event>>
    BY <1>2 DEF Accept, Types
  <2>2. Head(broadcast) = event /\ Tail(broadcast) = <<>>
    BY <2>1
  <2> QED  BY <1>2, <2>2 DEF Accept, Types
<1>3. CASE SpawnTask
  BY <1>3 DEF SpawnTask, Types, Phase
<1>4. ASSUME NEW c \in Chan, Arrive(c) PROVE Types'
  <2>1. /\ sent' = [sent EXCEPT ![c] = @ + 1]
        /\ socket' = Append(socket, [chan |-> c, n |-> sent'[c]])
        /\ UNCHANGED <<role, dispatcher, broadcast, acceptor, phase, queue, holding, delivered>>
    BY <1>4 DEF Arrive
  <2>2. sent' \in [Chan -> Nat] /\ sent'[c] \in Nat /\ sent'[c] > 0
    BY <2>1 DEF Types
  <2>3. socket' \in Seq(Real)
    BY <2>1, <2>2, Events, AppendProperties DEF Types
  <2> QED  BY <2>1, <2>2, <2>3 DEF Types
<1>5. ASSUME NEW c \in Chan, StartTask(c) PROVE Types'
  <2>1. [chan |-> c, n |-> 1] \in Real
    BY Events
  <2>2. /\ phase' = [phase EXCEPT ![c] = "open"]
        /\ queue' = [queue EXCEPT ![c] = <<[chan |-> c, n |-> 1]>>]
        /\ UNCHANGED <<role, socket, dispatcher, broadcast, acceptor, holding, delivered, sent>>
    BY <1>5 DEF StartTask
  <2>3. /\ queue' \in [Chan -> Seq(Real)]
        /\ \A d \in Chan : queue'[d] = <<>> \/ \E e \in Real : queue'[d] = <<e>>
    BY <1>0, <2>1, <2>2 DEF Types
  <2> QED  BY <2>2, <2>3 DEF Types, Phase
<1>6. ASSUME NEW c \in Chan, OpenChannel(c) PROVE Types'
  BY <1>6 DEF OpenChannel, Types, Phase
<1>7. ASSUME NEW c \in Chan, HbRecv(c) PROVE Types'
  <2>1. /\ holding' = [holding EXCEPT ![c] = queue[c][1]] /\ queue[c][1] \in Real
        /\ queue' = [queue EXCEPT ![c] = <<>>]
        /\ UNCHANGED <<role, socket, dispatcher, broadcast, acceptor, phase, delivered, sent>>
    BY <1>7, <1>q DEF HbRecv
  <2>2. /\ queue' \in [Chan -> Seq(Real)]
        /\ \A d \in Chan : queue'[d] = <<>> \/ \E e \in Real : queue'[d] = <<e>>
    BY <1>0, <2>1 DEF Types
  <2> QED  BY <2>1, <2>2 DEF Types
<1>8. ASSUME NEW c \in Chan, BufRecv(c) PROVE Types'
  <2>1. /\ delivered' = [delivered EXCEPT ![c] = Append(@, holding[c].n)]
        /\ holding' = [holding EXCEPT ![c] = NoEvent] /\ holding[c] # NoEvent
        /\ UNCHANGED <<role, socket, dispatcher, broadcast, acceptor, phase, queue, sent>>
    BY <1>8 DEF BufRecv
  <2>2. holding[c].n \in Nat
    BY <2>1, Events DEF Types
  <2>3. Append(delivered[c], holding[c].n) \in Seq(Nat)
    BY <2>2, AppendProperties DEF Types
  <2> QED  BY <2>1, <2>3 DEF Types
<1>9. ASSUME NEW c \in Chan, Close(c) \/ HbKilled(c) \/ Unregister(c) PROVE Types'
  <2>1. /\ phase' \in [Chan -> Phase] /\ holding' \in [Chan -> Real \cup {NoEvent}]
        /\ UNCHANGED <<role, socket, dispatcher, broadcast, acceptor, queue, delivered, sent>>
    BY <1>9 DEF Close, HbKilled, Unregister, CloseStep, Types, Phase
  <2> QED  BY <2>1 DEF Types
<1>10. CASE UNCHANGED vars
  BY <1>10 DEF vars, Types
<1> QED  BY <1>1, <1>2, <1>3, <1>4, <1>5, <1>6, <1>7, <1>8, <1>9, <1>10 DEF Next

-----------------------------------------------------------------------------
(***************************************************************************)
(* The order of what is not routed yet.                                    *)
(***************************************************************************)
\* A step that neither receives an event nor routes one to wait on.
Rests == UNCHANGED <<role, socket, sent>> /\ dispatcher' \in {dispatcher, NoEvent}

LEMMA Flow ==
  ASSUME Types, [Next]_vars
  PROVE  \/ Rests
         \/ \E c \in Chan : Arrive(c)
         \/ \E event \in Real :
              /\ dispatcher = NoEvent /\ Taken(event) /\ dispatcher' \in {NoEvent, event}
              /\ UNCHANGED <<role, sent>>
<1>1. CASE Dispatch \/ Unblock
  <2>1. PICK event \in Real : Drops(event) \/ Announces(event) \/ Queues(event) \/ Blocks(event)
    BY <1>1, Routes
  <2>2. Taken(event) /\ Stays /\ dispatcher' \in {NoEvent, event}
    BY <2>1 DEF Drops, Announces, Queues, Blocks
  <2>3. dispatcher # NoEvent => Rests
    BY <2>2 DEF Taken, Stays, Rests
  <2> QED  BY <2>2, <2>3 DEF Stays
<1>2. CASE Accept \/ SpawnTask \/ UNCHANGED vars
  BY <1>2 DEF Accept, SpawnTask, vars, Rests
<1>3. ASSUME NEW c \in Chan, \/ StartTask(c) \/ OpenChannel(c) \/ HbRecv(c) \/ BufRecv(c)
                             \/ Close(c) \/ HbKilled(c) \/ Unregister(c)
      PROVE  Rests
  BY <1>3 DEF StartTask, OpenChannel, HbRecv, BufRecv, Close, HbKilled, Unregister, CloseStep,
     Rests
<1> QED  BY <1>1, <1>2, <1>3 DEF Next

LEMMA RoleStays == Types /\ [Next]_vars => role' = role
BY Flow DEF Rests, Arrive

\* What the socket holds next.
LEMMA SocketNext ==
  ASSUME Types, NEW event, dispatcher = NoEvent, Taken(event)
  PROVE  /\ Len(socket) > 0 /\ event = socket[1] /\ 1 \in 1..Len(socket) /\ Len(socket) \in Nat
         /\ Len(socket') = Len(socket) - 1
         /\ \A i \in 1..Len(socket') : i + 1 \in 1..Len(socket) /\ socket'[i] = socket[i + 1]
         /\ \A i \in 1..Len(socket) : i = 1 \/ (i - 1 \in 1..Len(socket') /\ socket'[i - 1] = socket[i])
<1>1. socket # <<>> /\ event = Head(socket) /\ socket' = Tail(socket) /\ socket \in Seq(Real)
  BY DEF Taken, Types
<1> QED  BY <1>1, Tails

LEMMA SocketGrows ==
  ASSUME Types, NEW c \in Chan, Arrive(c)
  PROVE  /\ Len(socket) \in Nat /\ Len(socket') = Len(socket) + 1
         /\ \A i \in 1..Len(socket) : socket'[i] = socket[i]
         /\ socket'[Len(socket) + 1].chan = c /\ socket'[Len(socket) + 1].n = sent[c] + 1
         /\ sent'[c] = sent[c] + 1 /\ \A d \in Chan \ {c} : sent'[d] = sent[d]
         /\ sent[c] \in Nat /\ dispatcher' = dispatcher /\ role' = role
         /\ \A i \in 1..Len(socket') : i \in 1..Len(socket) \/ i = Len(socket) + 1
<1>1. /\ sent' = [sent EXCEPT ![c] = @ + 1]
      /\ socket' = Append(socket, [chan |-> c, n |-> sent'[c]])
      /\ dispatcher' = dispatcher /\ role' = role
  BY DEF Arrive
<1>2. /\ sent'[c] = sent[c] + 1 /\ \A d \in Chan \ {c} : sent'[d] = sent[d]
      /\ sent[c] \in Nat /\ sent'[c] \in Nat /\ sent'[c] > 0
  BY <1>1 DEF Types
<1>3. [chan |-> c, n |-> sent'[c]] \in Real
  BY <1>2, Events
<1>4. /\ Len(socket) \in Nat /\ Len(socket') = Len(socket) + 1
      /\ \A i \in 1..Len(socket) : socket'[i] = socket[i]
      /\ socket'[Len(socket) + 1] = [chan |-> c, n |-> sent'[c]]
  BY <1>1, <1>3, AppendProperties, LenProperties DEF Types
<1>5. \A i \in 1..Len(socket') : i \in 1..Len(socket) \/ i = Len(socket) + 1
  BY <1>4
<1> QED  BY <1>1, <1>2, <1>4, <1>5

\* The numbers of what is in the socket.
LEMMA Numbered ==
  ASSUME Types
  PROVE  \A i \in 1..Len(socket) : socket[i] \in Real /\ socket[i].n \in Nat /\ socket[i].n > 0
BY Events, ElementOfSeq DEF Types

LEMMA UnsortedStep ==
  ASSUME Types, [Next]_vars, NEW c \in Chan, Unsorted(c)
  PROVE  Unsorted(c)'
<1>1. CASE Rests
  BY <1>1 DEF Rests, Unsorted
<1>2. ASSUME NEW d \in Chan, Arrive(d) PROVE Unsorted(c)'
  <2>1. /\ Len(socket) \in Nat /\ Len(socket') = Len(socket) + 1
        /\ \A i \in 1..Len(socket) : socket'[i] = socket[i]
        /\ socket'[Len(socket) + 1].chan = d /\ socket'[Len(socket) + 1].n = sent[d] + 1
        /\ sent'[d] = sent[d] + 1 /\ \A e \in Chan \ {d} : sent'[e] = sent[e]
        /\ sent[d] \in Nat /\ dispatcher' = dispatcher
        /\ \A i \in 1..Len(socket') : i \in 1..Len(socket) \/ i = Len(socket) + 1
    BY <1>2, SocketGrows
  <2>2. \A i \in 1..Len(socket) : socket[i].n \in Nat
    BY Numbered
  <2>3. sent[c] \in Nat /\ sent'[c] \in Nat /\ sent[c] <= sent'[c]
    BY <2>1 DEF Types
  <2>4. \A i \in 1..Len(socket') : socket'[i].chan = c => socket'[i].n <= sent'[c]
    BY <2>1, <2>2, <2>3 DEF Unsorted
  <2>5. ASSUME NEW i \in 1..Len(socket'), NEW j \in 1..Len(socket'), i < j,
               socket'[i].chan = c, socket'[j].chan = c
        PROVE  socket'[i].n < socket'[j].n
    <3>1. i \in 1..Len(socket)
      BY <2>1, <2>5
    <3>2. CASE j \in 1..Len(socket)
      BY <2>1, <2>5, <3>1, <3>2 DEF Unsorted
    <3>3. CASE j = Len(socket) + 1
      <4>1. d = c /\ socket'[j].n = sent[c] + 1 /\ socket'[i].n <= sent[c] /\ socket'[i].n \in Nat
        BY <2>1, <2>2, <2>5, <3>1, <3>3 DEF Unsorted
      <4> QED  BY <2>3, <4>1
    <3> QED  BY <2>1, <3>2, <3>3
  <2>6. ASSUME dispatcher # NoEvent, dispatcher.chan = c
        PROVE  /\ dispatcher.n <= sent'[c]
               /\ \A i \in 1..Len(socket') : socket'[i].chan = c => dispatcher.n < socket'[i].n
    <3>1. dispatcher.n \in Nat
      BY <2>6, Events DEF Types
    <3>2. dispatcher.n <= sent[c]
      BY <2>6 DEF Unsorted
    <3>3. \A i \in 1..Len(socket) : socket'[i].chan = c => dispatcher.n < socket'[i].n
      BY <2>1, <2>6 DEF Unsorted
    <3> QED  BY <2>1, <2>3, <3>1, <3>2, <3>3
  <2> QED  BY <2>1, <2>4, <2>5, <2>6 DEF Unsorted
<1>3. ASSUME NEW event \in Real, dispatcher = NoEvent, Taken(event),
             dispatcher' \in {NoEvent, event}, sent' = sent
      PROVE  Unsorted(c)'
  <2>1. /\ event = socket[1] /\ 1 \in 1..Len(socket) /\ Len(socket) \in Nat
        /\ Len(socket') = Len(socket) - 1
        /\ \A i \in 1..Len(socket') : i + 1 \in 1..Len(socket) /\ socket'[i] = socket[i + 1]
    BY <1>3, SocketNext
  <2>2. \A i \in 1..Len(socket') : socket'[i].chan = c => socket'[i].n <= sent[c]
    BY <2>1 DEF Unsorted
  <2>3. ASSUME NEW i \in 1..Len(socket'), NEW j \in 1..Len(socket'), i < j,
               socket'[i].chan = c, socket'[j].chan = c
        PROVE  socket'[i].n < socket'[j].n
    <3>1. i + 1 < j + 1 /\ i + 1 \in 1..Len(socket) /\ j + 1 \in 1..Len(socket)
      BY <2>1, <2>3
    <3> QED  BY <2>1, <2>3, <3>1 DEF Unsorted
  <2>4. ASSUME event.chan = c
        PROVE  /\ event.n <= sent[c]
               /\ \A i \in 1..Len(socket') : socket'[i].chan = c => event.n < socket'[i].n
    <3>1. \A i \in 1..Len(socket') : 1 < i + 1
      OBVIOUS
    <3> QED  BY <2>1, <2>4, <3>1 DEF Unsorted
  <2> QED  BY <1>3, <2>2, <2>3, <2>4 DEF Unsorted
<1> QED  BY <1>1, <1>2, <1>3, Flow

\* What comes before all that is not routed comes before what is routed next.
LEMMA BeforeTaken ==
  ASSUME Types, NEW c \in Chan, NEW n \in Nat, Before(n, c), NEW event, Taken(event),
         event.chan = c
  PROVE  n < event.n
<1>1. CASE dispatcher = NoEvent
  BY <1>1, SocketNext DEF Before
<1>2. CASE dispatcher # NoEvent
  BY <1>2 DEF Taken, Before
<1> QED  BY <1>1, <1>2

LEMMA BeforeStays ==
  ASSUME Types, [Next]_vars, NEW c \in Chan, NEW n \in Nat, Before(n, c)
  PROVE  Before(n, c)'
<1>1. CASE Rests
  BY <1>1 DEF Rests, Before
<1>2. ASSUME NEW d \in Chan, Arrive(d) PROVE Before(n, c)'
  <2>1. /\ Len(socket) \in Nat /\ Len(socket') = Len(socket) + 1
        /\ \A i \in 1..Len(socket) : socket'[i] = socket[i]
        /\ socket'[Len(socket) + 1].chan = d /\ socket'[Len(socket) + 1].n = sent[d] + 1
        /\ sent'[d] = sent[d] + 1 /\ \A e \in Chan \ {d} : sent'[e] = sent[e]
        /\ sent[d] \in Nat /\ dispatcher' = dispatcher
        /\ \A i \in 1..Len(socket') : i \in 1..Len(socket) \/ i = Len(socket) + 1
    BY <1>2, SocketGrows
  <2>2. n <= sent'[c]
    <3>1. sent[c] \in Nat /\ (sent'[c] = sent[c] \/ sent'[c] = sent[c] + 1)
      BY <2>1 DEF Types
    <3>2. n <= sent[c]
      BY DEF Before
    <3> QED  BY <3>1, <3>2
  <2>3. \A i \in 1..Len(socket) : socket'[i].chan = c => n < socket'[i].n
    BY <2>1 DEF Before
  <2>4. d = c => n < sent[d] + 1
    BY <2>1 DEF Before
  <2> QED  BY <2>1, <2>2, <2>3, <2>4 DEF Before
<1>3. ASSUME NEW event \in Real, dispatcher = NoEvent, Taken(event),
             dispatcher' \in {NoEvent, event}, sent' = sent
      PROVE  Before(n, c)'
  <2>1. /\ event = socket[1] /\ 1 \in 1..Len(socket)
        /\ \A i \in 1..Len(socket') : i + 1 \in 1..Len(socket) /\ socket'[i] = socket[i + 1]
    BY <1>3, SocketNext
  <2> QED  BY <1>3, <2>1 DEF Before
<1> QED  BY <1>1, <1>2, <1>3, Flow

\* The event that is routed was before all that are left.
LEMMA RoutedBefore ==
  ASSUME Types, NEW c \in Chan, Unsorted(c), NEW event \in Real, Taken(event),
         event.chan = c, dispatcher' = NoEvent, sent' = sent
  PROVE  Before(event.n, c)'
<1>1. CASE dispatcher = NoEvent
  <2>1. /\ event = socket[1] /\ 1 \in 1..Len(socket)
        /\ \A i \in 1..Len(socket') : i + 1 \in 1..Len(socket) /\ socket'[i] = socket[i + 1]
    BY <1>1, SocketNext
  <2>2. \A i \in 1..Len(socket') : 1 < i + 1
    OBVIOUS
  <2> QED  BY <2>1, <2>2 DEF Before, Unsorted
<1>2. CASE dispatcher # NoEvent
  BY <1>2 DEF Taken, Before, Unsorted
<1> QED  BY <1>1, <1>2

-----------------------------------------------------------------------------
(***************************************************************************)
(* The request of a channel is in one place.                               *)
(***************************************************************************)
Settles(c) == phase'[c] = phase[c] \/ (phase[c] # "none" /\ phase'[c] \notin {"none", "spawned"})

LEMMA Settling ==
  ASSUME Types, [Next]_vars
  PROVE  \/ /\ UNCHANGED acceptor /\ \A c \in Chan : Settles(c)
            /\ UNCHANGED broadcast \/ \E event \in Real : Announces(event)
            /\ UNCHANGED sent \/ \E c \in Chan : Arrive(c)
         \/ Accept \/ SpawnTask \/ \E c \in Chan : OpenChannel(c)
<1>1. CASE Dispatch \/ Unblock
  <2>1. PICK event \in Real : Drops(event) \/ Announces(event) \/ Queues(event) \/ Blocks(event)
    BY <1>1, Routes
  <2>2. UNCHANGED <<acceptor, phase, sent>>
    BY <2>1 DEF Drops, Announces, Queues, Blocks, Stays
  <2>3. UNCHANGED broadcast \/ Announces(event)
    BY <2>1 DEF Drops, Queues, Blocks
  <2> QED  BY <2>2, <2>3 DEF Settles
<1>2. ASSUME NEW c \in Chan, Arrive(c)
      PROVE  UNCHANGED <<acceptor, broadcast, phase>>
  BY <1>2 DEF Arrive
<1>3. ASSUME NEW d \in Chan, \/ StartTask(d) \/ HbRecv(d) \/ BufRecv(d)
                             \/ Close(d) \/ HbKilled(d) \/ Unregister(d)
      PROVE  UNCHANGED <<acceptor, broadcast, sent>> /\ \A c \in Chan : Settles(c)
  BY <1>3 DEF StartTask, HbRecv, BufRecv, Close, HbKilled, Unregister, CloseStep, Settles, Types
<1>4. CASE UNCHANGED vars
  BY <1>4 DEF vars, Settles
<1> QED  BY <1>1, <1>2, <1>3, <1>4 DEF Next, Settles

LEMMA RequestedStep ==
  ASSUME Types, [Next]_vars, NEW c \in Chan, Unsorted(c), Requested(c)
  PROVE  Requested(c)'
<1>r. role' = role /\ (Serving' <=> Serving)
  BY RoleStays DEF Serving
<1>b. Before(1, c) => Before(1, c)'
  BY BeforeStays
<1>1. CASE Accept
  <2>1. PICK event \in Real : broadcast = <<event>>
    BY <1>1 DEF Accept, Types
  <2>2. /\ acceptor = NoEvent /\ acceptor' = event /\ broadcast' = <<>> /\ broadcast[1] = event
        /\ event # NoEvent /\ broadcast # <<>> /\ UNCHANGED <<phase, sent>>
    BY <1>1, <2>1, Events DEF Accept
  <2>3. Serving
    BY <2>2 DEF Requested
  <2> QED  BY <1>b, <1>r, <2>2, <2>3 DEF Requested
<1>2. CASE SpawnTask
  <2>1. /\ acceptor # NoEvent /\ acceptor' = NoEvent /\ UNCHANGED <<broadcast, sent>>
        /\ phase' = [phase EXCEPT ![acceptor.chan] = "spawned"]
    BY <1>2 DEF SpawnTask
  <2>2. Serving
    BY <2>1 DEF Requested
  <2>3. acceptor.chan # c => phase'[c] = phase[c]
    BY <2>1 DEF Types
  <2> QED  BY <1>b, <1>r, <2>1, <2>2, <2>3 DEF Requested
<1>3. ASSUME NEW d \in Chan, OpenChannel(d) PROVE Requested(c)'
  <2>1. /\ ~Serving /\ UNCHANGED <<broadcast, acceptor, sent>> /\ phase' = [phase EXCEPT ![d] = "open"]
    BY <1>3 DEF OpenChannel
  <2> QED  BY <1>r, <2>1 DEF Requested, Types
<1>4. CASE /\ UNCHANGED acceptor /\ \A d \in Chan : Settles(d)
           /\ UNCHANGED broadcast \/ \E event \in Real : Announces(event)
           /\ UNCHANGED sent \/ \E d \in Chan : Arrive(d)
  <2>s. Settles(c)
    BY <1>4
  <2>1. CASE UNCHANGED broadcast
    <3>1. ASSUME ~Serving, phase'[c] = "none" PROVE sent'[c] = 0
      <4>1. phase[c] = "none" /\ sent[c] = 0
        BY <2>s, <3>1 DEF Settles, Requested
      <4>2. ASSUME NEW d \in Chan, Arrive(d) PROVE sent'[c] = sent[c]
        <5>1. d # c
          BY <3>1, <4>1, <4>2 DEF Arrive
        <5> QED  BY <4>2, <5>1, SocketGrows
      <4> QED  BY <1>4, <4>1, <4>2
    <3> QED  BY <1>b, <1>r, <1>4, <2>1, <2>s, <3>1 DEF Requested, Settles
  <2>2. ASSUME NEW event \in Real, Announces(event) PROVE Requested(c)'
    <3>1. /\ Taken(event) /\ dispatcher' = NoEvent /\ Serving /\ event.n = 1
          /\ broadcast' = <<event>> /\ UNCHANGED <<phase, acceptor, sent>>
      BY <2>2 DEF Announces, IsRequest, Stays
    <3>2. broadcast'[1] = event /\ broadcast' # <<>>
      BY <3>1
    <3>3. CASE event.chan = c
      <4>1. Before(1, c)'
        BY <3>1, <3>3, RoutedBefore
      <4>2. ~Before(1, c)
        BY <3>1, <3>3, BeforeTaken
      <4> QED  BY <1>r, <3>1, <3>2, <3>3, <4>1, <4>2 DEF Requested
    <3>4. CASE event.chan # c
      BY <1>b, <1>r, <3>1, <3>2, <3>4 DEF Requested
    <3> QED  BY <3>3, <3>4
  <2> QED  BY <1>4, <2>1, <2>2
<1> QED  BY <1>1, <1>2, <1>3, <1>4, Settling

-----------------------------------------------------------------------------
(***************************************************************************)
(* What is above the channels.                                             *)
(***************************************************************************)
\* What a step does to what is above channel c and to its phase.
Idles(c) ==
  /\ delivered'[c] = delivered[c] /\ holding'[c] = holding[c] /\ queue'[c] = queue[c]
  /\ phase'[c] = phase[c]
Ends(c) ==
  /\ delivered'[c] = delivered[c]
  /\ phase[c] \in {"open", "bufKilled", "hbKilled"}
  /\ phase'[c] \in {"bufKilled", "hbKilled", "closed"}

LEMMA Moves ==
  ASSUME Types, [Next]_vars, NEW c \in Chan
  PROVE  \/ Idles(c) /\ UNCHANGED <<dispatcher, socket, sent>>
         \/ Idles(c) /\ \E d \in Chan : Arrive(d)
         \/ Idles(c) /\ \E event \in Real : \/ Drops(event) \/ Announces(event)
                                            \/ Blocks(event)
                                            \/ Queues(event) /\ event.chan # c
         \/ \E event \in Real : /\ Queues(event) /\ event.chan = c /\ queue'[c] = <<event>>
                                /\ delivered'[c] = delivered[c] /\ holding'[c] = holding[c]
                                /\ phase'[c] = phase[c]
         \/ SpawnTask /\ acceptor.chan = c
         \/ StartTask(c) \/ OpenChannel(c)
         \/ HbRecv(c) \/ BufRecv(c) \/ Ends(c)
<1>1. CASE Dispatch \/ Unblock
  <2>1. PICK event \in Real : Drops(event) \/ Announces(event) \/ Queues(event) \/ Blocks(event)
    BY <1>1, Routes
  <2>2. UNCHANGED <<delivered, holding, phase>>
    BY <2>1 DEF Drops, Announces, Queues, Blocks, Stays
  <2>3. CASE Queues(event)
    <3>1. queue' = [queue EXCEPT ![event.chan] = <<event>>] /\ event.chan \in Chan
      BY <2>3, Events DEF Queues
    <3> QED  BY <2>2, <2>3, <3>1 DEF Types, Idles
  <2>4. CASE Drops(event) \/ Announces(event) \/ Blocks(event)
    BY <2>2, <2>4 DEF Drops, Announces, Blocks, Idles
  <2> QED  BY <2>1, <2>3, <2>4
<1>2. CASE Accept \/ UNCHANGED vars
  BY <1>2 DEF Accept, vars, Idles
<1>3. CASE SpawnTask
  BY <1>3 DEF SpawnTask, Idles, Types
<1>4. ASSUME NEW d \in Chan, Arrive(d) PROVE Idles(c)
  BY <1>4 DEF Arrive, Idles
<1>5. ASSUME NEW d \in Chan, \/ StartTask(d) \/ OpenChannel(d) \/ HbRecv(d) \/ BufRecv(d)
                             \/ Close(d) \/ HbKilled(d) \/ Unregister(d)
      PROVE  \/ Idles(c) /\ UNCHANGED <<dispatcher, socket, sent>>
             \/ StartTask(c) \/ OpenChannel(c) \/ HbRecv(c) \/ BufRecv(c) \/ Ends(c)
  <2>1. CASE d # c
    BY <1>5, <2>1 DEF StartTask, OpenChannel, HbRecv, BufRecv, Close, HbKilled, Unregister,
       CloseStep, Idles, Types
  <2>2. CASE d = c /\ (Close(d) \/ HbKilled(d) \/ Unregister(d))
    BY <2>2 DEF Close, HbKilled, Unregister, CloseStep, Ends, Types
  <2> QED  BY <1>5, <2>1, <2>2
<1> QED  BY <1>1, <1>2, <1>3, <1>4, <1>5 DEF Next

LEMMA FreshStep ==
  ASSUME Types, [Next]_vars, NEW c \in Chan, Requested(c), Fresh(c)
  PROVE  Fresh(c)'
<1>r. \A event : IsRequest(event)' <=> IsRequest(event)
  BY RoleStays DEF IsRequest, Serving
<1>f. ASSUME phase[c] \in {"none", "spawned"}, phase'[c] \in {"none", "spawned"},
             delivered'[c] = delivered[c], holding'[c] = holding[c], queue'[c] = queue[c],
             dispatcher' # NoEvent => dispatcher' = dispatcher \/ dispatcher'.chan # c
                                      \/ IsRequest(dispatcher')
      PROVE  Fresh(c)'
  BY <1>f, <1>r DEF Fresh, IsRequest, Serving
<1>1. CASE SpawnTask /\ acceptor.chan = c
  <2>1. /\ acceptor # NoEvent /\ phase'[c] = "spawned"
        /\ UNCHANGED <<dispatcher, delivered, holding, queue>>
    BY <1>1 DEF SpawnTask, Types
  <2>2. phase[c] = "none"
    BY <1>1, <2>1 DEF Requested
  <2> QED  BY <1>f, <2>1, <2>2
<1>2. CASE StartTask(c) \/ OpenChannel(c) \/ HbRecv(c) \/ BufRecv(c) \/ Ends(c)
  <2>1. phase'[c] \notin {"none", "spawned"}
    BY <1>2 DEF StartTask, OpenChannel, HbRecv, BufRecv, Ends, Types
  <2> QED  BY <2>1 DEF Fresh
<1>3. CASE Idles(c) /\ (UNCHANGED dispatcher \/ \E d \in Chan : Arrive(d))
  <2>1. UNCHANGED dispatcher
    BY <1>3 DEF Arrive
  <2> QED  BY <1>3, <1>f, <2>1 DEF Idles, Fresh
<1>4. ASSUME NEW event \in Real, Idles(c),
             \/ Drops(event) \/ Announces(event) \/ Blocks(event) \/ Queues(event)
      PROVE  Fresh(c)'
  <2> SUFFICES ASSUME phase[c] \in {"none", "spawned"} PROVE Fresh(c)'
    BY <1>4 DEF Idles, Fresh
  <2>1. \/ dispatcher' = NoEvent
        \/ dispatcher' = event /\ (IsRequest(event) \/ Registered(event.chan))
    BY <1>4 DEF Drops, Announces, Blocks, Queues
  <2>2. ~Registered(c)
    BY DEF Registered
  <2> QED  BY <1>4, <1>f, <2>1, <2>2 DEF Idles
<1>5. ASSUME NEW event \in Real, Queues(event), event.chan = c, phase'[c] = phase[c]
      PROVE  Fresh(c)'
  <2>1. phase[c] \notin {"none", "spawned"}
    BY <1>5 DEF Queues, Taken, Registered, Fresh
  <2> QED  BY <1>5, <2>1 DEF Fresh
<1> QED  BY <1>1, <1>2, <1>3, <1>4, <1>5, Moves

-----------------------------------------------------------------------------
(***************************************************************************)
(* A served channel.                                                       *)
(***************************************************************************)
LEMMA Numbering ==
  ASSUME Types, NEW c \in Chan
  PROVE  /\ delivered[c] \in Seq(Nat) /\ Len(delivered[c]) \in Nat
         /\ delivered[c] # <<>> => /\ delivered[c][Len(delivered[c])] \in Nat
                                   /\ Len(delivered[c]) > 0
         /\ holding[c] # NoEvent => holding[c].n \in Nat /\ holding[c].n > 0
         /\ queue[c] # <<>> => /\ queue[c][1].n \in Nat /\ queue[c][1].n > 0
                               /\ Head(queue[c]) = queue[c][1] /\ Tail(queue[c]) = <<>>
                               /\ queue[c][1] # NoEvent /\ Len(queue[c]) = 1
         /\ sent[c] \in Nat
<1>1. delivered[c] \in Seq(Nat) /\ sent[c] \in Nat /\ holding[c] \in Real \cup {NoEvent}
  BY DEF Types
<1>2. delivered[c] # <<>> => Len(delivered[c]) > 0 /\ delivered[c][Len(delivered[c])] \in Nat
  <2> SUFFICES ASSUME delivered[c] # <<>>
               PROVE  Len(delivered[c]) > 0 /\ delivered[c][Len(delivered[c])] \in Nat
    OBVIOUS
  <2>1. Len(delivered[c]) \in Nat \ {0}
    BY <1>1, EmptySeq
  <2>2. Len(delivered[c]) \in 1..Len(delivered[c])
    BY <2>1
  <2> QED  BY <1>1, <2>1, <2>2, ElementOfSeq
<1>3. ASSUME queue[c] # <<>>
      PROVE  /\ queue[c][1].n \in Nat /\ queue[c][1].n > 0
             /\ Head(queue[c]) = queue[c][1] /\ Tail(queue[c]) = <<>>
             /\ queue[c][1] # NoEvent /\ Len(queue[c]) = 1
  <2>1. PICK event \in Real : queue[c] = <<event>>
    BY <1>3 DEF Types
  <2>2. queue[c][1] = event /\ Len(queue[c]) = 1 /\ Head(queue[c]) = event /\ Tail(queue[c]) = <<>>
    BY <2>1
  <2> QED  BY <2>2, Events
<1> QED  BY <1>1, <1>2, <1>3, Events, LenProperties

LEMMA ServedStep ==
  ASSUME Types, [Next]_vars, NEW c \in Chan, Unsorted(c), Requested(c), Fresh(c), Serving, Served(c)
  PROVE  Served(c)'
<1>n. /\ delivered[c] # <<>> => delivered[c][Len(delivered[c])] \in Nat
      /\ holding[c] # NoEvent => holding[c].n \in Nat
      /\ queue[c] # <<>> => queue[c][1].n \in Nat /\ queue[c][1] # NoEvent
                            /\ Head(queue[c]) = queue[c][1] /\ Tail(queue[c]) = <<>>
  BY Numbering
<1>b. \A n \in Nat : Before(n, c) => Before(n, c)'
  BY BeforeStays
<1>s. phase[c] = "open" =>
        /\ holding[c] # NoEvent => Follows(holding[c].n, c) /\ Before(holding[c].n, c)
        /\ queue[c] # <<>> =>
             /\ IF holding[c] = NoEvent THEN Follows(queue[c][1].n, c)
                ELSE queue[c][1].n > holding[c].n
             /\ Before(queue[c][1].n, c)
        /\ delivered[c] # <<>> => Before(delivered[c][Len(delivered[c])], c)
        /\ delivered[c] # <<>> \/ holding[c] # NoEvent \/ queue[c] # <<>>
  BY DEF Served
<1>v. Rising(delivered[c])
  BY DEF Served
\* Where the chain is only extended by what comes before the rest.
<1>1. CASE Idles(c)
  BY <1>1, <1>b, <1>n, <1>s, <1>v DEF Idles, Served, Follows
<1>2. CASE Ends(c)
  BY <1>2, <1>v DEF Ends, Served
<1>3. CASE SpawnTask /\ acceptor.chan = c
  <2>1. delivered'[c] = delivered[c] /\ phase'[c] = "spawned"
    BY <1>3 DEF SpawnTask, Types
  <2> QED  BY <1>v, <2>1 DEF Served
<1>4. CASE StartTask(c)
  <2>1. /\ phase[c] = "spawned" /\ phase'[c] = "open" /\ UNCHANGED <<delivered, holding>>
        /\ queue'[c] = <<[chan |-> c, n |-> 1]>>
    BY <1>4 DEF StartTask, Types
  <2>2. delivered[c] = <<>> /\ holding[c] = NoEvent /\ Before(1, c)'
    BY <1>b, <2>1 DEF Fresh, Requested
  <2>3. queue'[c][1].n = 1 /\ queue'[c] # <<>>
    BY <2>1
  <2> QED  BY <1>v, <2>1, <2>2, <2>3 DEF Served, Follows
<1>5. CASE OpenChannel(c)
  BY <1>5 DEF OpenChannel
<1>6. ASSUME NEW event \in Real, Queues(event), event.chan = c, queue'[c] = <<event>>,
             delivered'[c] = delivered[c], holding'[c] = holding[c], phase'[c] = phase[c]
      PROVE  Served(c)'
  <2> SUFFICES ASSUME phase[c] = "open"
               PROVE  Served(c)'
    BY <1>6, <1>v DEF Served
  <2>1. Taken(event) /\ dispatcher' = NoEvent /\ sent' = sent /\ queue[c] = <<>>
    BY <1>6 DEF Queues, Stays
  <2>2. queue'[c][1] = event /\ queue'[c] # <<>> /\ event.n \in Nat
    BY <1>6, Events
  <2>3. Before(event.n, c)'
    BY <1>6, <2>1, RoutedBefore
  <2>4. IF holding[c] = NoEvent THEN Follows(event.n, c) ELSE event.n > holding[c].n
    <3>1. CASE holding[c] # NoEvent
      <4>1. holding[c].n < event.n
        BY <1>6, <1>n, <1>s, <2>1, <3>1, BeforeTaken
      <4> QED  BY <1>n, <2>2, <3>1, <4>1
    <3>2. CASE holding[c] = NoEvent
      <4>1. delivered[c] # <<>>
        BY <1>s, <2>1, <3>2
      <4>2. delivered[c][Len(delivered[c])] < event.n
        BY <1>6, <1>n, <1>s, <2>1, <4>1, BeforeTaken
      <4> QED  BY <1>n, <2>2, <3>2, <4>1, <4>2 DEF Follows
    <3> QED  BY <3>1, <3>2
  <2> QED  BY <1>6, <1>b, <1>n, <1>s, <1>v, <2>2, <2>3, <2>4 DEF Served, Follows
<1>7. CASE HbRecv(c)
  <2>1. /\ holding[c] = NoEvent /\ queue[c] # <<>> /\ UNCHANGED <<delivered, phase>>
        /\ holding'[c] = queue[c][1] /\ queue'[c] = <<>>
    BY <1>7, <1>n DEF HbRecv, Types
  <2> QED  BY <1>b, <1>n, <1>s, <1>v, <2>1 DEF Served, Follows
<1>8. CASE BufRecv(c)
  <2>1. /\ phase[c] = "open" /\ holding[c] # NoEvent /\ UNCHANGED <<phase, queue>>
        /\ holding'[c] = NoEvent /\ delivered'[c] = Append(delivered[c], holding[c].n)
    BY <1>8 DEF BufRecv, Types
  <2>m. PICK m \in Nat : m = holding[c].n
    BY <1>n, <2>1
  <2>d. delivered[c] \in Seq(Nat) /\ delivered'[c] = Append(delivered[c], m)
    BY <2>1, <2>m, Numbering
  <2>2. /\ Len(delivered[c]) \in Nat /\ Len(delivered'[c]) = Len(delivered[c]) + 1
        /\ delivered'[c] # <<>>
        /\ \A i \in 1..Len(delivered[c]) : delivered'[c][i] = delivered[c][i]
        /\ delivered'[c][Len(delivered[c]) + 1] = m
    <3>1. ASSUME NEW d \in Seq(Nat)
          PROVE  /\ Len(d) \in Nat /\ Len(Append(d, m)) = Len(d) + 1 /\ Append(d, m) # <<>>
                 /\ \A i \in 1..Len(d) : Append(d, m)[i] = d[i]
                 /\ Append(d, m)[Len(d) + 1] = m
      BY AppendProperties, LenProperties
    <3> QED  BY <2>d, <3>1
  <2>3. Follows(m, c) /\ Before(m, c)'
    BY <1>b, <1>s, <2>1, <2>m
  <2>4. Rising(delivered'[c])
    <3>1. CASE delivered[c] = <<>>
      <4>1. Len(delivered[c]) = 0 /\ Len(delivered'[c]) = 1 /\ delivered'[c][1] = 1
        BY <2>2, <2>3, <3>1 DEF Follows
      <4> QED  BY <4>1 DEF Rising
    <3>2. CASE delivered[c] # <<>>
      <4>1. /\ Len(delivered[c]) > 0 /\ delivered[c][Len(delivered[c])] < m
        BY <1>n, <2>3, <3>2, Numbering DEF Follows
      <4>2. delivered'[c][1] = 1
        BY <1>v, <2>2, <3>2, <4>1 DEF Rising
      <4>3. ASSUME NEW i \in 1..(Len(delivered'[c]) - 1)
            PROVE  delivered'[c][i] < delivered'[c][i + 1]
        <5>1. i = Len(delivered[c]) \/ i \in 1..(Len(delivered[c]) - 1)
          BY <2>2
        <5>2. CASE i = Len(delivered[c])
          BY <2>2, <4>1, <5>2
        <5>3. CASE i \in 1..(Len(delivered[c]) - 1)
          <6>1. i \in 1..Len(delivered[c]) /\ i + 1 \in 1..Len(delivered[c])
            BY <2>2, <5>3
          <6> QED  BY <1>v, <2>2, <5>3, <6>1 DEF Rising
        <5> QED  BY <5>1, <5>2, <5>3
      <4> QED  BY <4>2, <4>3 DEF Rising
    <3> QED  BY <3>1, <3>2
  <2>5. delivered'[c][Len(delivered'[c])] = m
    BY <2>2
  <2>6. ASSUME queue[c] # <<>>
        PROVE  queue'[c][1].n > m /\ Before(queue[c][1].n, c)'
    <3>1. PICK q \in Nat : q = queue[c][1].n
      BY <1>n, <2>6
    <3>2. q > m /\ Before(q, c)'
      BY <1>b, <1>s, <2>1, <2>6, <2>m, <3>1
    <3>3. queue'[c][1].n = q
      BY <2>1, <3>1
    <3> QED  BY <3>2, <3>3
  <2>8. holding'[c] = NoEvent /\ queue'[c] = queue[c] /\ phase'[c] = "open"
    BY <2>1
  <2>9. Before(delivered[c][Len(delivered[c])], c)'
    BY <2>3, <2>5
  <2>7. \A n : Follows(n, c)' <=> n > m
    BY <2>2, <2>5 DEF Follows
  <2> QED  BY <2>2, <2>4, <2>6, <2>7, <2>8, <2>9 DEF Served
<1> QED  BY <1>1, <1>2, <1>3, <1>4, <1>5, <1>6, <1>7, <1>8, Moves

-----------------------------------------------------------------------------
(***************************************************************************)
(* A client's channel.                                                     *)
(***************************************************************************)
LEMMA Counts ==
  ASSUME Types, NEW c \in Chan
  PROVE  /\ Len(delivered[c]) \in Nat /\ Len(queue[c]) \in Nat /\ sent[c] \in Nat
         /\ Held(c) \in {0, 1} /\ Blocked(c) \in {0, 1}
         /\ Routed(c) = Len(delivered[c]) + Held(c) + Len(queue[c]) /\ Routed(c) \in Nat
<1>1. Len(delivered[c]) \in Nat /\ sent[c] \in Nat /\ queue[c] \in Seq(Real)
  BY Numbering DEF Types
<1>2. Len(queue[c]) \in Nat /\ Held(c) \in {0, 1} /\ Blocked(c) \in {0, 1}
  BY <1>1, LenProperties DEF Held, Blocked
<1> QED  BY <1>1, <1>2 DEF Routed

\* The event of channel c that is routed next is the one after those that were.
LEMMA NextOfClient ==
  ASSUME Types, NEW c \in Chan, Unsorted(c), Answered(c), phase[c] \in {"none", "open"},
         NEW event \in Real, Taken(event), event.chan = c
  PROVE  /\ event.n = Routed(c) + 1 /\ Routed(c) + 1 <= sent[c]
         /\ \A i \in 1..Len(socket') : socket'[i].chan = c => socket'[i].n > Routed(c) + 1
         /\ \A n \in (Routed(c) + 2)..sent[c] :
              \E i \in 1..Len(socket') : socket'[i].chan = c /\ socket'[i].n = n
<1>0. Routed(c) \in Nat /\ sent[c] \in Nat
  BY Counts
<1>1. CASE dispatcher # NoEvent
  <2>1. event = dispatcher /\ socket' = socket /\ Blocked(c) = 1
    BY <1>1 DEF Taken, Blocked
  <2>2. Routed(c) + 1 + 1 = Routed(c) + 2
    BY <1>0
  <2> QED  BY <2>1, <2>2 DEF Answered
<1>2. CASE dispatcher = NoEvent
  <2>1. /\ event = socket[1] /\ 1 \in 1..Len(socket) /\ Len(socket) \in Nat
        /\ \A i \in 1..Len(socket') : i + 1 \in 1..Len(socket) /\ socket'[i] = socket[i + 1]
        /\ \A i \in 1..Len(socket) :
             i = 1 \/ (i - 1 \in 1..Len(socket') /\ socket'[i - 1] = socket[i])
    BY <1>2, SocketNext
  <2>2. Blocked(c) = 0
    BY <1>2 DEF Blocked
  <2>3. /\ \A i \in 1..Len(socket) : socket[i].chan = c => socket[i].n > Routed(c)
        /\ \A n \in (Routed(c) + 1)..sent[c] :
             \E i \in 1..Len(socket) : socket[i].chan = c /\ socket[i].n = n
    BY <1>0, <2>2 DEF Answered
  <2>4. event.n > Routed(c) /\ event.n <= sent[c] /\ event.n \in Nat
    BY <2>1, <2>3, Events DEF Unsorted
  <2>5. Routed(c) + 1 \in (Routed(c) + 1)..sent[c]
    BY <1>0, <2>4
  <2>6. PICK k \in 1..Len(socket) : socket[k].chan = c /\ socket[k].n = Routed(c) + 1
    BY <2>3, <2>5
  <2>7. event.n <= Routed(c) + 1
    <3>1. CASE k = 1
      BY <1>0, <2>1, <2>6, <3>1
    <3>2. CASE 1 < k
      BY <1>0, <2>1, <2>4, <2>6, <3>2 DEF Unsorted
    <3> QED  BY <2>1, <3>1, <3>2
  <2>8. event.n = Routed(c) + 1
    BY <1>0, <2>4, <2>7
  <2>9. \A i \in 1..Len(socket') : socket'[i].chan = c => socket'[i].n > Routed(c) + 1
    <3>1. \A i \in 1..Len(socket') : 1 < i + 1
      OBVIOUS
    <3>2. \A i \in 1..Len(socket') : socket'[i].chan = c => event.n < socket'[i].n
      BY <2>1, <3>1 DEF Unsorted
    <3>3. \A i \in 1..Len(socket') : socket'[i].n \in Nat
      BY <2>1, Numbered
    <3> QED  BY <1>0, <2>8, <3>2, <3>3
  <2>10. ASSUME NEW n \in (Routed(c) + 2)..sent[c]
         PROVE  \E i \in 1..Len(socket') : socket'[i].chan = c /\ socket'[i].n = n
    <3>1. n \in (Routed(c) + 1)..sent[c] /\ n # Routed(c) + 1
      BY <1>0
    <3>2. PICK i \in 1..Len(socket) : socket[i].chan = c /\ socket[i].n = n
      BY <2>3, <3>1
    <3>3. i # 1
      BY <2>1, <2>8, <3>1, <3>2
    <3> QED  BY <2>1, <3>2, <3>3
  <2>11. Routed(c) + 1 <= sent[c]
    BY <2>4, <2>8
  <2> QED  BY <2>8, <2>9, <2>10, <2>11
<1> QED  BY <1>1, <1>2

\* An event of another channel leaves those of channel c where they are.
LEMMA OthersOfClient ==
  ASSUME Types, NEW c \in Chan, NEW event \in Real, Taken(event), event.chan # c
  PROVE  /\ \A i \in 1..Len(socket') : \E j \in 1..Len(socket) : socket'[i] = socket[j]
         /\ \A j \in 1..Len(socket) : socket[j].chan = c =>
              \E i \in 1..Len(socket') : socket'[i] = socket[j]
         /\ dispatcher' \in {NoEvent, dispatcher, event} => Blocked(c)' \in {0, Blocked(c)}
<1>1. CASE dispatcher # NoEvent
  BY <1>1 DEF Taken, Blocked
<1>2. CASE dispatcher = NoEvent
  BY <1>2, SocketNext DEF Blocked
<1> QED  BY <1>1, <1>2

LEMMA AnsweredStep ==
  ASSUME Types, [Next]_vars, NEW c \in Chan, Unsorted(c), Requested(c), Fresh(c), ~Serving,
         Answered(c)
  PROVE  Answered(c)'
<1> SUFFICES ASSUME phase'[c] \in {"none", "open"} PROVE Answered(c)'
  BY DEF Answered
<1>p. phase[c] \in {"none", "open"}
  <2>1. ~StartTask(c)
    BY DEF StartTask, Requested
  <2> QED  BY <2>1, Moves DEF Idles, OpenChannel, HbRecv, BufRecv, Ends, SpawnTask, Types
<1>0. /\ Len(delivered[c]) \in Nat /\ Len(queue[c]) \in Nat /\ sent[c] \in Nat
      /\ Held(c) \in {0, 1} /\ Blocked(c) \in {0, 1} /\ Routed(c) \in Nat
      /\ Routed(c) = Len(delivered[c]) + Held(c) + Len(queue[c])
  BY Counts
<1>s. /\ \A i \in 1..Len(delivered[c]) : delivered[c][i] = i
      /\ holding[c] # NoEvent => holding[c].n = Len(delivered[c]) + 1
      /\ queue[c] # <<>> => queue[c][1].n = Len(delivered[c]) + Held(c) + 1
      /\ Blocked(c) = 1 => dispatcher.n = Routed(c) + 1
      /\ Routed(c) + Blocked(c) <= sent[c]
      /\ \A i \in 1..Len(socket) : socket[i].chan = c => socket[i].n > Routed(c) + Blocked(c)
      /\ \A n \in (Routed(c) + Blocked(c) + 1)..sent[c] :
           \E i \in 1..Len(socket) : socket[i].chan = c /\ socket[i].n = n
  BY <1>p DEF Answered
\* The part about what is routed, and the part about what is not.
<1> DEFINE Up == /\ \A i \in 1..Len(delivered[c]) : delivered[c][i] = i
                 /\ holding[c] # NoEvent => holding[c].n = Len(delivered[c]) + 1
                 /\ queue[c] # <<>> => queue[c][1].n = Len(delivered[c]) + Held(c) + 1
           Down == /\ Blocked(c) = 1 => dispatcher.n = Routed(c) + 1
                   /\ Routed(c) + Blocked(c) <= sent[c]
                   /\ \A i \in 1..Len(socket) :
                        socket[i].chan = c => socket[i].n > Routed(c) + Blocked(c)
                   /\ \A n \in (Routed(c) + Blocked(c) + 1)..sent[c] :
                        \E i \in 1..Len(socket) : socket[i].chan = c /\ socket[i].n = n
<1>u. Up' /\ Down' => Answered(c)'
  BY DEF Answered
<1>e. delivered'[c] = delivered[c] /\ holding'[c] = holding[c] /\ queue'[c] = queue[c]
        => Up' /\ Routed(c)' = Routed(c)
  BY <1>s DEF Held, Routed
<1>1. ASSUME UNCHANGED <<socket, dispatcher>>, sent'[c] = sent[c], Routed(c)' = Routed(c) PROVE Down'
  <2>1. Blocked(c)' = Blocked(c)
    BY <1>1 DEF Blocked
  <2> QED  BY <1>1, <1>s, <2>1
<1>2. ASSUME NEW event \in Real, Taken(event), event.chan # c, sent' = sent,
             dispatcher' \in {NoEvent, event}, Routed(c)' = Routed(c)
      PROVE  Down'
  <2>1. Blocked(c) = 0 /\ Blocked(c)' = 0
    BY <1>2 DEF Taken, Blocked
  <2>2. \A i \in 1..Len(socket') : socket'[i].chan = c => socket'[i].n > Routed(c)
    <3> SUFFICES ASSUME NEW i \in 1..Len(socket'), socket'[i].chan = c
                 PROVE  socket'[i].n > Routed(c)
      OBVIOUS
    <3>1. PICK j \in 1..Len(socket) : socket'[i] = socket[j]
      BY <1>2, OthersOfClient
    <3>2. Routed(c) + Blocked(c) = Routed(c)
      BY <1>0, <2>1
    <3> QED  BY <1>s, <3>1, <3>2
  <2>3. ASSUME NEW n \in (Routed(c) + 1)..sent[c]
        PROVE  \E i \in 1..Len(socket') : socket'[i].chan = c /\ socket'[i].n = n
    <3>1. PICK j \in 1..Len(socket) : socket[j].chan = c /\ socket[j].n = n
      BY <1>0, <1>s, <2>1
    <3>2. PICK i \in 1..Len(socket') : socket'[i] = socket[j]
      BY <1>2, <3>1, OthersOfClient
    <3> QED  BY <3>1, <3>2
  <2>4. Routed(c) <= sent[c] /\ Routed(c) + 0 = Routed(c)
    BY <1>0, <1>s, <2>1
  <2> QED  BY <1>2, <2>1, <2>2, <2>3, <2>4
<1>3. ASSUME NEW event \in Real, Blocks(event), event.chan = c, Routed(c)' = Routed(c)
      PROVE  Down'
  <2>1. Taken(event) /\ dispatcher' = event /\ sent' = sent
    BY <1>3 DEF Blocks, Stays
  <2>2. /\ event.n = Routed(c) + 1 /\ Routed(c) + 1 <= sent[c]
        /\ \A i \in 1..Len(socket') : socket'[i].chan = c => socket'[i].n > Routed(c) + 1
        /\ \A n \in (Routed(c) + 2)..sent[c] :
             \E i \in 1..Len(socket') : socket'[i].chan = c /\ socket'[i].n = n
    BY <1>3, <1>p, <2>1, NextOfClient
  <2>3. Blocked(c)' = 1
    BY <1>3, <2>1, Events DEF Blocked
  <2>4. Routed(c) + 1 + 1 = Routed(c) + 2
    BY <1>0
  <2> QED  BY <1>3, <2>1, <2>2, <2>3, <2>4
<1>4. CASE Idles(c) /\ UNCHANGED <<dispatcher, socket, sent>>
  BY <1>4, <1>1, <1>e, <1>u DEF Idles
<1>5. ASSUME NEW event \in Real, Idles(c),
             \/ Drops(event) \/ Announces(event) \/ Blocks(event)
             \/ Queues(event) /\ event.chan # c
      PROVE  Answered(c)'
  <2>1. Taken(event) /\ sent' = sent /\ dispatcher' \in {NoEvent, event}
    BY <1>5 DEF Drops, Announces, Blocks, Queues, Stays
  <2>2. Up' /\ Routed(c)' = Routed(c)
    BY <1>5, <1>e DEF Idles
  <2>3. CASE event.chan # c
    BY <1>2, <1>u, <2>1, <2>2, <2>3
  <2>4. CASE event.chan = c
    <3>1. ~Announces(event)
      BY DEF Announces, IsRequest
    <3>2. ~Drops(event)
      <4>1. phase[c] = "none" => sent[c] = 0
        BY DEF Requested
      <4>2. event.n > 0 /\ event.n \in Nat /\ event.n <= sent[c]
        BY <1>0, <1>p, <2>1, <2>4, Events, NextOfClient
      <4>3. phase[c] = "open"
        BY <1>0, <1>p, <4>1, <4>2
      <4> QED  BY <2>4, <4>3 DEF Drops, Registered
    <3>3. Blocks(event)
      BY <1>5, <2>4, <3>1, <3>2
    <3> QED  BY <1>3, <1>u, <2>2, <2>4, <3>3
  <2> QED  BY <2>3, <2>4
<1>6. ASSUME NEW event \in Real, Queues(event), event.chan = c, queue'[c] = <<event>>,
             delivered'[c] = delivered[c], holding'[c] = holding[c]
      PROVE  Answered(c)'
  <2>1. Taken(event) /\ dispatcher' = NoEvent /\ sent' = sent /\ queue[c] = <<>>
    BY <1>6 DEF Queues, Stays
  <2>2. /\ event.n = Routed(c) + 1 /\ Routed(c) + 1 <= sent[c]
        /\ \A i \in 1..Len(socket') : socket'[i].chan = c => socket'[i].n > Routed(c) + 1
        /\ \A n \in (Routed(c) + 2)..sent[c] :
             \E i \in 1..Len(socket') : socket'[i].chan = c /\ socket'[i].n = n
    BY <1>6, <1>p, <2>1, NextOfClient
  <2>3. Blocked(c)' = 0 /\ Held(c)' = Held(c) /\ Len(queue[c]) = 0 /\ Len(queue'[c]) = 1
    BY <1>6, <2>1 DEF Blocked, Held
  <2>4. Routed(c)' = Routed(c) + 1 /\ Routed(c) = Len(delivered[c]) + Held(c)
    <3>1. Routed(c)' = Len(delivered[c]) + Held(c) + 1
      BY <1>6, <2>3 DEF Routed
    <3> QED  BY <1>0, <2>3, <3>1
  <2>5. Up'
    <3>1. queue'[c][1] = event
      BY <1>6
    <3> QED  BY <1>6, <1>s, <2>2, <2>3, <2>4, <3>1
  <2>6. Down'
    <3>1. Routed(c) + 1 + 0 = Routed(c) + 1 /\ Routed(c) + 1 + 0 + 1 = Routed(c) + 2
      BY <1>0
    <3> QED  BY <2>1, <2>2, <2>3, <2>4, <3>1
  <2> QED  BY <1>u, <2>5, <2>6
<1>7. ASSUME NEW d \in Chan, Arrive(d) PROVE Answered(c)'
  <2>1. /\ Len(socket) \in Nat /\ Len(socket') = Len(socket) + 1
        /\ \A i \in 1..Len(socket) : socket'[i] = socket[i]
        /\ socket'[Len(socket) + 1].chan = d /\ socket'[Len(socket) + 1].n = sent[d] + 1
        /\ sent'[d] = sent[d] + 1 /\ \A e \in Chan \ {d} : sent'[e] = sent[e]
        /\ dispatcher' = dispatcher
        /\ \A i \in 1..Len(socket') : i \in 1..Len(socket) \/ i = Len(socket) + 1
    BY <1>7, SocketGrows
  <2>2. Up' /\ Routed(c)' = Routed(c)
    BY <1>7, <1>e DEF Arrive
  <2>3. Blocked(c)' = Blocked(c)
    BY <2>1 DEF Blocked
  <2>4. sent[c] <= sent'[c] /\ sent'[c] \in Nat /\ (d # c => sent'[c] = sent[c])
    BY <1>0, <2>1
  <2>5. \A i \in 1..Len(socket') : socket'[i].chan = c => socket'[i].n > Routed(c) + Blocked(c)
    <3>1. \A i \in 1..Len(socket) : socket'[i].chan = c => socket'[i].n > Routed(c) + Blocked(c)
      BY <1>s, <2>1
    <3>2. sent[c] + 1 > Routed(c) + Blocked(c)
      BY <1>0, <1>s
    <3> QED  BY <2>1, <3>1, <3>2
  <2>6. ASSUME NEW n \in (Routed(c) + Blocked(c) + 1)..sent'[c]
        PROVE  \E i \in 1..Len(socket') : socket'[i].chan = c /\ socket'[i].n = n
    <3>1. n \in (Routed(c) + Blocked(c) + 1)..sent[c] \/ (d = c /\ n = sent[c] + 1)
      BY <1>0, <2>1, <2>4
    <3>2. CASE n \in (Routed(c) + Blocked(c) + 1)..sent[c]
      <4>1. PICK i \in 1..Len(socket) : socket[i].chan = c /\ socket[i].n = n
        BY <1>s, <3>2
      <4>2. i \in 1..Len(socket') /\ socket'[i] = socket[i]
        BY <2>1
      <4> QED  BY <4>1, <4>2
    <3>3. CASE d = c /\ n = sent[c] + 1
      <4>1. Len(socket) + 1 \in 1..Len(socket')
        BY <2>1
      <4> QED  BY <2>1, <3>3, <4>1
    <3> QED  BY <3>1, <3>2, <3>3
  <2>7. Routed(c) + Blocked(c) <= sent'[c]
    BY <1>0, <1>s, <2>4
  <2>8. Down'
    BY <1>s, <2>1, <2>2, <2>3, <2>5, <2>6, <2>7
  <2> QED  BY <1>u, <2>2, <2>8
<1>8. CASE HbRecv(c)
  <2>1. /\ holding[c] = NoEvent /\ queue[c] # <<>> /\ UNCHANGED <<delivered, socket, dispatcher, sent>>
        /\ holding'[c] = queue[c][1] /\ queue'[c] = <<>>
        /\ queue[c][1] # NoEvent /\ Len(queue[c]) = 1
    BY <1>8, Numbering DEF HbRecv, Types
  <2>2. Held(c) = 0 /\ Held(c)' = 1 /\ Len(queue'[c]) = 0
    BY <2>1 DEF Held
  <2>3. Routed(c)' = Routed(c)
    <3>1. Routed(c)' = Len(delivered[c]) + 1 + 0
      BY <2>1, <2>2 DEF Routed
    <3> QED  BY <1>0, <2>1, <2>2, <3>1
  <2>4. Up'
    <3>1. Len(delivered[c]) + 0 + 1 = Len(delivered[c]) + 1
      BY <1>0
    <3> QED  BY <1>s, <2>1, <2>2, <3>1
  <2> QED  BY <1>1, <1>u, <2>1, <2>3, <2>4
<1>9. CASE BufRecv(c)
  <2>1. /\ holding[c] # NoEvent /\ UNCHANGED <<queue, socket, dispatcher, sent>>
        /\ holding'[c] = NoEvent /\ delivered'[c] = Append(delivered[c], holding[c].n)
    BY <1>9 DEF BufRecv, Types
  <2>m. PICK m \in Nat : m = holding[c].n
    BY <2>1, Numbering
  <2>2. /\ Len(delivered'[c]) = Len(delivered[c]) + 1
        /\ \A i \in 1..Len(delivered[c]) : delivered'[c][i] = delivered[c][i]
        /\ delivered'[c][Len(delivered[c]) + 1] = m
    <3>1. ASSUME NEW d \in Seq(Nat)
          PROVE  /\ Len(Append(d, m)) = Len(d) + 1
                 /\ \A i \in 1..Len(d) : Append(d, m)[i] = d[i]
                 /\ Append(d, m)[Len(d) + 1] = m
      BY AppendProperties
    <3>2. delivered[c] \in Seq(Nat) /\ delivered'[c] = Append(delivered[c], m)
      BY <2>1, <2>m, Numbering
    <3> QED  BY <3>1, <3>2
  <2>3. Held(c) = 1 /\ Held(c)' = 0
    BY <2>1 DEF Held
  <2>4. Routed(c)' = Routed(c)
    <3>1. Routed(c)' = Len(delivered[c]) + 1 + 0 + Len(queue[c])
      BY <2>1, <2>2, <2>3 DEF Routed
    <3> QED  BY <1>0, <2>3, <3>1
  <2>5. \A i \in 1..Len(delivered'[c]) : delivered'[c][i] = i
    <3>1. \A i \in 1..Len(delivered'[c]) : i \in 1..Len(delivered[c]) \/ i = Len(delivered[c]) + 1
      BY <1>0, <2>2
    <3> QED  BY <1>s, <2>1, <2>2, <2>m, <3>1
  <2>6. queue[c] # <<>> => queue'[c][1].n = Len(delivered'[c]) + 0 + 1
    BY <1>0, <1>s, <2>1, <2>2, <2>3
  <2>7. Up'
    BY <2>1, <2>3, <2>5, <2>6
  <2> QED  BY <1>1, <1>u, <2>1, <2>4, <2>7
<1>10. CASE OpenChannel(c)
  <2>1. UNCHANGED <<delivered, holding, queue, socket, dispatcher, sent>>
    BY <1>10 DEF OpenChannel
  <2> QED  BY <1>1, <1>e, <1>u, <2>1
<1> QED
  <2>1. ~StartTask(c) /\ ~Ends(c) /\ ~(SpawnTask /\ acceptor.chan = c)
    BY <1>p DEF StartTask, Ends, SpawnTask, Requested
  <2> QED  BY <2>1, <1>4, <1>5, <1>6, <1>7, <1>8, <1>9, <1>10, Moves

-----------------------------------------------------------------------------
(***************************************************************************)
(* The invariant, and the theorems.                                        *)
(***************************************************************************)
IInv == Types /\ Ordered

LEMMA InitIInv == Init => IInv
<1> SUFFICES ASSUME Init PROVE IInv
  OBVIOUS
<1>0. <<>> \in Seq(Real) /\ <<>> \in Seq(Nat) /\ Len(<<>>) = 0
  OBVIOUS
<1>1. Types
  BY <1>0 DEF Init, Types, Phase
<1>2. ASSUME NEW c \in Chan
      PROVE  /\ Unsorted(c) /\ Requested(c) /\ Fresh(c)
             /\ Serving => Served(c)
             /\ ~Serving => Answered(c)
  <2>1. /\ socket = <<>> /\ dispatcher = NoEvent /\ broadcast = <<>> /\ acceptor = NoEvent
        /\ phase[c] = "none" /\ queue[c] = <<>> /\ holding[c] = NoEvent
        /\ delivered[c] = <<>> /\ sent[c] = 0
    BY DEF Init
  <2>2. Unsorted(c) /\ Requested(c) /\ Fresh(c) /\ Served(c)
    BY <1>0, <2>1 DEF Unsorted, Requested, Fresh, Served, Rising
  <2>3. Held(c) = 0 /\ Blocked(c) = 0 /\ Routed(c) = 0
    BY <1>0, <2>1 DEF Held, Blocked, Routed
  <2>4. Answered(c)
    BY <1>0, <2>1, <2>3 DEF Answered
  <2> QED  BY <2>2, <2>4
<1> QED  BY <1>1, <1>2 DEF IInv, Ordered

LEMMA StepIInv == IInv /\ [Next]_vars => IInv'
<1> SUFFICES ASSUME Types, Ordered, [Next]_vars PROVE IInv'
  BY DEF IInv
<1>1. Types'
  BY TypesStep
<1>2. Serving' <=> Serving
  BY RoleStays DEF Serving
<1>3. ASSUME NEW c \in Chan
      PROVE  /\ Unsorted(c)' /\ Requested(c)' /\ Fresh(c)'
             /\ Serving' => Served(c)'
             /\ ~Serving' => Answered(c)'
  <2>1. /\ Unsorted(c) /\ Requested(c) /\ Fresh(c)
        /\ Serving => Served(c)
        /\ ~Serving => Answered(c)
    BY DEF Ordered
  <2>2. Unsorted(c)' /\ Requested(c)' /\ Fresh(c)'
    BY <2>1, UnsortedStep, RequestedStep, FreshStep
  <2>3. Serving => Served(c)'
    BY <2>1, ServedStep
  <2>4. ~Serving => Answered(c)'
    BY <2>1, AnsweredStep
  <2> QED  BY <1>2, <2>2, <2>3, <2>4
<1>4. Ordered'
  BY <1>3 DEF Ordered
<1> QED  BY <1>1, <1>4 DEF IInv

LEMMA Invariance == Spec => []IInv
<1>1. Init => IInv
  BY InitIInv
<1>2. IInv /\ [Next]_vars => IInv'
  BY StepIInv
<1> QED  BY <1>1, <1>2, PTL DEF Spec

\* No queue of the multiplexer or of a channel ever holds more than its maxsize, one
\* event, and every variable keeps its type.
THEOREM TypeCorrect == Spec => []TypeOK
<1>1. Types => TypeOK
  <2> SUFFICES ASSUME Types PROVE TypeOK
    OBVIOUS
  <2>1. Real \subseteq Event
    BY DEF Real
  <2>2. \A s \in Seq(Real) : s \in Seq(Event)
    BY <2>1, SeqMonotonic
  <2>3. \A e \in Real : <<e>> \in Seq(Event) /\ Len(<<e>>) = 1
    BY <2>1
  <2>4. <<>> \in Seq(Event) /\ Len(<<>>) = 0
    OBVIOUS
  <2>q. ASSUME NEW s, s = <<>> \/ \E e \in Real : s = <<e>>
        PROVE  s \in Seq(Event) /\ Len(s) <= QueueSize
    <3>1. CASE s = <<>>
      BY <2>4, <3>1 DEF QueueSize
    <3>2. ASSUME NEW e \in Real, s = <<e>> PROVE s \in Seq(Event) /\ Len(s) <= QueueSize
      BY <2>3, <3>2 DEF QueueSize
    <3> QED  BY <2>q, <3>1, <3>2
  <2>5. broadcast \in Seq(Event) /\ Len(broadcast) <= QueueSize
    BY <2>q DEF Types
  <2>6. \A c \in Chan : Len(queue[c]) <= QueueSize
    BY <2>q DEF Types
  <2>7. queue \in [Chan -> Seq(Event)]
    BY <2>2 DEF Types
  <2> QED  BY <2>1, <2>2, <2>5, <2>6, <2>7 DEF Types, TypeOK
<1> QED  BY <1>1, Invariance, PTL DEF IInv

\* The place of an event among those that are not routed yet.
LEMMA Queued ==
  ASSUME Types
  PROVE  \E d \in {0, 1} :
           /\ d = 1 <=> dispatcher # NoEvent
           /\ Len(Unrouted) = d + Len(socket) /\ Len(socket) \in Nat
           /\ \A i \in 1..Len(Unrouted) :
                \/ i = 1 /\ d = 1 /\ Unrouted[i] = dispatcher
                \/ i - d \in 1..Len(socket) /\ Unrouted[i] = socket[i - d]
           /\ d = 1 => Unrouted[1] = dispatcher
           /\ \A j \in 1..Len(socket) : Unrouted[j + d] = socket[j]
<1>0. /\ One(dispatcher) \in Seq(Real) /\ socket \in Seq(Real) /\ Len(socket) \in Nat
      /\ dispatcher = NoEvent => Len(One(dispatcher)) = 0
      /\ dispatcher # NoEvent => Len(One(dispatcher)) = 1 /\ One(dispatcher)[1] = dispatcher
  BY LenProperties DEF Types, One
<1>1. PICK d \in {0, 1} : d = Len(One(dispatcher)) /\ (d = 1 <=> dispatcher # NoEvent)
  BY <1>0
<1>2. /\ Len(Unrouted) = d + Len(socket)
      /\ \A i \in 1..d + Len(socket) :
           Unrouted[i] = IF i <= d THEN One(dispatcher)[i] ELSE socket[i - d]
  BY <1>0, <1>1, ConcatProperties DEF Unrouted
<1>3. ASSUME NEW i \in 1..Len(Unrouted)
      PROVE  \/ i = 1 /\ d = 1 /\ Unrouted[i] = dispatcher
             \/ i - d \in 1..Len(socket) /\ Unrouted[i] = socket[i - d]
  <2>1. CASE i <= d
    <3>1. i = 1 /\ d = 1
      BY <2>1
    <3> QED  BY <1>0, <1>1, <1>2, <2>1, <3>1
  <2>2. CASE ~(i <= d)
    BY <1>0, <1>2, <2>2
  <2> QED  BY <2>1, <2>2
<1>4. d = 1 => Unrouted[1] = dispatcher
  BY <1>0, <1>1, <1>2
<1>5. ASSUME NEW j \in 1..Len(socket)
      PROVE  Unrouted[j + d] = socket[j]
  <2>1. j + d \in 1..d + Len(socket) /\ ~(j + d <= d) /\ (j + d) - d = j
    BY <1>0
  <2> QED  BY <1>2, <2>1
<1> QED  BY <1>0, <1>1, <1>2, <1>3, <1>4, <1>5

\* The numbers of the events above a client's channel follow those delivered.
LEMMA Counted ==
  ASSUME Types, NEW c \in Chan, Answered(c), phase[c] \in {"none", "open"}
  PROVE  /\ Len(delivered[c] \o Numbers(Above(c))) = Routed(c)
         /\ delivered[c] \o Numbers(Above(c)) = [i \in 1..Routed(c) |-> i]
<1>0. /\ Len(delivered[c]) \in Nat /\ Len(queue[c]) \in Nat /\ Held(c) \in {0, 1}
      /\ Routed(c) \in Nat /\ Routed(c) = Len(delivered[c]) + Held(c) + Len(queue[c])
      /\ delivered[c] \in Seq(Nat)
  BY Counts, Numbering
<1>1. /\ One(holding[c]) \in Seq(Real) /\ queue[c] \in Seq(Real)
      /\ Len(One(holding[c])) = Held(c)
      /\ Held(c) = 1 => One(holding[c])[1] = holding[c] /\ holding[c] # NoEvent
  BY DEF Types, One, Held
<1>2. /\ Above(c) \in Seq(Real) /\ Len(Above(c)) = Held(c) + Len(queue[c])
      /\ \A i \in 1..Held(c) + Len(queue[c]) :
           Above(c)[i] = IF i <= Held(c) THEN One(holding[c])[i] ELSE queue[c][i - Held(c)]
  <2>1. ASSUME NEW s \in Seq(Real), NEW t \in Seq(Real)
        PROVE  /\ s \o t \in Seq(Real) /\ Len(s \o t) = Len(s) + Len(t)
               /\ \A i \in 1..Len(s) + Len(t) :
                    (s \o t)[i] = IF i <= Len(s) THEN s[i] ELSE t[i - Len(s)]
    BY ConcatProperties
  <2>2. /\ Above(c) \in Seq(Real)
        /\ Len(Above(c)) = Len(One(holding[c])) + Len(queue[c])
        /\ \A i \in 1..Len(One(holding[c])) + Len(queue[c]) :
             Above(c)[i] = IF i <= Len(One(holding[c])) THEN One(holding[c])[i]
                           ELSE queue[c][i - Len(One(holding[c]))]
    BY <1>1, <2>1 DEF Above
  <2> QED  BY <1>1, <2>2
<1>3. PICK a \in Nat : a = Len(Above(c))
  BY <1>0, <1>2
<1>4. ASSUME NEW i \in 1..a
      PROVE  Above(c)[i].n = Len(delivered[c]) + i
  <2>1. CASE i <= Held(c)
    <3>1. i = 1 /\ Held(c) = 1
      BY <1>0, <2>1
    <3>2. Above(c)[i] = holding[c]
      BY <1>0, <1>1, <1>2, <1>3, <2>1, <3>1
    <3> QED  BY <1>1, <3>1, <3>2 DEF Answered
  <2>2. CASE ~(i <= Held(c))
    <3>1. queue[c] # <<>>
      BY <1>0, <1>2, <1>3, <2>2
    <3>2. Len(queue[c]) = 1
      BY <3>1, Numbering
    <3>3. i = Held(c) + 1 /\ i - Held(c) = 1
      BY <1>0, <1>2, <1>3, <2>2, <3>2
    <3>4. Above(c)[i] = queue[c][1]
      BY <1>0, <1>2, <1>3, <2>2, <3>3
    <3>5. queue[c][1].n = Len(delivered[c]) + Held(c) + 1
      BY <3>1 DEF Answered
    <3> QED  BY <1>0, <3>3, <3>4, <3>5
  <2> QED  BY <2>1, <2>2
<1>5. Numbers(Above(c)) = [i \in 1..a |-> Above(c)[i].n]
  BY <1>3 DEF Numbers
<1>6. Numbers(Above(c)) \in Seq(Nat) /\ Len(Numbers(Above(c))) = a
  <2>1. \A i \in 1..a : Above(c)[i].n \in Nat
    BY <1>0, <1>4
  <2>2. Numbers(Above(c)) \in [1..a -> Nat]
    BY <1>5, <2>1
  <2>3. Numbers(Above(c)) \in Seq(Nat)
    BY <2>2, SeqDef
  <2> QED  BY <2>2, <2>3, LenProperties
<1>7. /\ delivered[c] \o Numbers(Above(c)) \in Seq(Nat)
      /\ Len(delivered[c] \o Numbers(Above(c))) = Len(delivered[c]) + a
      /\ \A i \in 1..Len(delivered[c]) + a :
           (delivered[c] \o Numbers(Above(c)))[i] =
             IF i <= Len(delivered[c]) THEN delivered[c][i]
             ELSE Numbers(Above(c))[i - Len(delivered[c])]
  <2>1. ASSUME NEW s \in Seq(Nat), NEW t \in Seq(Nat)
        PROVE  /\ s \o t \in Seq(Nat) /\ Len(s \o t) = Len(s) + Len(t)
               /\ \A i \in 1..Len(s) + Len(t) :
                    (s \o t)[i] = IF i <= Len(s) THEN s[i] ELSE t[i - Len(s)]
    BY ConcatProperties
  <2> QED  BY <1>0, <1>6, <2>1
<1>8. Len(delivered[c]) + a = Routed(c)
  <2>1. a = Held(c) + Len(queue[c])
    BY <1>2, <1>3
  <2>2. ASSUME NEW x \in Nat, NEW y \in Nat, NEW z \in Nat
        PROVE  x + (y + z) = x + y + z
    OBVIOUS
  <2>3. Len(delivered[c]) + (Held(c) + Len(queue[c])) = Len(delivered[c]) + Held(c) + Len(queue[c])
    <3>1. Len(delivered[c]) \in Nat /\ Len(queue[c]) \in Nat
      BY <1>0
    <3>2. Held(c) \in Nat
      <4>1. Held(c) \in {0, 1}
        BY <1>0
      <4> QED  BY <4>1
    <3> QED  BY <2>2, <3>1, <3>2
  <2> QED  BY <1>0, <2>1, <2>3
<1>9. ASSUME NEW i \in 1..Routed(c)
      PROVE  (delivered[c] \o Numbers(Above(c)))[i] = i
  <2>1. CASE i <= Len(delivered[c])
    <3>1. delivered[c][i] = i
      BY <1>0, <2>1 DEF Answered
    <3> QED  BY <1>7, <1>8, <2>1, <3>1
  <2>2. CASE ~(i <= Len(delivered[c]))
    <3>1. i - Len(delivered[c]) \in 1..a
      BY <1>0, <1>3, <1>8, <2>2
    <3>2. Numbers(Above(c))[i - Len(delivered[c])] = Len(delivered[c]) + (i - Len(delivered[c]))
      BY <1>4, <1>5, <3>1
    <3>3. Len(delivered[c]) + (i - Len(delivered[c])) = i
      BY <1>0
    <3> QED  BY <1>7, <1>8, <2>2, <3>2, <3>3
  <2> QED  BY <2>1, <2>2
<1>10. DEFINE s == delivered[c] \o Numbers(Above(c))
<1>11. s \in [1..Routed(c) -> Nat]
  BY <1>7, <1>8, LenProperties
<1>12. \A i \in 1..Routed(c) : s[i] = i
  BY <1>9
<1> HIDE DEF s
<1>13. s = [i \in 1..Routed(c) |-> i]
  BY <1>11, <1>12
<1> QED  BY <1>7, <1>8, <1>13 DEF s

\* A client's open channel gets everything it is sent, once and in order, however many
\* channels share the dispatcher.  A served channel gets its request first, and what
\* follows in order.
THEOREM NothingLostCorrect == Spec => []NothingLost
<1>1. IInv => NothingLost
  <2> SUFFICES ASSUME Types, Ordered PROVE NothingLost
    BY DEF IInv
  <2>1. ASSUME NEW c \in Chan, Serving, delivered[c] # <<>>
        PROVE  /\ delivered[c][1] = 1
               /\ \A i \in 1..Len(delivered[c]) - 1 : delivered[c][i] < delivered[c][i + 1]
    BY <2>1 DEF Ordered, Served, Rising
  <2>2. ASSUME NEW c \in Chan, ~Serving, phase[c] \in {"none", "open"}
        PROVE  LET routed == delivered[c] \o Numbers(Above(c))
                   coming == {i \in 1..Len(Unrouted) : Unrouted[i].chan = c}
               IN  /\ routed = [i \in 1..Len(routed) |-> i]
                   /\ {Unrouted[i].n : i \in coming} = (Len(routed) + 1)..sent[c]
                   /\ \A i, j \in coming : i < j => Unrouted[i].n < Unrouted[j].n
    <3> DEFINE routed == delivered[c] \o Numbers(Above(c))
               coming == {i \in 1..Len(Unrouted) : Unrouted[i].chan = c}
    <3>0. /\ Answered(c) /\ Unsorted(c) /\ Routed(c) \in Nat /\ sent[c] \in Nat
          /\ Blocked(c) \in {0, 1}
      BY <2>2, Counts DEF Ordered
    <3>1. Len(routed) = Routed(c) /\ routed = [i \in 1..Len(routed) |-> i]
      BY <2>2, <3>0, Counted
    <3> HIDE DEF routed
    <3>2. PICK d \in {0, 1} :
            /\ d = 1 <=> dispatcher # NoEvent
            /\ Len(Unrouted) = d + Len(socket) /\ Len(socket) \in Nat
            /\ \A i \in 1..Len(Unrouted) :
                 \/ i = 1 /\ d = 1 /\ Unrouted[i] = dispatcher
                 \/ i - d \in 1..Len(socket) /\ Unrouted[i] = socket[i - d]
            /\ d = 1 => Unrouted[1] = dispatcher
            /\ \A j \in 1..Len(socket) : Unrouted[j + d] = socket[j]
      BY Queued
    <3>3. ASSUME NEW i \in coming
          PROVE  Unrouted[i].n \in (Routed(c) + 1)..sent[c]
      <4>1. CASE i = 1 /\ d = 1 /\ Unrouted[i] = dispatcher
        <5>1. Blocked(c) = 1
          BY <3>2, <4>1 DEF Blocked
        <5>2. Unrouted[i].n = Routed(c) + 1 /\ Routed(c) + 1 <= sent[c]
          BY <2>2, <3>0, <4>1, <5>1 DEF Answered
        <5> QED  BY <3>0, <5>2
      <4>2. ASSUME NEW k \in 1..Len(socket), Unrouted[i] = socket[k]
            PROVE  Unrouted[i].n \in (Routed(c) + 1)..sent[c]
        <5>1. socket[k].chan = c /\ socket[k].n \in Nat
          BY <4>2, Numbered
        <5>2. socket[k].n > Routed(c) + Blocked(c) /\ socket[k].n <= sent[c]
          BY <2>2, <3>0, <5>1 DEF Answered, Unsorted
        <5> QED  BY <3>0, <4>2, <5>1, <5>2
      <4> QED  BY <3>2, <4>1, <4>2
    <3>4. ASSUME NEW n \in (Routed(c) + 1)..sent[c]
          PROVE  \E i \in coming : Unrouted[i].n = n
      <4>1. CASE Blocked(c) = 1 /\ n = Routed(c) + 1
        <5>1. d = 1 /\ dispatcher.chan = c
          BY <3>2, <4>1 DEF Blocked
        <5>2. Unrouted[1] = dispatcher /\ dispatcher.n = n /\ 1 \in 1..Len(Unrouted)
          BY <2>2, <3>0, <3>2, <4>1, <5>1 DEF Answered
        <5> QED  BY <5>1, <5>2
      <4>2. CASE ~(Blocked(c) = 1 /\ n = Routed(c) + 1)
        <5>1. n \in (Routed(c) + Blocked(c) + 1)..sent[c]
          BY <3>0, <4>2
        <5>2. PICK j \in 1..Len(socket) : socket[j].chan = c /\ socket[j].n = n
          BY <2>2, <3>0, <5>1 DEF Answered
        <5>3. j + d \in 1..Len(Unrouted) /\ Unrouted[j + d] = socket[j]
          BY <3>2
        <5> QED  BY <5>2, <5>3
      <4> QED  BY <4>1, <4>2
    <3>5. ASSUME NEW i \in coming, NEW j \in coming, i < j
          PROVE  Unrouted[i].n < Unrouted[j].n
      <4>1. j # 1 /\ i \in 1..Len(Unrouted) /\ j \in 1..Len(Unrouted)
        BY <3>2, <3>5
      <4>2. j - d \in 1..Len(socket) /\ Unrouted[j] = socket[j - d] /\ socket[j - d].chan = c
        BY <3>2, <4>1
      <4>3. CASE i = 1 /\ d = 1 /\ Unrouted[i] = dispatcher
        <5>1. dispatcher # NoEvent /\ dispatcher.chan = c
          BY <3>2, <4>3
        <5> QED  BY <3>0, <4>2, <4>3, <5>1 DEF Unsorted
      <4>4. CASE i - d \in 1..Len(socket) /\ Unrouted[i] = socket[i - d]
        <5>1. i - d < j - d
          BY <3>5, <4>1
        <5>2. socket[i - d].chan = c
          BY <4>4
        <5> QED  BY <3>0, <4>2, <4>4, <5>1, <5>2 DEF Unsorted
      <4> QED  BY <3>2, <4>1, <4>3, <4>4
    <3>6. {Unrouted[i].n : i \in coming} = (Routed(c) + 1)..sent[c]
      BY <3>3, <3>4
    <3> QED  BY <3>1, <3>5, <3>6 DEF routed
  <2> QED  BY <2>1, <2>2 DEF NothingLost
<1> QED  BY <1>1, Invariance, PTL

===============================================================================
