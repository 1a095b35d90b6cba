----------------------------- MODULE Multiplexer -----------------------------
(***************************************************************************)
(* One ChannelMultiplexer with its channels (zerorpc/channel.py), on the   *)
(* client's side or, with the acceptor and the task pool of ServerBase     *)
(* (zerorpc/core.py), on the server's.                                     *)
(*                                                                         *)
(* A single greenlet, the dispatcher, takes every event off the socket and *)
(* puts it in the queue of the channel it answers to, or in the broadcast  *)
(* queue when it answers to none.  Each of these queues holds one event,   *)
(* so the dispatcher waits for whoever reads the queue it is putting in.   *)
(* Above a Channel, the receiving greenlet of HeartBeatOnChannel holds one *)
(* event until the one of BufferedChannel takes it.                        *)
(***************************************************************************)
EXTENDS Naturals, Sequences, SequencesExt, FiniteSets

CONSTANTS
  Chan,      \* the channels, named by the message_id of their first event
  Roles,     \* what the multiplexer may be: a "server"'s, or a "client"'s,
             \* which is created with ignore_broadcast
  PoolSize,  \* the pool_size of the server
  MaxSent,   \* bound: MaxSent[r][c] events are sent on channel c to role r
  Needed,    \* Needed[c]: how many events the task of c reads before it ends
  Closers    \* the channels the client's application may close

ASSUME MultiplexerAssumption ==
  /\ IsFiniteSet(Chan) /\ Roles \subseteq {"client", "server"} /\ PoolSize \in Nat \ {0}
  /\ MaxSent \in [Roles -> [Chan -> Nat]] /\ Needed \in [Chan -> Nat] /\ Closers \subseteq Chan

VARIABLES
  role,        \* whose multiplexer it is, from the start to the end
  socket,      \* the events that arrived and were not received yet
  dispatcher,  \* the event the dispatcher is blocked on putting, else NoEvent
  broadcast,   \* _broadcast_queue
  acceptor,    \* the event the acceptor is blocked on spawning a task for
  phase,       \* where the life of each channel stands
  queue,       \* Channel._queue
  holding,     \* the event HeartBeatOnChannel._recver is blocked on putting
  delivered,   \* history: the events that reached BufferedChannel, by number
  sent         \* history: how many events the remote sent

vars == <<role, socket, dispatcher, broadcast, acceptor, phase, queue, holding,
          delivered, sent>>

QueueSize == 1
NoEvent == [chan |-> "none", n |-> 0]
Event == [chan : Chan, n : Nat]

\* A channel is closed by three greenlet switches: BufferedChannel's receiving
\* greenlet is killed, then HeartBeatOnChannel's, then it is unregistered.
Phase == {"none", "spawned", "open", "bufKilled", "hbKilled", "closed"}

\* The type invariant: a queue never holds more than its maxsize.
TypeOK ==
  /\ role       \in Roles
  /\ socket     \in Seq(Event)
  /\ dispatcher \in Event \cup {NoEvent}
  /\ broadcast  \in Seq(Event) /\ Len(broadcast) <= QueueSize
  /\ acceptor   \in Event \cup {NoEvent}
  /\ phase      \in [Chan -> Phase]
  /\ queue      \in [Chan -> Seq(Event)] /\ \A c \in Chan : Len(queue[c]) <= QueueSize
  /\ holding    \in [Chan -> Event \cup {NoEvent}]
  /\ delivered  \in [Chan -> Seq(Nat)]
  /\ sent       \in [Chan -> Nat]

Init ==
  /\ role \in Roles
  /\ socket = <<>> /\ dispatcher = NoEvent /\ broadcast = <<>> /\ acceptor = NoEvent
  /\ phase     = [c \in Chan |-> "none"]
  /\ queue     = [c \in Chan |-> <<>>]
  /\ holding   = [c \in Chan |-> NoEvent]
  /\ delivered = [c \in Chan |-> <<>>]
  /\ sent      = [c \in Chan |-> 0]

-----------------------------------------------------------------------------
(***************************************************************************)
(* The dispatcher.                                                         *)
(***************************************************************************)
\* The first event of a served channel is the request that opens it; it answers
\* to no channel.
Serving == role = "server"
IsRequest(event) == Serving /\ event.n = 1
Registered(c) == phase[c] \in {"open", "bufKilled", "hbKilled"}

\* The remote sends the next event of a channel: the request, then whatever it
\* answers; to a client only once its channel is open.
Arrive(c) ==
  /\ sent[c] < MaxSent[role][c]
  /\ Serving \/ phase[c] # "none"
  /\ sent' = [sent EXCEPT ![c] = @ + 1]
  /\ socket' = Append(socket, [chan |-> c, n |-> sent'[c]])
  /\ UNCHANGED <<role, dispatcher, broadcast, acceptor, phase, queue, holding, delivered>>

\* Mutated form: a full queue swallows the event.
PutLossy(event) ==
  /\ broadcast' = IF IsRequest(event) /\ broadcast = <<>> THEN <<event>> ELSE broadcast
  /\ queue' = [queue EXCEPT ![event.chan] =
                 IF ~IsRequest(event) /\ @ = <<>> THEN <<event>> ELSE @]
  /\ dispatcher' = NoEvent
\* Mutated form: the queues are not bounded.
PutUnbounded(event) ==
  /\ broadcast' = IF IsRequest(event) THEN Append(broadcast, event) ELSE broadcast
  /\ queue' = [queue EXCEPT ![event.chan] =
                 IF IsRequest(event) THEN @ ELSE Append(@, event)]
  /\ dispatcher' = NoEvent
\* queue.put(event): the dispatcher is blocked while the queue is full.
Put(event) ==
  \/ /\ IsRequest(event) /\ Len(broadcast) < QueueSize
     /\ broadcast' = Append(broadcast, event)
     /\ dispatcher' = NoEvent /\ UNCHANGED queue
  \/ /\ ~IsRequest(event) /\ Len(queue[event.chan]) < QueueSize
     /\ queue' = [queue EXCEPT ![event.chan] = Append(@, event)]
     /\ dispatcher' = NoEvent /\ UNCHANGED broadcast
  \/ /\ Len(IF IsRequest(event) THEN broadcast ELSE queue[event.chan]) = QueueSize
     /\ dispatcher' = event /\ UNCHANGED <<broadcast, queue>>

\* An event is received and routed; for a channel that is not registered, it is
\* dropped.
Dispatch ==
  /\ dispatcher = NoEvent /\ socket # <<>>
  /\ socket' = Tail(socket)
  /\ LET event == Head(socket) IN
       IF IsRequest(event) \/ Registered(event.chan)
       THEN Put(event) ELSE UNCHANGED <<dispatcher, broadcast, queue>>
  /\ UNCHANGED <<role, acceptor, phase, holding, delivered, sent>>

\* The queue the dispatcher was blocked on has room.  It keeps the queue it
\* looked up, even when the channel was unregistered since.
Unblock ==
  /\ dispatcher # NoEvent
  /\ Put(dispatcher) /\ dispatcher' = NoEvent
  /\ UNCHANGED <<role, socket, acceptor, phase, holding, delivered, sent>>

-----------------------------------------------------------------------------
(***************************************************************************)
(* How a channel is opened: by the acceptor of a server, or by a client.   *)
(***************************************************************************)
Accept ==
  /\ acceptor = NoEvent /\ broadcast # <<>>
  /\ acceptor' = Head(broadcast)
  /\ broadcast' = Tail(broadcast)
  /\ UNCHANGED <<role, socket, dispatcher, phase, queue, holding, delivered, sent>>

\* Mutated form: a task that ended keeps its place in the pool.
RunningForever == {c \in Chan : phase[c] # "none"}
Running == {c \in Chan : phase[c] \notin {"none", "closed"}}

\* The acceptor waits for room in the pool.
SpawnTask ==
  /\ acceptor # NoEvent /\ Cardinality(Running) < PoolSize
  /\ phase' = [phase EXCEPT ![acceptor.chan] = "spawned"]
  /\ acceptor' = NoEvent
  /\ UNCHANGED <<role, socket, dispatcher, broadcast, queue, holding, delivered, sent>>

\* Mutated form: the request is not put in the queue of its own channel.
StartTaskEmpty(c) ==
  /\ phase[c] = "spawned"
  /\ phase' = [phase EXCEPT ![c] = "open"]
  /\ UNCHANGED <<role, socket, dispatcher, broadcast, acceptor, queue, holding, delivered, sent>>
\* _async_task registers the channel and puts the request in its queue.
StartTask(c) ==
  /\ phase[c] = "spawned"
  /\ phase' = [phase EXCEPT ![c] = "open"]
  /\ queue' = [queue EXCEPT ![c] = <<[chan |-> c, n |-> 1]>>]
  /\ UNCHANGED <<role, socket, dispatcher, broadcast, acceptor, holding, delivered, sent>>

\* A client's first new_event registers the channel.
OpenChannel(c) ==
  /\ ~Serving /\ phase[c] = "none"
  /\ phase' = [phase EXCEPT ![c] = "open"]
  /\ UNCHANGED <<role, socket, dispatcher, broadcast, acceptor, queue, holding, delivered, sent>>

-----------------------------------------------------------------------------
(***************************************************************************)
(* The greenlets above a channel, and how it is closed.                    *)
(***************************************************************************)
HbRecv(c) ==
  /\ phase[c] \in {"open", "bufKilled"} /\ holding[c] = NoEvent /\ queue[c] # <<>>
  /\ holding' = [holding EXCEPT ![c] = Head(queue[c])]
  /\ queue' = [queue EXCEPT ![c] = Tail(@)]
  /\ UNCHANGED <<role, socket, dispatcher, broadcast, acceptor, phase, delivered, sent>>

BufRecv(c) ==
  /\ phase[c] = "open" /\ holding[c] # NoEvent
  /\ delivered' = [delivered EXCEPT ![c] = Append(@, holding[c].n)]
  /\ holding' = [holding EXCEPT ![c] = NoEvent]
  /\ UNCHANGED <<role, socket, dispatcher, broadcast, acceptor, phase, queue, sent>>

CloseStep(c, from, to) ==
  /\ phase[c] = from
  /\ phase' = [phase EXCEPT ![c] = to]
  /\ UNCHANGED <<role, socket, dispatcher, broadcast, acceptor, queue, delivered, sent>>

\* A client's application may close any time.  A server's task ends once it read the
\* events it needs (a streaming task needs the requests for more), or by LostRemote:
\* while the dispatcher is blocked no client is heard.
Close(c) ==
  /\ IF Serving THEN Len(delivered[c]) >= Needed[c] \/ dispatcher # NoEvent
                ELSE c \in Closers
  /\ CloseStep(c, "open", "bufKilled")
  /\ UNCHANGED holding

\* The event that _recver of HeartBeatOnChannel held is dropped with it.
HbKilled(c) ==
  /\ CloseStep(c, "bufKilled", "hbKilled")
  /\ holding' = [holding EXCEPT ![c] = NoEvent]

Unregister(c) == CloseStep(c, "hbKilled", "closed") /\ UNCHANGED holding

-----------------------------------------------------------------------------
Next ==
  \/ Dispatch \/ Unblock \/ Accept \/ SpawnTask
  \/ \E c \in Chan :
       \/ Arrive(c) \/ StartTask(c) \/ OpenChannel(c) \/ HbRecv(c) \/ BufRecv(c)
       \/ Close(c) \/ HbKilled(c) \/ Unregister(c)

Spec == Init /\ [][Next]_vars

\* Every greenlet runs when it can, a server's task ends once it has read what it
\* needs, and a heartbeat that is not heard ends it too.  Nothing obliges a remote to
\* send or a client to close.
Fairness ==
  /\ WF_vars(Dispatch) /\ WF_vars(Unblock) /\ WF_vars(Accept) /\ WF_vars(SpawnTask)
  /\ \A c \in Chan :
       /\ WF_vars(StartTask(c)) /\ WF_vars(HbRecv(c)) /\ WF_vars(BufRecv(c))
       /\ WF_vars(Serving /\ Close(c)) /\ WF_vars(HbKilled(c)) /\ WF_vars(Unregister(c))

LiveSpec == Spec /\ Fairness

-----------------------------------------------------------------------------
Numbers(events) == [i \in 1..Len(events) |-> events[i].n]
One(event) == IF event = NoEvent THEN <<>> ELSE <<event>>

\* The events of channel c that the greenlets above it have still to take, and those
\* of all channels that are not routed yet, the oldest first.
Above(c) == One(holding[c]) \o queue[c]
Unrouted == One(dispatcher) \o socket

\* What a client's open channel was sent is delivered or on its way, each event
\* once and in the order it was sent, however the channels interleave.  A served
\* channel gets its request first and then a part of what follows, in order: events
\* that came before the task was started are dropped.
NothingLost ==
  \A c \in Chan :
    /\ ~Serving /\ phase[c] \in {"none", "open"} =>
         LET routed == delivered[c] \o Numbers(Above(c))
             coming == {i \in 1..Len(Unrouted) : Unrouted[i].chan = c}
         IN  /\ routed = [i \in 1..Len(routed) |-> i]
             /\ {Unrouted[i].n : i \in coming} = (Len(routed) + 1)..sent[c]
             /\ \A i, j \in coming : i < j => Unrouted[i].n < Unrouted[j].n
    /\ Serving /\ delivered[c] # <<>> =>
         /\ delivered[c][1] = 1
         /\ \A i \in 1..Len(delivered[c]) - 1 : delivered[c][i] < delivered[c][i + 1]

\* A task waits for an event that its client has not sent, or that came before the
\* task had started.
Awaits(c) ==
  /\ phase[c] = "open" /\ Len(delivered[c]) < Needed[c] /\ Above(c) = <<>>
  /\ \A i \in 1..Len(Unrouted) : Unrouted[i].chan # c

\* The dispatcher waits for room in the queue of a channel that nobody reads any more.
Wedged ==
  /\ dispatcher # NoEvent /\ ~IsRequest(dispatcher)
  /\ phase[dispatcher.chan] = "closed" /\ queue[dispatcher.chan] # <<>>

\* Every request is served, however small the pool, though its tasks wait for events
\* that are behind requests the acceptor cannot take: the heartbeats that are not
\* heard meanwhile end them.  But not if a task waits for its own client for ever,
\* nor once the dispatcher is wedged by a task that ended under it.
RequestsServed ==
  \A c \in Chan :
    Serving /\ sent[c] > 0 ~>
      phase[c] = "closed" \/ Wedged \/ [](\E d \in Chan : Awaits(d))

\* An event for an open channel is delivered, unless that channel closes: the
\* channels are concurrent, so none can hold up another.
EventsDelivered ==
  \A r \in Roles, c \in Chan : \A n \in 1..MaxSent[r][c] :
    phase[c] = "open" /\ (\E i \in 1..Len(socket) : socket[i] = [chan |-> c, n |-> n])
      ~> n \in Range(delivered[c]) \/ phase[c] # "open"
=============================================================================
