------------------------------- MODULE Events -------------------------------
(***************************************************************************)
(* What an event carries and where it goes (zerorpc/events.py, the headers *)
(* made in channel.py, and the task context of context.py and core.py).    *)
(*                                                                         *)
(* Greenlets call a server through the DEALER sockets of clients, maybe    *)
(* behind a broker; the tasks that serve them may call in turn.  A puller  *)
(* executes pushed events, all in one greenlet.  An event is addressed by  *)
(* the frames before it, its channel is named by response_to, and the      *)
(* context of the task that made it, here a trace, is in its header.  The  *)
(* middleware is the one of the tests: it keeps the trace in a greenlet-   *)
(* local variable and starts a new trace for a greenlet that has none.     *)
(*                                                                         *)
(* One context of MsgId stands for those of all processes, whose bases are *)
(* distinct.  That ids come to an end bounds the model.                    *)
(***************************************************************************)
EXTENDS MsgId, FiniteSets, Sequences, SequencesExt

CONSTANTS
  Greenlet,  \* the greenlets there may be
  Puller,    \* the one that runs Puller._receiver
  Client,    \* the DEALER sockets
  Route,     \* Route[c]: the identities ROUTERs put before what client c sends
  MaxNet,    \* bound: how many events are under way at most
  Nothing    \* no trace, no id, no channel

ASSUME EventsAssumption ==
  /\ Puller \in Greenlet /\ MaxNet \in Nat /\ {"server", "puller"} \cap Client = {}
  /\ \A c \in Client : /\ Route[c] \in Seq(Range(Route[c])) /\ Len(Route[c]) > 0
                       /\ \A d \in Client \ {c} : Route[c] # Route[d]

\* The channel of a call at its client, and at the server, where about is the call
\* it truly belongs to.
ClientChannel == [client : Client, id : Counter \X Base]
ServerChannel == [id : Counter \X Base, identity : {Route[c] : c \in Client},
                  about : Counter \X Base]

ASSUME NothingAssumption ==
  /\ Nothing \notin Greenlet /\ Nothing \notin Counter \X Base
  /\ Nothing \notin ClientChannel /\ Nothing \notin ServerChannel

VARIABLES
  state,     \* state[g]: unborn, ready, waiting for an answer, or done
  local,     \* local[g]: the trace in its greenlet-local storage
  serves,    \* serves[g]: the channel of a server's task: its id and its identity
  calling,   \* calling[g]: the channel of the call it waits for
  net,       \* the events under way, in no order
  cause,     \* history: the greenlet whose work g carries on
  misled     \* history: an event missed its end of the call, or reached another

greenlets == <<state, local, serves, calling, cause>>
eventsVars == <<vars, greenlets, net, misled>>

Empty == "empty"  \* the empty frame

\* Events.emit_event: the frames before the packed event.
Frames(identity, type) ==
  IF identity # <<>> THEN Append(identity, Empty)
  ELSE IF type \in {"DEALER", "ROUTER"} THEN <<Empty>> ELSE <<>>
\* Mutated form: only the nearest hop of the way back is kept.
IdentityHead(frames) == IF Len(frames) > 1 THEN <<Head(frames)>> ELSE frames
\* Events.recv: what is kept of the frames before the packed event.
Identity(frames) == IF Len(frames) > 1 THEN Front(frames) ELSE frames

\* ZeroMQ: what a ROUTER sends follows its leading frames back, if they lead anywhere.
WayBack(frames) ==
  IF \E c \in Client : Front(frames) = Route[c]
  THEN CHOOSE c \in Client : Front(frames) = Route[c] ELSE Nothing

\* The context hooks.  A greenlet without a trace starts one, named after it.
Trace(g) == IF local[g] = Nothing THEN g ELSE local[g]

\* An event on its way: the trace and the work it should belong to, the channel
\* it answers, and the channel it is truly about.
Emit(to, frames, id, responseTo, trace, from, about) ==
  /\ Cardinality(net) < MaxNet
  /\ net' = net \cup {[to |-> to, frames |-> frames, id |-> id, responseTo |-> responseTo,
                       trace |-> trace, cause |-> from, about |-> about]}

NewId == <<counter', base'>>

\* The type invariant: what is under way has an id that was given out, and what is
\* on its way to a client answers such an id.
EventsTypeOK ==
  /\ TypeOK
  /\ state   \in [Greenlet -> {"unborn", "idle", "ready", "waiting", "done"}]
  /\ local   \in [Greenlet -> Greenlet \cup {Nothing}]
  /\ cause   \in [Greenlet -> Greenlet]
  /\ misled  \in BOOLEAN
  /\ \A g \in Greenlet : /\ calling[g] # Nothing <=> state[g] = "waiting"
                        /\ serves[g] # Nothing => state[g] \in {"ready", "waiting"}
  /\ \A m \in net : m.id \in ids /\ (m.to \in Client => m.responseTo \in ids)

EventsInit ==
  /\ Init
  /\ state = [g \in Greenlet |-> IF g = Puller THEN "idle" ELSE "unborn"]
  /\ local = [g \in Greenlet |-> Nothing]
  /\ serves = [g \in Greenlet |-> Nothing] /\ calling = serves
  /\ cause = [g \in Greenlet |-> g]
  /\ net = {} /\ misled = FALSE

-----------------------------------------------------------------------------
(***************************************************************************)
(* Greenlets.                                                              *)
(***************************************************************************)
\* A new greenlet runs, with nothing in its local storage but what is loaded.
Born(g, trace, channel, from) ==
  /\ state[g] = "unborn"
  /\ state' = [state EXCEPT ![g] = "ready"]
  /\ local' = [local EXCEPT ![g] = trace]
  /\ serves' = [serves EXCEPT ![g] = channel]
  /\ cause' = [cause EXCEPT ![g] = from]

\* A greenlet of the application, or one a task spawned as it is: a fresh context.
Spawn(g) ==
  /\ Born(g, Nothing, Nothing, g)
  /\ UNCHANGED <<vars, calling, net, misled>>

\* Mutated form: the context is fetched by the new greenlet.
ForkLate(g, child) ==
  /\ state[g] = "ready" /\ g # child
  /\ Born(child, Nothing, Nothing, cause[g])
  /\ UNCHANGED <<vars, calling, net, misled>>
\* A greenlet spawned with fork_task_context: it loads what its parent had when
\* the functor was wrapped; asking for it starts a trace in the parent.
Fork(g, child) ==
  /\ state[g] = "ready" /\ state[child] = "unborn"
  /\ state' = [state EXCEPT ![child] = "ready"]
  /\ local' = [local EXCEPT ![g] = Trace(g), ![child] = Trace(g)]
  /\ cause' = [cause EXCEPT ![child] = cause[g]]
  /\ UNCHANGED <<vars, serves, calling, net, misled>>

\* A call through client c: the id of the request names the channel.
Call(g, c) ==
  /\ state[g] = "ready" /\ NewMsgid
  /\ state' = [state EXCEPT ![g] = "waiting"]
  /\ local' = [local EXCEPT ![g] = Trace(g)]
  /\ calling' = [calling EXCEPT ![g] = [client |-> c, id |-> NewId]]
  /\ Emit("server", Route[c] \o Frames(<<>>, "DEALER"), NewId, Nothing, Trace(g),
          cause[g], NewId)
  /\ UNCHANGED <<serves, cause, misled>>

\* A later event of the caller on its channel, as _zpc_more: it has no context.
Ask(g) ==
  /\ state[g] = "waiting" /\ NewMsgid
  /\ Emit("server", Route[calling[g].client] \o Frames(<<>>, "DEALER"), NewId,
          calling[g].id, Nothing, cause[g], calling[g].id)
  /\ UNCHANGED <<greenlets, misled>>

\* The call timed out: its channel is gone.
GiveUp(g) ==
  /\ state[g] = "waiting"
  /\ state' = [state EXCEPT ![g] = "ready"]
  /\ calling' = [calling EXCEPT ![g] = Nothing]
  /\ UNCHANGED <<vars, local, serves, cause, net, misled>>

\* The task answers on the channel of its request, with its last answer or one of a
\* stream.
Answer(g) ==
  /\ state[g] = "ready" /\ serves[g] # Nothing /\ NewMsgid
  /\ Emit(WayBack(Frames(serves[g].identity, "ROUTER")), <<Empty>>, NewId, serves[g].id,
          Trace(g), cause[g], serves[g].about)
  /\ local' = [local EXCEPT ![g] = Trace(g)]
  /\ \/ UNCHANGED <<state, serves>>
     \/ /\ state' = [state EXCEPT ![g] = "done"]
        /\ serves' = [serves EXCEPT ![g] = Nothing]
  /\ UNCHANGED <<calling, cause, misled>>

\* Pusher.__call__.
Push(g) ==
  /\ state[g] = "ready" /\ NewMsgid
  /\ local' = [local EXCEPT ![g] = Trace(g)]
  /\ Emit("puller", Frames(<<>>, "PUSH"), NewId, Nothing, Trace(g), cause[g], NewId)
  /\ UNCHANGED <<state, serves, calling, cause, misled>>

-----------------------------------------------------------------------------
(***************************************************************************)
(* An event arrives.                                                       *)
(***************************************************************************)
\* An event without response_to opens a channel, and the task that serves it loads
\* its context.
Serve(m, g) ==
  /\ m.to = "server" /\ m.responseTo = Nothing
  /\ Born(g, m.trace, [id |-> m.id, identity |-> Identity(m.frames), about |-> m.about],
          m.cause)
  /\ net' = net \ {m}
  /\ UNCHANGED <<vars, calling, misled>>

\* The dispatcher looks the channel up by response_to; and whose it truly is.
Addressees(m) ==
  IF m.to = "server"
  THEN {g \in Greenlet : serves[g] # Nothing /\ serves[g].id = m.responseTo}
  ELSE {g \in Greenlet : calling[g] = [client |-> m.to, id |-> m.responseTo]}
Owners(m) ==
  IF m.to = "server"
  THEN {g \in Greenlet : serves[g] # Nothing /\ serves[g].about = m.about}
  ELSE {g \in Greenlet : calling[g] # Nothing /\ calling[g].id = m.about}

\* An event with response_to reaches its channel, or is dropped; one of a client
\* may end the call that waits for it.
Dispatch(m) ==
  /\ m.responseTo # Nothing
  /\ misled' = (misled \/ Addressees(m) # Owners(m))
  /\ \/ UNCHANGED <<state, calling>>
     \/ /\ m.to \in Client
        /\ state' = [g \in Greenlet |-> IF g \in Addressees(m) THEN "ready" ELSE state[g]]
        /\ calling' = [g \in Greenlet |-> IF g \in Addressees(m) THEN Nothing ELSE calling[g]]
  /\ net' = net \ {m}
  /\ UNCHANGED <<vars, local, serves, cause>>

\* The puller takes an event once the method of the last one has returned.
Pull(m) ==
  /\ m.to = "puller" /\ state[Puller] = "idle"
  /\ state' = [state EXCEPT ![Puller] = "ready"]
  /\ local' = [local EXCEPT ![Puller] = m.trace]
  /\ cause' = [cause EXCEPT ![Puller] = m.cause]
  /\ net' = net \ {m}
  /\ UNCHANGED <<vars, serves, calling, misled>>

Pulled ==
  /\ state[Puller] = "ready"
  /\ state' = [state EXCEPT ![Puller] = "idle"]
  /\ UNCHANGED <<vars, local, serves, calling, cause, net, misled>>

EventsNext ==
  \/ \E g \in Greenlet :
       \/ Spawn(g) \/ Ask(g) \/ GiveUp(g) \/ Answer(g) \/ Push(g)
       \/ \E c \in Client : Call(g, c)
       \/ \E child \in Greenlet : Fork(g, child)
  \/ \E m \in net : Dispatch(m) \/ Pull(m) \/ \E g \in Greenlet : Serve(m, g)
  \/ Pulled

EventsSpec == EventsInit /\ [][EventsNext]_eventsVars

-----------------------------------------------------------------------------
\* An event reaches the other end of its own call, through whatever brokers, if
\* that end still has its channel; and it never reaches another call, late though
\* it be.
RepliesReachTheirCall == ~misled

\* A trace goes with the work: an event of a task carries the trace of the greenlet
\* whose work the task carries on, through calls, pushes and forks, and never that
\* of an event the same greenlet executed before.
TraceFollows ==
  \A m \in net : m.trace = m.cause \/ (m.to = "server" /\ m.responseTo # Nothing)
=============================================================================
