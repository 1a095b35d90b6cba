------------------------------- MODULE Service -------------------------------
(***************************************************************************)
(* The life of a Server or of a Puller (zerorpc/core.py, classes           *)
(* ServerBase and Puller): run, stop and close, while requests arrive and  *)
(* tasks are under way.                                                    *)
(*                                                                         *)
(* run() starts a greenlet, the loop, and waits for it.  The loop of a     *)
(* Server takes requests from the broadcast queue and spawns a task for    *)
(* each in a pool; the loop of a Puller takes events off the socket and    *)
(* executes them itself.  stop() kills the loop; the run() of a Server     *)
(* then waits for the tasks of the pool.  close() stops, kills the         *)
(* dispatcher of the multiplexer, then the greenlets of the socket.        *)
(***************************************************************************)
EXTENDS Naturals, Sequences, FiniteSets

CONSTANTS
  Kinds,        \* what is run: a "server" or a "puller"
  MaxRequests,  \* bound: how many requests arrive
  PoolSize,     \* the pool_size of a server
  MaxRuns,      \* bound: how often run() is called
  Hasty         \* the kinds whose run() may be interrupted by an exception

ASSUME ServiceAssumption ==
  /\ Kinds \subseteq {"server", "puller"} /\ Hasty \subseteq Kinds
  /\ MaxRequests \in Nat /\ PoolSize \in Nat \ {0} /\ MaxRuns \in Nat

\* The requests, numbered in the order in which they arrive.
Request == 1..MaxRequests

VARIABLES
  kind,        \* what is run
  runner,      \* where the greenlet that calls run() is
  stopper,     \* where the greenlet that calls stop() or close() is
  handle,      \* whether _acceptor_task or _receiver_task is set
  kill,        \* whether a kill of the loop is scheduled
  loop,        \* the greenlet of the loop: _acceptor or _receiver
  held,        \* the request it has taken, else 0
  inbound,     \* the events that arrived on the socket, oldest first
  dispatcher,  \* the request the dispatcher is blocked on putting, else 0
  broadcast,   \* _broadcast_queue
  socket,      \* how far close() has come
  task,        \* where the execution of each request stands
  arrived,     \* history: how many requests arrived
  runs,        \* history: calls of run()
  stops,       \* history: loops that were killed
  dropped      \* history: the requests that were taken and then forgotten

lifeVars  == <<runner, stopper, handle, kill, socket, runs>>
queueVars == <<inbound, dispatcher, broadcast, arrived>>
vars == <<kind, lifeVars, queueVars, loop, held, task, stops, dropped>>

Event == [name : {"request", "more"}, of : Request]

\* The type invariant: the broadcast queue holds one request.
TypeOK ==
  /\ kind       \in Kinds
  /\ runner     \in {"idle", "waiting", "interrupted", "joining"}
  /\ stopper    \in {"idle", "stopping", "closing"}
  /\ handle     \in BOOLEAN
  /\ kill       \in BOOLEAN
  /\ loop       \in {"none", "receiving", "holding", "dead"}
  /\ held       \in Request \cup {0}
  /\ inbound    \in Seq(Event)
  /\ dispatcher \in Request \cup {0}
  /\ broadcast  \in Seq(Request) /\ Len(broadcast) <= 1
  /\ socket     \in {"open", "undispatched", "closed"}
  /\ task       \in [Request -> {"none", "running", "starved", "emitting", "over"}]
  /\ arrived    \in Request \cup {0}
  /\ runs       \in 0..MaxRuns
  /\ stops      \in 0..MaxRuns
  /\ dropped    \subseteq Request

Init ==
  /\ kind \in Kinds
  /\ runner = "idle" /\ stopper = "idle" /\ handle = FALSE /\ kill = FALSE
  /\ loop = "none" /\ held = 0
  /\ inbound = <<>> /\ dispatcher = 0 /\ broadcast = <<>>
  /\ socket = "open"
  /\ task = [r \in Request |-> "none"]
  /\ arrived = 0 /\ runs = 0 /\ stops = 0 /\ dropped = {}

Active == {r \in Request : task[r] \in {"running", "starved", "emitting"}}
Looping == loop \in {"receiving", "holding"}
SetTask(r, state) == task' = [task EXCEPT ![r] = state]

-----------------------------------------------------------------------------
(***************************************************************************)
(* What arrives, and the dispatcher of a server.                           *)
(***************************************************************************)
Arrive ==
  /\ arrived + 1 \in Request /\ socket # "closed"
  /\ arrived' = arrived + 1
  /\ inbound' = Append(inbound, [name |-> "request", of |-> arrived'])
  /\ UNCHANGED <<kind, lifeVars, dispatcher, broadcast, loop, held, task, stops, dropped>>

\* The client of a streaming task grants it more credit.
Grant(r) ==
  /\ task[r] = "starved" /\ socket # "closed"
  /\ \A i \in 1..Len(inbound) : inbound[i] # [name |-> "more", of |-> r]
  /\ inbound' = Append(inbound, [name |-> "more", of |-> r])
  /\ UNCHANGED <<kind, lifeVars, dispatcher, broadcast, arrived, loop, held, task,
                 stops, dropped>>

\* Mutated form: the broadcast queue has no bound.
PutUnbounded(r) == broadcast' = Append(broadcast, r) /\ UNCHANGED dispatcher
\* The dispatcher puts a request in the broadcast queue, or is blocked.
Put(r) ==
  \/ broadcast = <<>> /\ broadcast' = <<r>> /\ UNCHANGED dispatcher
  \/ broadcast # <<>> /\ dispatcher' = r /\ UNCHANGED broadcast

\* An event is routed: a request to the broadcast queue, in which the dispatcher
\* waits for room, the credit of a task to its channel.
Dispatch ==
  /\ kind = "server" /\ socket = "open" /\ dispatcher = 0 /\ inbound # <<>>
  /\ inbound' = Tail(inbound)
  /\ LET r == Head(inbound).of IN
       \/ Head(inbound).name = "request" /\ Put(r) /\ UNCHANGED task
       \/ /\ Head(inbound).name = "more"
          /\ SetTask(r, IF task[r] = "starved" THEN "emitting" ELSE task[r])
          /\ UNCHANGED <<dispatcher, broadcast>>
  /\ UNCHANGED <<kind, lifeVars, arrived, loop, held, stops, dropped>>

Unblock ==
  /\ socket = "open" /\ dispatcher # 0 /\ broadcast = <<>>
  /\ broadcast' = <<dispatcher>> /\ dispatcher' = 0
  /\ UNCHANGED <<kind, lifeVars, inbound, arrived, loop, held, task, stops, dropped>>

-----------------------------------------------------------------------------
(***************************************************************************)
(* The loop, and the tasks of a server.                                    *)
(***************************************************************************)
Hold(r) == loop' = "holding" /\ held' = r
LetGo == loop' = "receiving" /\ held' = 0

\* The loop takes the next request.
Receive ==
  /\ loop = "receiving"
  /\ \/ /\ kind = "server" /\ broadcast # <<>>
        /\ Hold(Head(broadcast)) /\ broadcast' = <<>> /\ UNCHANGED inbound
     \/ /\ kind = "puller" /\ inbound # <<>> /\ socket # "closed"
        /\ Hold(Head(inbound).of) /\ inbound' = Tail(inbound) /\ UNCHANGED broadcast
  /\ UNCHANGED <<kind, lifeVars, dispatcher, arrived, task, stops, dropped>>

\* Mutated form: a request for which the pool has no room is refused.
SpawnRefuses ==
  /\ kind = "server" /\ loop = "holding" /\ LetGo
  /\ task' = IF Cardinality(Active) < PoolSize THEN [task EXCEPT ![held] = "running"]
                                               ELSE task
  /\ UNCHANGED <<kind, lifeVars, queueVars, stops, dropped>>
\* The acceptor waits for room in the pool.
Spawn ==
  /\ kind = "server" /\ loop = "holding" /\ Cardinality(Active) < PoolSize
  /\ SetTask(held, "running") /\ LetGo
  /\ UNCHANGED <<kind, lifeVars, queueVars, stops, dropped>>

\* Mutated form: an exception of the method ends the receiver.
ExecuteRaises ==
  /\ kind = "puller" /\ loop = "holding"
  /\ SetTask(held, "over") /\ loop' = "dead" /\ held' = 0
  /\ UNCHANGED <<kind, lifeVars, queueVars, stops, dropped>>
\* The receiver of a puller executes an event: its method is unknown, raises or
\* returns, and the receiver goes on.
Execute ==
  /\ kind = "puller" /\ loop = "holding"
  /\ SetTask(held, "over") /\ LetGo
  /\ UNCHANGED <<kind, lifeVars, queueVars, stops, dropped>>

\* A method ends, or its stream has used up its credit.
Proceed(r) ==
  /\ task[r] = "running"
  /\ SetTask(r, "emitting") \/ SetTask(r, "starved")
  /\ UNCHANGED <<kind, lifeVars, queueVars, loop, held, stops, dropped>>

\* The greenlet that sends takes the answer; once it was killed nobody does.
Emit(r) ==
  /\ task[r] = "emitting" /\ socket # "closed"
  /\ SetTask(r, "over")
  /\ UNCHANGED <<kind, lifeVars, queueVars, loop, held, stops, dropped>>

\* Mutated form: a task without heartbeat.
LoseClientNever(r) == FALSE /\ UNCHANGED vars
\* A client is gone, or is not heard because the dispatcher is blocked or dead: the
\* heartbeat throws LostRemote at the task.
LoseClient(r) ==
  /\ r \in Active
  /\ SetTask(r, "over")
  /\ UNCHANGED <<kind, lifeVars, queueVars, loop, held, stops, dropped>>

-----------------------------------------------------------------------------
(***************************************************************************)
(* run, stop and close.                                                    *)
(***************************************************************************)
\* run() is called again only when no stop() is in progress.
Run ==
  /\ runner = "idle" /\ stopper = "idle" /\ socket = "open"
  /\ runs < MaxRuns /\ ~Looping
  /\ runs' = runs + 1
  /\ runner' = "waiting" /\ handle' = TRUE
  /\ loop' = "receiving"
  /\ UNCHANGED <<kind, stopper, kill, socket, queueVars, held, task, stops, dropped>>

\* The scheduled kill reaches the loop; the request it held is forgotten.
LoopKilled ==
  /\ kill /\ Looping
  /\ kill' = FALSE
  /\ loop' = "dead" /\ held' = 0
  /\ stops' = stops + 1
  /\ dropped' = IF held = 0 THEN dropped ELSE dropped \cup {held}
  /\ UNCHANGED <<kind, runner, stopper, handle, socket, runs, queueVars, task>>

\* What remains of run() once the loop is dead: stop() finds nothing to kill, and
\* a server joins its pool, be it that an exception is under way.
LoopEnds ==
  /\ runner \in {"waiting", "interrupted"} /\ loop = "dead"
  /\ runner' = IF kind = "server" THEN "joining" ELSE "idle"
  /\ handle' = FALSE
  /\ UNCHANGED <<kind, stopper, kill, socket, runs, queueVars, loop, held, task, stops,
                 dropped>>

\* An exception reaches the greenlet in run(): a server stops first, a puller only
\* forgets its receiver.
Interrupt ==
  /\ kind \in Hasty /\ runner = "waiting" /\ Looping
  /\ IF kind = "server" THEN runner' = "interrupted" /\ kill' = TRUE /\ UNCHANGED handle
                        ELSE runner' = "idle" /\ handle' = FALSE /\ UNCHANGED kill
  /\ UNCHANGED <<kind, stopper, socket, runs, queueVars, loop, held, task, stops, dropped>>

Joined ==
  /\ runner = "joining" /\ Active = {}
  /\ runner' = "idle"
  /\ UNCHANGED <<kind, stopper, handle, kill, socket, runs, queueVars, loop, held, task,
                 stops, dropped>>

\* Mutated form: stop does not wait for the end of the loop.
KillWaitsNever == FALSE
\* Whether stop() waits until the loop is dead (a puller's says block=False).
KillWaits == kind = "server"

\* A call of stop(), or of close(), which begins with it.
Stop ==
  /\ stopper = "idle" /\ socket = "open"
  /\ stopper' \in {"stopping", "closing"}
  /\ kill' = (kill \/ (handle /\ Looping))
  /\ UNCHANGED <<kind, runner, handle, socket, runs, queueVars, loop, held, task, stops,
                 dropped>>

\* stop() ends; close() goes on to kill the dispatcher, with what it held.
StopReturns ==
  /\ stopper \in {"stopping", "closing"} /\ socket = "open"
  /\ KillWaits => ~Looping
  /\ handle' = (handle /\ kind = "puller")
  /\ \/ /\ stopper = "stopping"
        /\ stopper' = "idle" /\ UNCHANGED <<socket, dispatcher, dropped>>
     \/ /\ stopper = "closing"
        /\ socket' = "undispatched"
        /\ dispatcher' = 0
        /\ dropped' = dropped \cup ({dispatcher} \ {0})
        /\ UNCHANGED stopper
  /\ UNCHANGED <<kind, runner, kill, runs, inbound, broadcast, arrived, loop, held, task,
                 stops>>

\* The greenlets of the socket are killed.
CloseReturns ==
  /\ socket = "undispatched"
  /\ socket' = "closed" /\ stopper' = "idle"
  /\ UNCHANGED <<kind, runner, handle, kill, runs, queueVars, loop, held, task, stops,
                 dropped>>

-----------------------------------------------------------------------------
LoopStep == Receive \/ Spawn \/ Execute \/ LoopKilled
RunStep  == Run \/ LoopEnds \/ Interrupt \/ Joined
StopStep == Stop \/ StopReturns \/ CloseReturns
TaskStep(r) == Grant(r) \/ Proceed(r) \/ Emit(r) \/ LoseClient(r)

Next == \/ Arrive \/ Dispatch \/ Unblock
        \/ LoopStep \/ RunStep \/ StopStep
        \/ \E r \in Request : TaskStep(r)

Spec == Init /\ [][Next]_vars

\* No channel hears its client, though its heartbeat can emit.
Unheard == dispatcher # 0 /\ socket = "open"

\* Every greenlet runs when it can, methods end, clients read their streams, and
\* a task whose channel hears nothing is lost, so long as its heartbeat can emit.
\* Nothing obliges the application to run, to stop or to close.
Fairness ==
  /\ WF_vars(Dispatch) /\ WF_vars(Unblock) /\ WF_vars(LoopStep)
  /\ WF_vars(LoopEnds) /\ WF_vars(Joined) /\ WF_vars(StopReturns) /\ WF_vars(CloseReturns)
  /\ \A r \in Request : /\ WF_vars(Grant(r)) /\ WF_vars(Proceed(r)) /\ WF_vars(Emit(r))
                         /\ WF_vars(Unheard /\ LoseClient(r))

LiveSpec == Spec /\ Fairness

-----------------------------------------------------------------------------
\* The requests that were not begun are held by the loop, queued, blocked in the
\* hands of the dispatcher or among the events of the socket.
Held     == {held} \ {0}
Queued   == {broadcast[i] : i \in 1..Len(broadcast)}
Blocked  == {dispatcher} \ {0}
RequestsOf(events) ==
  {events[i].of : i \in {j \in 1..Len(events) : events[j].name = "request"}}
Arriving == RequestsOf(inbound)

Before(R, S) == \A r \in R, s \in S : r < s
InOrder(events) ==
  \A i, j \in 1..Len(events) :
    i < j /\ events[i].name = "request" /\ events[j].name = "request"
      => events[i].of < events[j].of

\* No request is lost or doubled, and requests are begun in the order in which
\* they arrive; each stop() forgets at most the one the loop has taken, and
\* close() the one the dispatcher has.
RequestsAccounted ==
  /\ Held \cup Queued \cup Blocked \cup Arriving
       = {r \in 1..arrived : task[r] = "none" /\ r \notin dropped}
  /\ Before(Held, Queued \cup Blocked \cup Arriving)
  /\ Before(Queued, Blocked \cup Arriving) /\ Before(Blocked, Arriving)
  /\ \A i, j \in 1..Len(broadcast) : i < j => broadcast[i] < broadcast[j]
  /\ InOrder(inbound)
  /\ Cardinality(dropped) <= stops + (IF socket = "open" THEN 0 ELSE 1)

\* A loop that runs can be stopped: neither stop(), nor close(), nor the end of
\* run() forgets a live one, in whichever order they come to its death.
LoopIsStoppable == Looping => handle

\* run() returns once stop() was called, after its tasks have ended, though the
\* requests that still arrive may block the dispatcher before a task's credit;
\* unless the sockets are closed, and with them what tasks emit by.
StopEndsRun ==
  runner = "waiting" /\ stopper # "idle" ~> runner = "idle" \/ socket # "open"

\* A puller executes every event, whatever the methods of others raised, until
\* it is stopped.
EventsExecuted ==
  \A r \in Request :
    kind = "puller" /\ runner = "waiting" /\ arrived >= r
      ~> task[r] = "over" \/ stopper # "idle" \/ kill \/ stops > 0 \/ socket # "open"
=============================================================================
