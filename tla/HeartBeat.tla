------------------------------ MODULE HeartBeat ------------------------------
(***************************************************************************)
(* HeartBeatOnChannel at the two ends of one channel, in discrete time     *)
(* (zerorpc/heartbeat.py).                                                 *)
(*                                                                         *)
(* Every Freq units the heartbeat task of an end looks at the age of the   *)
(* last heartbeat it received, then either declares the remote lost or     *)
(* sends a heartbeat.  A declaration schedules LostRemote to be thrown at  *)
(* the greenlet that created the channel (the parent), which may be        *)
(* closing the channel by the time the exception reaches it.               *)
(*                                                                         *)
(* Time is discrete: an event spends at most Delay units on the wire, and  *)
(* a greenlet whose sleep is over runs at most Slack units late.  Closing  *)
(* and throwing take a few turns of the event loop and no time.  The       *)
(* emission of a heartbeat either takes none or never returns, when the    *)
(* sending queue under it is not served any more.                          *)
(***************************************************************************)
EXTENDS Integers, Sequences, SequencesExt

CONSTANTS
  Freq,      \* heartbeat_freq
  Delay,     \* the longest an event is on the wire
  Slack,     \* the longest a greenlet is late
  Passive,   \* the ends that may be created with passive=True
  Mortals,   \* the ends that may crash or be cut off
  Stallers,  \* the ends whose emission may block for ever
  Closers    \* the ends whose parent may close the channel

End == {"client", "server"}
Peer(e) == IF e = "client" THEN "server" ELSE "client"

ASSUME HeartBeatAssumption ==
  /\ Freq \in Nat \ {0} /\ Delay \in Nat /\ Slack \in Nat
  /\ Passive \subseteq End /\ Mortals \subseteq End /\ Closers \subseteq End
  /\ Stallers \subseteq End

VARIABLES
  parent,   \* where the greenlet that created the channel is
  task,     \* the greenlet _heartbeat: off, sleeping, blocked or ended
  timer,    \* time left of its sleep; negative when it is late
  age,      \* time since _remote_last_hb; Never when that is None
  lost,     \* _lost_remote
  closed,   \* _closed
  pending,  \* whether LostRemote is scheduled to be thrown at the parent
  wire,     \* wire[e]: the events under way to e, oldest first
  up,       \* whether that end still runs and is connected
  silence   \* history: time since the peer of a beating end stopped

vars == <<parent, task, timer, age, lost, closed, pending, wire, up, silence>>

Never == -1
ParentState == {"none", "busy", "killingBuf", "killingBeat", "killingRecv",
                "closed", "aborted"}
Event == [name : {"request", "hb"}, age : 0..Delay]

\* The remote of a beating end is declared lost within so much time.
Bound == 4 * Freq + 2 * Slack

\* Beats are Freq apart, so no more than so many events are on a wire at once.
WireBound == Delay \div Freq + 2

\* The type invariant: heartbeats never crowd a wire.
TypeOK ==
  /\ parent  \in [End -> ParentState]
  /\ task    \in [End -> {"off", "sleeping", "blocked", "ended"}]
  /\ timer   \in [End -> -Slack..Freq]
  /\ age     \in [End -> Never..2 * Freq + 1]
  /\ lost    \in [End -> BOOLEAN]
  /\ closed  \in [End -> BOOLEAN]
  /\ pending \in [End -> BOOLEAN]
  /\ wire    \in [End -> BoundedSeq(Event, WireBound)]
  /\ up      \in [End -> BOOLEAN]
  /\ silence \in [End -> 0..Bound + 1]

\* The client has created its channel and emitted the request.
Init ==
  /\ parent  = [e \in End |-> IF e = "client" THEN "busy" ELSE "none"]
  /\ \E passive \in SUBSET Passive :
       task = [e \in End |-> IF e = "client" /\ e \notin passive THEN "sleeping" ELSE "off"]
  /\ timer   = [e \in End |-> Freq]
  /\ age     = [e \in End |-> Never]
  /\ lost    = [e \in End |-> FALSE]
  /\ closed  = [e \in End |-> FALSE]
  /\ pending = [e \in End |-> FALSE]
  /\ wire    = [e \in End |-> IF e = "server" THEN <<[name |-> "request", age |-> 0]>>
                                             ELSE <<>>]
  /\ up      = [e \in End |-> TRUE]
  /\ silence = [e \in End |-> 0]

-----------------------------------------------------------------------------
(***************************************************************************)
(* The heartbeat task and the receiving greenlet.                          *)
(***************************************************************************)
\* Mutated form: an interval too many.
TooOldLate(a) == a > 3 * Freq
\* The age tested: the first tick stands for a heartbeat never received.
Baseline(e) == IF age[e] = Never THEN 0 ELSE age[e]
TooOld(a) == a > 2 * Freq

\* Mutated form: the task does not sleep between two heartbeats.
SleepSkipped(e) == UNCHANGED timer
\* gevent.sleep(self._heartbeat_freq).
Sleep(e) == timer' = [timer EXCEPT ![e] = Freq]

\* A tick of _heartbeat: the remote is lost, or a heartbeat is emitted.  When the
\* emission blocks the task does not look at the age any more.
Beat(e) ==
  /\ up[e] /\ task[e] = "sleeping" /\ timer[e] <= 0
  /\ age' = [age EXCEPT ![e] = Baseline(e)]
  /\ \/ /\ TooOld(Baseline(e))
        /\ lost' = [lost EXCEPT ![e] = TRUE]
        /\ pending' = [pending EXCEPT ![e] = ~closed[e]]
        /\ task' = [task EXCEPT ![e] = "ended"]
        /\ UNCHANGED <<timer, wire>>
     \/ /\ ~TooOld(Baseline(e))
        /\ wire' = [wire EXCEPT ![Peer(e)] = Append(@, [name |-> "hb", age |-> 0])]
        /\ Sleep(e)
        /\ UNCHANGED <<lost, pending, task>>
     \/ /\ ~TooOld(Baseline(e)) /\ e \in Stallers
        /\ task' = [task EXCEPT ![e] = "blocked"]
        /\ UNCHANGED <<lost, pending, timer, wire>>
  /\ UNCHANGED <<parent, closed, up, silence>>

\* Mutated form: a passive end does not start to beat when it is beaten at.
StartBeatNever(e) == UNCHANGED <<task, timer>>
\* _start_heartbeat.
StartBeat(e) ==
  IF task[e] = "off" /\ ~closed[e]
  THEN task' = [task EXCEPT ![e] = "sleeping"] /\ Sleep(e)
  ELSE UNCHANGED <<task, timer>>

\* The greenlet of the heartbeat is there to be killed.
Alive(e) == task[e] \in {"sleeping", "blocked"}

\* The channel exists and its receiving greenlet runs.
Closing(e) == parent[e] \in {"killingBuf", "killingBeat", "killingRecv"}
Receiving(e) == parent[e] = "busy" \/ Closing(e)

\* An event reaches an end: the request creates the channel there, a heartbeat
\* is noted, and what comes for a channel that is closed is dropped.
Hear(e) ==
  /\ up[e] /\ wire[e] # <<>>
  /\ wire' = [wire EXCEPT ![e] = Tail(@)]
  /\ \/ /\ Head(wire[e]).name = "request"
        /\ parent' = [parent EXCEPT ![e] = "busy"]
        /\ StartBeat(e) \/ (e \in Passive /\ UNCHANGED <<task, timer>>)
        /\ UNCHANGED age
     \/ /\ Head(wire[e]).name = "hb" /\ Receiving(e)
        /\ age' = [age EXCEPT ![e] = 0]
        /\ StartBeat(e)
        /\ UNCHANGED parent
     \/ /\ Head(wire[e]).name = "hb" /\ ~Receiving(e)
        /\ UNCHANGED <<age, task, timer, parent>>
  /\ UNCHANGED <<lost, closed, pending, up, silence>>

-----------------------------------------------------------------------------
(***************************************************************************)
(* The parent closes: BufferedChannel.close kills its receiving greenlet,  *)
(* then HeartBeatOnChannel.close sets _closed, kills the heartbeat task    *)
(* and the receiving greenlet, and the channel is unregistered.  Each kill *)
(* of a live greenlet lets the others run.                                 *)
(***************************************************************************)
Step(e, from, to) ==
  /\ up[e] /\ parent[e] = from
  /\ parent' = [parent EXCEPT ![e] = to]

BeginClose(e) ==
  /\ e \in Closers
  /\ Step(e, "busy", "killingBuf")
  /\ UNCHANGED <<task, timer, age, lost, closed, pending, wire, up, silence>>

BufKilled(e) ==
  /\ Step(e, "killingBuf", IF Alive(e) THEN "killingBeat" ELSE "killingRecv")
  /\ closed' = [closed EXCEPT ![e] = TRUE]
  /\ UNCHANGED <<task, timer, age, lost, pending, wire, up, silence>>

\* Mutated form: the heartbeat task is forgotten, not killed.
BeatForgotten(e) ==
  /\ Step(e, "killingBeat", "killingRecv")
  /\ UNCHANGED <<task, timer, age, lost, closed, pending, wire, up, silence>>

BeatKilled(e) ==
  /\ Step(e, "killingBeat", "killingRecv")
  /\ task' = [task EXCEPT ![e] = "ended"]
  /\ UNCHANGED <<timer, age, lost, closed, pending, wire, up, silence>>

RecvKilled(e) ==
  /\ Step(e, "killingRecv", "closed")
  /\ UNCHANGED <<task, timer, age, lost, closed, pending, wire, up, silence>>

\* The scheduled LostRemote reaches the parent, wherever it is by now: in the
\* middle of close(), it cuts the closing short.
Throw(e) ==
  /\ up[e] /\ pending[e]
  /\ pending' = [pending EXCEPT ![e] = FALSE]
  /\ parent' = [parent EXCEPT ![e] = IF Closing(e) THEN "aborted" ELSE @]
  /\ UNCHANGED <<task, timer, age, lost, closed, wire, up, silence>>

-----------------------------------------------------------------------------
(***************************************************************************)
(* The environment.                                                        *)
(***************************************************************************)
Crash(e) ==
  /\ e \in Mortals /\ up[e]
  /\ up' = [up EXCEPT ![e] = FALSE]
  /\ UNCHANGED <<parent, task, timer, age, lost, closed, pending, wire, silence>>

\* End e sends no heartbeat any more, though it may not have begun to.
Stopped(e) == ~up[e] \/ task[e] \in {"blocked", "ended"} \/ closed[e]

\* Nothing that must happen first is still to be done at end e.
Settled(e) ==
  up[e] => /\ task[e] = "sleeping" => timer[e] > -Slack
           /\ \A i \in 1..Len(wire[e]) : wire[e][i].age < Delay
           /\ ~Closing(e)
           /\ ~pending[e]

Older(a) == IF a \in {Never, 2 * Freq + 1} THEN a ELSE a + 1

\* A unit of time passes.  Ages and silences are counted as far as they matter.
Advance ==
  /\ \A e \in End : Settled(e)
  /\ timer' = [e \in End |-> IF up[e] /\ task[e] = "sleeping" THEN timer[e] - 1
                                                            ELSE timer[e]]
  /\ age' = [e \in End |-> Older(age[e])]
  /\ wire' = [e \in End |->
                IF up[e] THEN [i \in 1..Len(wire[e]) |-> [wire[e][i] EXCEPT !.age = @ + 1]]
                         ELSE <<>>]
  /\ silence' = [e \in End |->
                   IF up[e] /\ task[e] = "sleeping" /\ Stopped(Peer(e)) /\ silence[e] <= Bound
                   THEN silence[e] + 1 ELSE silence[e]]
  /\ UNCHANGED <<parent, task, lost, closed, pending, up>>

EndStep(e) == \/ Beat(e) \/ Hear(e) \/ BeginClose(e) \/ BufKilled(e)
              \/ BeatKilled(e) \/ RecvKilled(e) \/ Throw(e) \/ Crash(e)

Next == Advance \/ \E e \in End : EndStep(e)

Spec == Init /\ [][Next]_vars

-----------------------------------------------------------------------------
\* No false alarm: an end is declared lost only if it crashed, closed, blocked in
\* its emission, or gave its own peer up.  Holds when two delays and a lateness make no
\* more than an interval: a passive end beats only once it was beaten at.
NoFalseAlarm == \A e \in End : lost[e] => Stopped(Peer(e))

\* An end that beats notices that its peer stopped, within Bound; that of two ends
\* whose emission blocks the other one too, and the blocked one never.
LossDetected == \A e \in End : silence[e] <= Bound

\* A channel that is closed has stopped beating, even when LostRemote cut the
\* closing short.
ClosedStopsBeating ==
  \A e \in End : parent[e] \in {"closed", "aborted"} => ~Alive(e)

\* The remote is considered lost when no heartbeat was received for two
\* intervals (give or take the lateness of the task that looks).
LostAfterTwoIntervals ==
  \A e \in End : up[e] /\ task[e] = "sleeping" => silence[e] <= 2 * Freq + Delay + Slack
=============================================================================
