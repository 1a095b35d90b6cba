--------------------------- MODULE BufferedChannel ---------------------------
(***************************************************************************)
(* The two ends of a BufferedChannel conversation and its credit-based     *)
(* flow control (zerorpc/channel.py, class BufferedChannel).               *)
(*                                                                         *)
(* Each end counts the events it may still emit (_remote_queue_open_slots, *)
(* here openSlots) and the places of its own input queue it has promised   *)
(* to the peer or filled (_input_queue_reserved, here reserved).  A reader *)
(* that runs low promises more with a _zpc_more event.                     *)
(*                                                                         *)
(* Greenlets are modelled by control states.  gevent switches only where a *)
(* greenlet blocks, so the code between two blocking calls is one action.  *)
(* Everything under the channel (HeartBeatOnChannel, Channel, multiplexer, *)
(* socket) is a FIFO wire per receiving end, and two things it can do:     *)
(* declare the remote lost, and stop routing to a closed channel.          *)
(***************************************************************************)
EXTENDS Integers, Sequences, FiniteSets

CONSTANTS
  Emitter,       \* the greenlets of one end that call emit_event
  InqueueSize,   \* InqueueSize[e]: the inqueue_size argument of end e
  MaxEmits,      \* bound: MaxEmits[e] emit_event calls at end e
  TimedEmit,     \* whether emitters pass a timeout to emit_event
  Closers,       \* the ends whose application may close the channel early
  Losers,        \* the ends whose heartbeat may fail though the peer is up
  Watchers       \* the ends that set on_close_if (the client of a stream)

End == {"client", "server"}
Peer(e) == IF e = "client" THEN "server" ELSE "client"

ASSUME ChannelAssumption ==
  /\ IsFiniteSet(Emitter)
  /\ InqueueSize \in [End -> Nat \ {0}]
  /\ MaxEmits \in [End -> Nat]
  /\ TimedEmit \in BOOLEAN
  /\ Closers \subseteq End
  /\ Losers \subseteq End
  /\ Watchers \subseteq End

VARIABLES
  openSlots,    \* _remote_queue_open_slots
  reserved,     \* _input_queue_reserved
  verbose,      \* _verbose
  inputQueue,   \* _input_queue: the names of the events to read
  onCloseIf,    \* whether _on_close_if is set (it tests for the "done" event)
  recver,       \* what became of the greenlet _recv_task
  chan,         \* _channel: open, being closed, or None ("closed")
  emitter,      \* where each emitting greenlet stands in emit_event
  reader,       \* where the reading greenlet stands in recv
  asking,       \* open_slots in the _request_data call in progress, else 0
  wire,         \* wire[e]: the events under way to e, oldest first
  lost,         \* HeartBeatOnChannel._lost_remote of that end
  emitted,      \* emit_event calls made so far
  sawDone       \* history: the application read the "done" event

emitVars  == <<openSlots, emitter, emitted>>
readVars  == <<reserved, verbose, reader, asking, sawDone>>
closeVars == <<onCloseIf, recver, chan, lost>>
vars == <<emitVars, readVars, closeVars, inputQueue, wire>>

EventName == {"data", "done"}
Event == [name : EventName \cup {"more"}, slots : Nat]
AppEvent(name) == [name |-> name, slots |-> 0]
MoreEvent(n) == [name |-> "more", slots |-> n]

EmitterState == {"idle", "waiting", "woken", "sending"}
ReaderState  == {"idle", "requesting", "getting"}
RecverState  == {"running", "overflow", "lost", "finished", "killed"}
ChanState    == {"open", "closing", "closed"}

TypeOK ==
  /\ openSlots  \in [End -> Int]
  /\ reserved   \in [End -> Int]
  /\ verbose    \in [End -> BOOLEAN]
  /\ inputQueue \in [End -> Seq(EventName)]
  /\ onCloseIf  \in [End -> BOOLEAN]
  /\ recver     \in [End -> RecverState]
  /\ chan       \in [End -> ChanState]
  /\ emitter    \in [End -> [Emitter -> EmitterState]]
  /\ reader     \in [End -> ReaderState]
  /\ asking     \in [End -> Nat]
  /\ wire       \in [End -> Seq(Event)]
  /\ lost       \in [End -> BOOLEAN]
  /\ emitted    \in [End -> Nat]
  /\ sawDone    \in [End -> BOOLEAN]

Init ==
  /\ openSlots  = [e \in End |-> 1]
  /\ reserved   = [e \in End |-> 1]
  /\ verbose    = [e \in End |-> FALSE]
  /\ inputQueue = [e \in End |-> <<>>]
  /\ onCloseIf  = [e \in End |-> FALSE]
  /\ recver     = [e \in End |-> "running"]
  /\ chan       = [e \in End |-> "open"]
  /\ emitter    = [e \in End |-> [g \in Emitter |-> "idle"]]
  /\ reader     = [e \in End |-> "idle"]
  /\ asking     = [e \in End |-> 0]
  /\ wire       = [e \in End |-> <<>>]
  /\ lost       = [e \in End |-> FALSE]
  /\ emitted    = [e \in End |-> 0]
  /\ sawDone    = [e \in End |-> FALSE]

-----------------------------------------------------------------------------
(***************************************************************************)
(* Emitting.  emit_event tests for zero slots, waits, spends a slot, and   *)
(* hands the event to the channel below, which may block.  The name of the *)
(* event matters only once it is on the wire, so it is chosen there.       *)
(***************************************************************************)
At(e, g, state) == emitter[e][g] = state
Move(e, g, state) == emitter' = [emitter EXCEPT ![e][g] = state]
Deliver(e, event) == wire' = [wire EXCEPT ![e] = Append(@, event)]

\* Mutated form: the test lets a spent window through.
MustWaitLate(e) == openSlots[e] = -1
\* The test an emitter makes before it spends a slot.
MustWait(e) == openSlots[e] = 0

\* Take a slot and call emit_event of the channel below.  On a lost or closed
\* channel that call raises at once, and the slot is given back.
Spend(e, g) ==
  IF lost[e] \/ chan[e] = "closed"
  THEN Move(e, g, "idle") /\ UNCHANGED openSlots
  ELSE Move(e, g, "sending") /\ openSlots' = [openSlots EXCEPT ![e] = @ - 1]

\* A call of emit_event: it blocks on _remote_can_recv or goes on to spend.
EmitEvent(e, g) ==
  /\ At(e, g, "idle") /\ chan[e] # "closed" /\ emitted[e] < MaxEmits[e]
  /\ emitted' = [emitted EXCEPT ![e] = @ + 1]
  /\ \/ MustWait(e) /\ Move(e, g, "waiting") /\ UNCHANGED openSlots
     \/ ~MustWait(e) /\ Spend(e, g)
  /\ UNCHANGED <<readVars, closeVars, inputQueue, wire>>

\* The wait is over: _remote_can_recv was set, or the timeout expired.  The
\* code does not look at what wait() returned, nor again at the slots.
StopWaiting(e, g) ==
  /\ At(e, g, "woken") \/ (TimedEmit /\ At(e, g, "waiting"))
  /\ Spend(e, g)
  /\ UNCHANGED <<readVars, closeVars, inputQueue, wire, emitted>>

\* The channel below took the event: emit_event returns.
HandOff(e, g) ==
  /\ At(e, g, "sending")
  /\ Move(e, g, "idle")
  /\ \E name \in EventName : Deliver(Peer(e), AppEvent(name))
  /\ UNCHANGED <<readVars, closeVars, openSlots, inputQueue, emitted>>

\* The LostRemote thrown at the parent greenlet reaches an emitter.  One that
\* was sending gives its slot back, whether or not its event is gone already.
EmitInterrupted(e, g) ==
  /\ lost[e] /\ ~At(e, g, "idle")
  /\ Move(e, g, "idle")
  /\ \/ ~At(e, g, "sending") /\ UNCHANGED <<openSlots, wire>>
     \/ /\ At(e, g, "sending")
        /\ openSlots' = [openSlots EXCEPT ![e] = @ + 1]
        /\ \/ UNCHANGED wire
           \/ \E name \in EventName : Deliver(Peer(e), AppEvent(name))
  /\ UNCHANGED <<readVars, closeVars, inputQueue, emitted>>

-----------------------------------------------------------------------------
(***************************************************************************)
(* Reading.  From its second call on, recv first asks the peer for more    *)
(* events when few places are promised, then waits for the input queue.    *)
(***************************************************************************)
\* Mutated form: asking as soon as one place is free.
NeedsMoreEagerly(e) == reserved[e] < InqueueSize[e]
\* The test recv makes before it asks for more.
NeedsMore(e) == reserved[e] < InqueueSize[e] \div 2

\* Mutated form: places counted the wrong way round.
MoreSlotsSwapped(e) == reserved[e] - InqueueSize[e]
\* The places _request_data promises to the peer.
MoreSlots(e) == InqueueSize[e] - reserved[e]

\* _request_data: promise the free places, then emit _zpc_more.  On a lost
\* channel the emit raises at once, after the places were promised.
RequestData(e) ==
  /\ reserved' = [reserved EXCEPT ![e] = @ + MoreSlots(e)]
  /\ IF lost[e]
     THEN UNCHANGED <<reader, asking>>
     ELSE /\ reader' = [reader EXCEPT ![e] = "requesting"]
          /\ asking' = [asking EXCEPT ![e] = MoreSlots(e)]
  /\ UNCHANGED verbose

\* A call of recv, up to where it blocks.
Recv(e) ==
  /\ reader[e] = "idle"
  /\ IF verbose[e] /\ chan[e] # "closed" /\ NeedsMore(e)
     THEN RequestData(e)
     ELSE /\ reader' = [reader EXCEPT ![e] = "getting"]
          /\ verbose' = [verbose EXCEPT ![e] = TRUE]
          /\ UNCHANGED <<reserved, asking>>
  /\ UNCHANGED <<emitVars, closeVars, inputQueue, wire, sawDone>>

\* The channel below took the _zpc_more event: recv goes on to the queue.
RequestSent(e) ==
  /\ reader[e] = "requesting"
  /\ Deliver(Peer(e), MoreEvent(asking[e]))
  /\ asking' = [asking EXCEPT ![e] = 0]
  /\ reader' = [reader EXCEPT ![e] = "getting"]
  /\ UNCHANGED <<emitVars, closeVars, reserved, verbose, inputQueue, sawDone>>

\* Mutated form: the place of an event that was read stays reserved.
ReservedKept(e) == reserved[e]
\* The places reserved once an event was read.
ReservedAfterGet(e) == reserved[e] - 1

\* recv returns an event.
GetEvent(e) ==
  /\ reader[e] = "getting" /\ inputQueue[e] # <<>>
  /\ inputQueue' = [inputQueue EXCEPT ![e] = Tail(@)]
  /\ sawDone' = [sawDone EXCEPT ![e] = @ \/ Head(inputQueue[e]) = "done"]
  /\ reserved' = [reserved EXCEPT ![e] = ReservedAfterGet(e)]
  /\ reader' = [reader EXCEPT ![e] = "idle"]
  /\ UNCHANGED <<emitVars, closeVars, verbose, asking, wire>>

\* recv raises TimeoutExpired.
RecvExpires(e) ==
  /\ reader[e] = "getting" /\ inputQueue[e] = <<>>
  /\ reader' = [reader EXCEPT ![e] = "idle"]
  /\ UNCHANGED <<emitVars, closeVars, reserved, verbose, inputQueue, asking, wire,
                 sawDone>>

\* The LostRemote thrown at the parent greenlet reaches the reader; a _zpc_more
\* it was emitting may be gone already.
RecvInterrupted(e) ==
  /\ lost[e] /\ reader[e] # "idle"
  /\ reader' = [reader EXCEPT ![e] = "idle"]
  /\ asking' = [asking EXCEPT ![e] = 0]
  /\ \/ UNCHANGED wire
     \/ reader[e] = "requesting" /\ Deliver(Peer(e), MoreEvent(asking[e]))
  /\ UNCHANGED <<emitVars, closeVars, reserved, verbose, inputQueue, sawDone>>

-----------------------------------------------------------------------------
(***************************************************************************)
(* The greenlet _recver: one event from the wire at a time.                *)
(***************************************************************************)
\* Once the remote is lost the next recv on the channel below raises.
RecverNext(e) == IF lost[e] THEN "lost" ELSE "running"

\* Mutated form: the open slots are tested before the new ones are added.
RecverMoreLate(e) ==
  /\ Head(wire[e]).name = "more"
  /\ openSlots' = [openSlots EXCEPT ![e] = @ + Head(wire[e]).slots]
  /\ emitter' = [emitter EXCEPT ![e] =
                   [g \in Emitter |-> IF At(e, g, "waiting") /\ openSlots[e] > 0
                                      THEN "woken" ELSE emitter[e][g]]]
  /\ recver' = [recver EXCEPT ![e] = RecverNext(e)]
  /\ UNCHANGED <<inputQueue, chan>>
\* A _zpc_more event: its slots are added, and set() wakes every waiter.
RecverMore(e) ==
  LET slots == openSlots[e] + Head(wire[e]).slots IN
  /\ Head(wire[e]).name = "more"
  /\ openSlots' = [openSlots EXCEPT ![e] = slots]
  /\ emitter' = [emitter EXCEPT ![e] =
                   [g \in Emitter |-> IF At(e, g, "waiting") /\ slots > 0
                                      THEN "woken" ELSE emitter[e][g]]]
  /\ recver' = [recver EXCEPT ![e] = RecverNext(e)]
  /\ UNCHANGED <<inputQueue, chan>>

\* Any other event with the queue full: RuntimeError ends the greenlet.
RecverOverflow(e) ==
  /\ Head(wire[e]).name # "more"
  /\ Len(inputQueue[e]) = InqueueSize[e]
  /\ recver' = [recver EXCEPT ![e] = "overflow"]
  /\ UNCHANGED <<openSlots, emitter, inputQueue, chan>>

\* Mutated form: the event on_close_if recognises is not queued.
QueuedUnlessDone(e, name) ==
  IF onCloseIf[e] /\ name = "done" THEN inputQueue[e]
                                   ELSE Append(inputQueue[e], name)
\* The input queue once the event is put.
Queued(e, name) == Append(inputQueue[e], name)

\* Any other event: it is queued, and on_close_if may close the channel.
RecverQueue(e) ==
  LET name == Head(wire[e]).name
      done == onCloseIf[e] /\ name = "done" IN
  /\ name # "more"
  /\ Len(inputQueue[e]) # InqueueSize[e]
  /\ inputQueue' = [inputQueue EXCEPT ![e] = Queued(e, name)]
  /\ recver' = [recver EXCEPT ![e] = IF done THEN "finished" ELSE RecverNext(e)]
  /\ chan' = [chan EXCEPT ![e] = IF done THEN "closing" ELSE @]
  /\ UNCHANGED <<openSlots, emitter>>

Recver(e) ==
  /\ recver[e] = "running" /\ wire[e] # <<>>
  /\ wire' = [wire EXCEPT ![e] = Tail(@)]
  /\ RecverMore(e) \/ RecverOverflow(e) \/ RecverQueue(e)
  /\ UNCHANGED <<readVars, onCloseIf, lost, emitted>>

-----------------------------------------------------------------------------
(***************************************************************************)
(* Closing, and what the layers below do.                                  *)
(***************************************************************************)
\* process_answer of a stream sets on_close_if.
SetOnCloseIf(e) ==
  /\ e \in Watchers /\ ~onCloseIf[e]
  /\ onCloseIf' = [onCloseIf EXCEPT ![e] = TRUE]
  /\ UNCHANGED <<emitVars, readVars, inputQueue, recver, chan, wire, lost>>

\* The application calls close(): the receiving greenlet is killed first.
Close(e) ==
  /\ e \in Closers /\ chan[e] = "open"
  /\ recver' = [recver EXCEPT ![e] = IF @ = "running" THEN "killed" ELSE @]
  /\ chan' = [chan EXCEPT ![e] = "closing"]
  /\ UNCHANGED <<emitVars, readVars, inputQueue, onCloseIf, wire, lost>>

\* close() of the channel below returns and _channel becomes None.
CloseReturns(e) ==
  /\ chan[e] = "closing"
  /\ chan' = [chan EXCEPT ![e] = "closed"]
  /\ UNCHANGED <<emitVars, readVars, inputQueue, onCloseIf, recver, wire, lost>>

\* The multiplexer has no channel to route the event to and drops it.
Unroutable(e) ==
  /\ chan[e] = "closed" /\ wire[e] # <<>>
  /\ wire' = [wire EXCEPT ![e] = Tail(@)]
  /\ UNCHANGED <<emitVars, readVars, closeVars, inputQueue>>

\* The heartbeat task misses the peer: it closed, or (Losers) was only slow.
LoseRemote(e) ==
  /\ ~lost[e] /\ chan[e] # "closed"
  /\ e \in Losers \/ chan[Peer(e)] = "closed"
  /\ lost' = [lost EXCEPT ![e] = TRUE]
  /\ UNCHANGED <<emitVars, readVars, inputQueue, onCloseIf, recver, chan, wire>>

-----------------------------------------------------------------------------
EmitterStep(e, g) == \/ EmitEvent(e, g) \/ StopWaiting(e, g)
                     \/ HandOff(e, g) \/ EmitInterrupted(e, g)

ReaderStep(e) == \/ Recv(e) \/ RequestSent(e) \/ GetEvent(e)
                 \/ RecvExpires(e) \/ RecvInterrupted(e)

ChannelStep(e) == \/ Recver(e) \/ SetOnCloseIf(e) \/ Close(e)
                  \/ CloseReturns(e) \/ Unroutable(e) \/ LoseRemote(e)

Next == \E e \in End : \/ \E g \in Emitter : EmitterStep(e, g)
                      \/ ReaderStep(e)
                      \/ ChannelStep(e)

Spec == Init /\ [][Next]_vars

\* The greenlets of both ends run, their readers keep calling recv, and the
\* wire delivers.  Nothing obliges anyone to emit, to close or to time out.
Fairness == \A e \in End :
  /\ WF_vars(Recver(e)) /\ WF_vars(Unroutable(e)) /\ WF_vars(CloseReturns(e))
  /\ WF_vars(Recv(e)) /\ WF_vars(RequestSent(e)) /\ WF_vars(GetEvent(e))
  /\ \A g \in Emitter : /\ WF_vars(HandOff(e, g))
                         /\ WF_vars(At(e, g, "woken") /\ StopWaiting(e, g))

LiveSpec == Spec /\ Fairness

-----------------------------------------------------------------------------
(***************************************************************************)
(* Where the places of a window are.                                       *)
(***************************************************************************)
MoreAt(w) == {i \in 1..Len(w) : w[i].name = "more"}
OneMore(w) == \A i, j \in MoreAt(w) : i = j
\* The events on wire w that will be queued, and the credit under way on it.
EventsOn(w) == Len(w) - Cardinality(MoreAt(w))
CreditOn(w) == IF MoreAt(w) = {} THEN 0 ELSE w[CHOOSE i \in MoreAt(w) : TRUE].slots

Sending(e) == Cardinality({g \in Emitter : At(e, g, "sending")})

\* Places of end e taken by an event, and promised but not yet known to the peer.
Outstanding(e) == Len(inputQueue[e]) + EventsOn(wire[e]) + Sending(Peer(e))
Promised(e) == CreditOn(wire[Peer(e)]) + asking[e]

Healthy == \A e \in End : ~lost[e] /\ chan[e] # "closed"

\* The input queue never overflows, that is, the RuntimeError of _recver is
\* never raised: whatever the peer emits fits the places it was promised.
NoOverflow == \A e \in End : recver[e] # "overflow"

\* A reader never asks for more while its last request is still under way, so
\* that a place is never promised twice.
SingleMoreInFlight ==
  \A e \in End : OneMore(wire[e]) /\ (asking[Peer(e)] > 0 => MoreAt(wire[e]) = {})

\* On a healthy channel no place leaks: each place an end has reserved is an
\* unread event, a slot its peer may spend, or a promise on its way.
CreditConserved ==
  Healthy => \A e \in End :
               reserved[e] = Outstanding(e) + Promised(e) + openSlots[Peer(e)]

\* An emitter never spends a slot it does not have, even when the channel is
\* closed or the remote is lost under it.
NoOverdraft == \A e \in End : openSlots[e] >= 0 /\ reserved[e] \in 0..InqueueSize[e]

\* An emitter blocked in emit_event gets to emit, so long as neither end closes
\* or gives the other up.
WaitingEmitterResumes ==
  \A e \in End, g \in Emitter :
    At(e, g, "waiting") ~>
      ~At(e, g, "waiting") \/ \E x \in End : chan[x] # "open" \/ lost[x]

\* The last event of a stream is read though _recver closes the channel in the
\* very step in which it queues that event, and whatever its sender does then; but
\* an application that closes its channel early may miss it.
DoneIsRead ==
  \A e \in End :
    (\E i \in 1..Len(wire[e]) : wire[e][i].name = "done") ~>
      sawDone[e] \/ lost[e] \/ (e \in Closers /\ chan[e] # "open")

\* emit_event with a timeout fails when the timeout expires: an emitter goes
\* on to send only once it was woken.
ExpiredEmitFails ==
  [][\A e \in End, g \in Emitter :
       At(e, g, "waiting") => emitter'[e][g] # "sending"]_vars

\* Both windows of the channel are what CreditWindow says of a window.
Window == INSTANCE CreditWindow
            WITH Bound <- InqueueSize, unread <- [e \in End |-> Outstanding(e)]
WindowSpec == Window!Spec

-----------------------------------------------------------------------------
(***************************************************************************)
(* The inductive invariant, for one emitter at each end that passes no     *)
(* timeout.  A request under way promises more than half of the queue, so  *)
(* reserved cannot be below half of it: that is why there is but one.      *)
(***************************************************************************)
SoleEmitter == \E g : Emitter = {g}

InvBound(e) ==
  /\ reserved[e] \in 0..InqueueSize[e] /\ openSlots[e] >= 0
  /\ recver[e] # "overflow" /\ (recver[e] = "running" => chan[e] = "open")
InvAccount(e) ==
  Outstanding(e) + Promised(e) + (IF lost[Peer(e)] THEN 0 ELSE openSlots[Peer(e)])
    <= reserved[e]
InvExact(e) ==
  Healthy => reserved[e] = Outstanding(e) + Promised(e) + openSlots[Peer(e)]
InvMore(e) ==
  /\ OneMore(wire[e])
  /\ asking[e] > 0 => reader[e] = "requesting" /\ MoreAt(wire[Peer(e)]) = {}
  /\ reader[e] = "requesting" => asking[e] > 0
  /\ Promised(e) > 0 => Promised(e) > InqueueSize[e] - (InqueueSize[e] \div 2)
  /\ MoreAt(wire[Peer(e)]) # {} => Promised(e) > 0
InvWait(e) ==
  \A g \in Emitter : /\ At(e, g, "waiting") => openSlots[e] = 0
                     /\ At(e, g, "woken") => openSlots[e] > 0

Inv == \A e \in End : /\ InvBound(e) /\ InvAccount(e) /\ InvExact(e)
                      /\ InvMore(e) /\ InvWait(e)
IInv == TypeOK /\ Inv
=============================================================================
