----------------------- MODULE BufferedChannelProofs -----------------------
(***************************************************************************)
(* Proofs about BufferedChannel, for queues of any size, any number of     *)
(* events and any closing and losing.  Type correctness holds for every    *)
(* value of the constants; the rest for one emitting greenlet per end that *)
(* passes no timeout to emit_event.                                        *)
(***************************************************************************)
EXTENDS BufferedChannel, FiniteSetTheorems, SequenceTheorems, TLAPS

-----------------------------------------------------------------------------
(***************************************************************************)
(* Type correctness.                                                       *)
(***************************************************************************)
LEMMA InitTypeOK == Init => TypeOK
  BY ChannelAssumption
  DEF Init, TypeOK, EventName, Event, EmitterState, ReaderState, RecverState,
      ChanState

LEMMA PeerType == \A e \in End : Peer(e) \in End /\ Peer(Peer(e)) = e /\ Peer(e) # e
  BY DEF Peer, End

\* Handing an event to the channel below keeps the wires well typed.
LEMMA DeliverType ==
  ASSUME TypeOK
  PROVE  \A e \in End, event \in Event :
           Deliver(e, event) => wire' \in [End -> Seq(Event)]
  BY DEF TypeOK, Deliver

LEMMA AppEventType == \A name \in EventName : AppEvent(name) \in Event
  BY DEF AppEvent, Event

LEMMA MoveType ==
  ASSUME TypeOK
  PROVE  \A e \in End, g \in Emitter : \A state \in EmitterState :
           Move(e, g, state) => emitter' \in [End -> [Emitter -> EmitterState]]
  BY DEF TypeOK, Move

\* An emitter's step keeps every variable in its type.
LEMMA EmitterTypeOK ==
  ASSUME TypeOK, NEW e \in End, NEW g \in Emitter, EmitterStep(e, g)
  PROVE  TypeOK'
<1> USE ChannelAssumption DEF emitVars, readVars, closeVars, EmitterState
<1>0. \A state \in EmitterState :
         Move(e, g, state) => emitter' \in [End -> [Emitter -> EmitterState]]
  BY MoveType
<1>1. Spend(e, g) => /\ openSlots' \in [End -> Int]
                     /\ emitter' \in [End -> [Emitter -> EmitterState]]
  BY <1>0, SMTT(30) DEF Spend, TypeOK
<1>2. CASE EmitEvent(e, g)
  <2>1. emitter' \in [End -> [Emitter -> EmitterState]] /\ openSlots' \in [End -> Int]
    BY <1>0, <1>1, <1>2 DEF EmitEvent, TypeOK
  <2>2. emitted' \in [End -> Nat]
    BY <1>2 DEF EmitEvent, TypeOK
  <2>3. UNCHANGED <<readVars, closeVars, inputQueue, wire>>
    BY <1>2 DEF EmitEvent
  <2> QED  BY <2>1, <2>2, <2>3, SMTT(30) DEF TypeOK
<1>3. CASE StopWaiting(e, g)
  BY <1>1, <1>3 DEF StopWaiting, TypeOK
<1>4. CASE HandOff(e, g)
  BY <1>0, <1>4, DeliverType, AppEventType, PeerType DEF HandOff, TypeOK
<1>5. CASE EmitInterrupted(e, g)
  <2>1. wire' \in [End -> Seq(Event)]
    <3>1. \/ UNCHANGED wire
          \/ \E name \in EventName : Deliver(Peer(e), AppEvent(name))
      BY <1>5 DEF EmitInterrupted
    <3> QED  BY <3>1, DeliverType, AppEventType, PeerType DEF TypeOK
  <2>2. openSlots' \in [End -> Int]
    BY <1>5, SMTT(30) DEF EmitInterrupted, TypeOK
  <2>3. emitter' \in [End -> [Emitter -> EmitterState]]
    BY <1>0, <1>5 DEF EmitInterrupted
  <2>4. UNCHANGED <<readVars, closeVars, inputQueue, emitted>>
    BY <1>5 DEF EmitInterrupted
  <2> QED  BY <2>1, <2>2, <2>3, <2>4, SMTT(30) DEF TypeOK
<1> QED  BY <1>2, <1>3, <1>4, <1>5 DEF EmitterStep

\* A reader's step keeps every variable in its type.  What _request_data asks
\* for is positive, because recv calls it below half of the queue only.
LEMMA ReaderTypeOK ==
  ASSUME TypeOK, NEW e \in End, ReaderStep(e)
  PROVE  TypeOK'
<1> USE ChannelAssumption DEF emitVars, readVars, closeVars
<1>1. CASE Recv(e)
  <2>1. CASE verbose[e] /\ chan[e] # "closed" /\ NeedsMore(e)
    <3>1. MoreSlots(e) \in Nat
      BY <2>1 DEF TypeOK, NeedsMore, MoreSlots
    <3>2. RequestData(e)
      BY <1>1, <2>1 DEF Recv
    <3>3. reserved' \in [End -> Int] /\ UNCHANGED verbose
      BY <3>1, <3>2 DEF RequestData, TypeOK
    <3>0. asking \in [End -> Nat] /\ reader \in [End -> ReaderState]
      BY DEF TypeOK
    <3>4. asking' \in [End -> Nat]
      BY <3>0, <3>1, <3>2, SMTT(30) DEF RequestData
    <3>6. reader' \in [End -> ReaderState]
      BY <3>0, <3>2, SMTT(30) DEF RequestData, ReaderState
    <3>5. UNCHANGED <<emitVars, closeVars, inputQueue, wire, sawDone>>
      BY <1>1 DEF Recv
    <3> QED  BY <3>3, <3>4, <3>5, <3>6, SMTT(30) DEF TypeOK
  <2>2. CASE ~(verbose[e] /\ chan[e] # "closed" /\ NeedsMore(e))
    BY <1>1, <2>2 DEF Recv, TypeOK, ReaderState
  <2> QED  BY <2>1, <2>2
<1>2. ASSUME Deliver(Peer(e), MoreEvent(asking[e]))
      PROVE  wire' \in [End -> Seq(Event)]
  <2>1. MoreEvent(asking[e]) \in Event  BY DEF TypeOK, MoreEvent, Event
  <2> QED  BY <1>2, <2>1, DeliverType, PeerType
<1>3. CASE RequestSent(e)
  BY <1>2, <1>3 DEF RequestSent, TypeOK, ReaderState
<1>4. CASE GetEvent(e)
  <2>1. inputQueue' \in [End -> Seq(EventName)]  BY <1>4 DEF GetEvent, TypeOK
  <2>2. reserved' \in [End -> Int]  BY <1>4 DEF GetEvent, TypeOK, ReservedAfterGet
  <2> QED  BY <1>4, <2>1, <2>2 DEF GetEvent, TypeOK, ReaderState
<1>5. CASE RecvExpires(e)
  BY <1>5 DEF RecvExpires, TypeOK, ReaderState
<1>6. CASE RecvInterrupted(e)
  BY <1>2, <1>6 DEF RecvInterrupted, TypeOK, ReaderState
<1> QED  BY <1>1, <1>3, <1>4, <1>5, <1>6 DEF ReaderStep

\* A step of the channel keeps every variable in its type.
LEMMA ChannelTypeOK ==
  ASSUME TypeOK, NEW e \in End, ChannelStep(e)
  PROVE  TypeOK'
<1> USE ChannelAssumption DEF emitVars, readVars, closeVars
<1>1. CASE Recver(e)
  <2>1. Head(wire[e]) \in Event /\ Tail(wire[e]) \in Seq(Event)
    BY <1>1 DEF Recver, TypeOK
  <2>2. wire' \in [End -> Seq(Event)]  BY <1>1, <2>1 DEF Recver, TypeOK
  <2>3. RecverNext(e) \in RecverState  BY DEF RecverNext, RecverState
  <2>4. CASE RecverMore(e)
    <3>1. openSlots' \in [End -> Int]  BY <2>1, <2>4 DEF RecverMore, TypeOK, Event
    <3>2. emitter' \in [End -> [Emitter -> EmitterState]]
      BY <2>4 DEF RecverMore, TypeOK, EmitterState
    <3> QED  BY <1>1, <2>2, <2>3, <2>4, <3>1, <3>2 DEF Recver, RecverMore, TypeOK
  <2>5. CASE RecverOverflow(e)
    BY <1>1, <2>2, <2>5 DEF Recver, RecverOverflow, TypeOK, RecverState
  <2>6. CASE RecverQueue(e)
    <3>1. Head(wire[e]).name \in EventName  BY <2>1, <2>6 DEF RecverQueue, Event
    <3>2. inputQueue' \in [End -> Seq(EventName)]
      BY <2>6, <3>1 DEF RecverQueue, Queued, TypeOK
    <3>3. recver' \in [End -> RecverState] /\ chan' \in [End -> ChanState]
      BY <2>3, <2>6 DEF RecverQueue, TypeOK, RecverState, ChanState
    <3> QED  BY <1>1, <2>2, <2>6, <3>2, <3>3 DEF Recver, RecverQueue, TypeOK
  <2> QED  BY <1>1, <2>4, <2>5, <2>6 DEF Recver
<1>2. CASE SetOnCloseIf(e)
  BY <1>2 DEF SetOnCloseIf, TypeOK
<1>3. CASE Close(e)
  BY <1>3 DEF Close, TypeOK, RecverState, ChanState
<1>4. CASE CloseReturns(e)
  BY <1>4 DEF CloseReturns, TypeOK, ChanState
<1>5. CASE Unroutable(e)
  BY <1>5 DEF Unroutable, TypeOK
<1>6. CASE LoseRemote(e)
  BY <1>6 DEF LoseRemote, TypeOK
<1> QED  BY <1>1, <1>2, <1>3, <1>4, <1>5, <1>6 DEF ChannelStep

\* Every variable keeps to its type, whatever the constants: in particular what
\* _request_data asks for is never negative, since recv only calls it when less
\* than half of the queue is reserved.
THEOREM TypeCorrect == Spec => []TypeOK
<1>1. Init => TypeOK
  BY InitTypeOK
<1>2. TypeOK /\ [Next]_vars => TypeOK'
  <2>1. CASE Next
    BY <2>1, EmitterTypeOK, ReaderTypeOK, ChannelTypeOK DEF Next
  <2>2. CASE UNCHANGED vars
    BY <2>2 DEF vars, emitVars, readVars, closeVars, TypeOK
  <2> QED  BY <2>1, <2>2
<1> QED  BY <1>1, <1>2, PTL DEF Spec

-----------------------------------------------------------------------------
(***************************************************************************)
(* What appending an event to a wire, and taking one off it, does to the   *)
(* events and to the credit on it.                                         *)
(***************************************************************************)
\* A wire with no _zpc_more on it, and one with exactly one.
LEMMA WireWithoutMore ==
  ASSUME NEW w \in Seq(Event), MoreAt(w) = {}
  PROVE  OneMore(w) /\ CreditOn(w) = 0 /\ EventsOn(w) = Len(w)
<1>1. Cardinality(MoreAt(w)) = 0  BY FS_EmptySet
<1> QED  BY <1>1 DEF OneMore, CreditOn, EventsOn

LEMMA WireWithOneMore ==
  ASSUME NEW w \in Seq(Event), OneMore(w), NEW i \in MoreAt(w)
  PROVE  CreditOn(w) = w[i].slots /\ EventsOn(w) = Len(w) - 1 /\ Len(w) >= 1
<1>1. MoreAt(w) = {i}  BY DEF OneMore
<1>2. Cardinality(MoreAt(w)) = 1  BY <1>1, FS_Singleton
<1>3. (CHOOSE j \in MoreAt(w) : TRUE) = i  BY <1>1
<1>4. i \in 1..Len(w)  BY DEF MoreAt
<1> QED  BY <1>1, <1>2, <1>3, <1>4 DEF CreditOn, EventsOn

LEMMA WireTypes ==
  ASSUME NEW w \in Seq(Event), OneMore(w)
  PROVE  EventsOn(w) \in Nat /\ CreditOn(w) \in Nat
<1>1. CASE MoreAt(w) = {}
  BY <1>1, WireWithoutMore
<1>2. ASSUME NEW i \in MoreAt(w) PROVE EventsOn(w) \in Nat /\ CreditOn(w) \in Nat
  <2>1. w[i] \in Event  BY DEF MoreAt
  <2>2. w[i].slots \in Nat  BY <2>1 DEF Event
  <2>3. CreditOn(w) = w[i].slots /\ EventsOn(w) = Len(w) - 1 /\ Len(w) >= 1
    BY WireWithOneMore
  <2>4. Len(w) \in Nat  OBVIOUS
  <2> QED  BY <2>2, <2>3, <2>4
<1> QED  BY <1>1, <1>2

LEMMA AppendEvent ==
  ASSUME NEW w \in Seq(Event), OneMore(w), NEW event \in Event, event.name # "more"
  PROVE  LET v == Append(w, event) IN
         /\ MoreAt(v) = MoreAt(w) /\ OneMore(v)
         /\ CreditOn(v) = CreditOn(w) /\ EventsOn(v) = EventsOn(w) + 1
<1> DEFINE v == Append(w, event)
<1>1. /\ v \in Seq(Event) /\ Len(v) = Len(w) + 1 /\ v[Len(w) + 1] = event
      /\ \A i \in 1..Len(w) : v[i] = w[i]
  OBVIOUS
<1>2. MoreAt(v) = MoreAt(w)
  BY <1>1 DEF MoreAt
<1>3. OneMore(v)
  BY <1>2 DEF OneMore
<1>4. CASE MoreAt(w) = {}
  BY <1>1, <1>2, <1>3, <1>4, WireWithoutMore
<1>5. ASSUME NEW i \in MoreAt(w)
      PROVE  CreditOn(v) = CreditOn(w) /\ EventsOn(v) = EventsOn(w) + 1
  <2>1. v[i] = w[i]  BY <1>1 DEF MoreAt
  <2>2. CreditOn(v) = v[i].slots /\ EventsOn(v) = Len(v) - 1
    BY <1>1, <1>2, <1>3, WireWithOneMore
  <2>3. CreditOn(w) = w[i].slots /\ EventsOn(w) = Len(w) - 1
    BY WireWithOneMore
  <2> QED  BY <1>1, <2>1, <2>2, <2>3
<1> QED  BY <1>2, <1>3, <1>4, <1>5

LEMMA AppendMore ==
  ASSUME NEW w \in Seq(Event), MoreAt(w) = {}, NEW n \in Nat
  PROVE  LET v == Append(w, MoreEvent(n)) IN
         /\ MoreAt(v) # {} /\ OneMore(v)
         /\ CreditOn(v) = n /\ EventsOn(v) = EventsOn(w)
<1> DEFINE v == Append(w, MoreEvent(n))
<1>1. MoreEvent(n) \in Event /\ MoreEvent(n).name = "more" /\ MoreEvent(n).slots = n
  BY DEF MoreEvent, Event
<1>2. /\ v \in Seq(Event) /\ Len(v) = Len(w) + 1 /\ v[Len(w) + 1] = MoreEvent(n)
      /\ \A i \in 1..Len(w) : v[i] = w[i]
  BY <1>1
<1>3. MoreAt(v) = {Len(w) + 1}
  BY <1>1, <1>2 DEF MoreAt
<1>4. OneMore(v)
  BY <1>3 DEF OneMore
<1>5. CreditOn(v) = v[Len(w) + 1].slots /\ EventsOn(v) = Len(v) - 1
  BY <1>2, <1>3, <1>4, WireWithOneMore
<1> QED  BY <1>1, <1>2, <1>3, <1>4, <1>5, WireWithoutMore

LEMMA TailAfterEvent ==
  ASSUME NEW w \in Seq(Event), OneMore(w), w # <<>>, Head(w).name # "more"
  PROVE  /\ MoreAt(Tail(w)) = {} <=> MoreAt(w) = {}
         /\ OneMore(Tail(w))
         /\ CreditOn(Tail(w)) = CreditOn(w) /\ EventsOn(Tail(w)) = EventsOn(w) - 1
<1> DEFINE v == Tail(w)
<1>1. /\ v \in Seq(Event) /\ Len(v) = Len(w) - 1 /\ Head(w) = w[1]
      /\ \A i \in 1..Len(v) : v[i] = w[i + 1]
  OBVIOUS
<1>2. \A i \in 1..Len(v) : i \in MoreAt(v) <=> i + 1 \in MoreAt(w)
  BY <1>1 DEF MoreAt
<1>3. \A i \in MoreAt(w) : i - 1 \in MoreAt(v)
  BY <1>1, <1>2 DEF MoreAt
<1>4. OneMore(v)
  BY <1>1, <1>2 DEF OneMore, MoreAt
<1>5. CASE MoreAt(w) = {}
  <2>1. MoreAt(v) = {}  BY <1>2, <1>5 DEF MoreAt
  <2> QED  BY <1>1, <1>5, <2>1, <1>4, WireWithoutMore
<1>6. ASSUME NEW i \in MoreAt(w)
      PROVE  /\ MoreAt(v) # {}
             /\ CreditOn(v) = CreditOn(w) /\ EventsOn(v) = EventsOn(w) - 1
  <2>1. i - 1 \in MoreAt(v)  BY <1>3
  <2>2. v[i - 1] = w[i]  BY <1>1, <2>1 DEF MoreAt
  <2>3. CreditOn(v) = v[i - 1].slots /\ EventsOn(v) = Len(v) - 1
    BY <1>1, <1>4, <2>1, WireWithOneMore
  <2>4. CreditOn(w) = w[i].slots /\ EventsOn(w) = Len(w) - 1
    BY WireWithOneMore
  <2> QED  BY <1>1, <2>1, <2>2, <2>3, <2>4
<1> QED  BY <1>4, <1>5, <1>6

LEMMA TailAfterMore ==
  ASSUME NEW w \in Seq(Event), OneMore(w), w # <<>>, Head(w).name = "more"
  PROVE  /\ MoreAt(w) # {} /\ MoreAt(Tail(w)) = {} /\ OneMore(Tail(w))
         /\ CreditOn(w) = Head(w).slots /\ CreditOn(Tail(w)) = 0
         /\ EventsOn(Tail(w)) = EventsOn(w)
<1> DEFINE v == Tail(w)
<1>1. /\ v \in Seq(Event) /\ Len(v) = Len(w) - 1 /\ Head(w) = w[1] /\ Len(w) >= 1
      /\ \A i \in 1..Len(v) : v[i] = w[i + 1]
  OBVIOUS
<1>2. 1 \in MoreAt(w)
  BY <1>1 DEF MoreAt
<1>3. MoreAt(v) = {}
  <2> SUFFICES ASSUME NEW i \in MoreAt(v) PROVE FALSE  OBVIOUS
  <2>1. i + 1 \in MoreAt(w)  BY <1>1 DEF MoreAt
  <2>2. i \in 1..Len(v)  BY DEF MoreAt
  <2> QED  BY <1>2, <2>1, <2>2 DEF OneMore
<1>4. CreditOn(w) = w[1].slots /\ EventsOn(w) = Len(w) - 1
  BY <1>2, WireWithOneMore
<1> QED  BY <1>1, <1>2, <1>3, <1>4, WireWithoutMore

-----------------------------------------------------------------------------
(***************************************************************************)
(* The invariant.                                                          *)
(***************************************************************************)
\* The two ends, seen from one of them.
LEMMA TwoEnds ==
  \A e \in End : Peer(e) \in End /\ Peer(Peer(e)) = e /\ Peer(e) # e /\ End = {e, Peer(e)}
  BY DEF Peer, End

\* How many of the greenlets of an end are sending, when there is but one.
LEMMA SoleSending ==
  ASSUME NEW g, Emitter = {g}, NEW f
  PROVE  Cardinality({h \in Emitter : f[h] = "sending"})
           = IF f[g] = "sending" THEN 1 ELSE 0
<1>1. CASE f[g] = "sending"
  <2>1. {h \in Emitter : f[h] = "sending"} = {g}  BY <1>1
  <2> QED  BY <1>1, <2>1, FS_Singleton
<1>2. CASE f[g] # "sending"
  <2>1. {h \in Emitter : f[h] = "sending"} = {}  BY <1>2
  <2> QED  BY <1>2, <2>1, FS_EmptySet
<1> QED  BY <1>1, <1>2

LEMMA SendingNow ==
  ASSUME NEW g, Emitter = {g}
  PROVE  /\ \A e : Sending(e) = IF emitter[e][g] = "sending" THEN 1 ELSE 0
         /\ \A e : Sending(e)' = IF emitter'[e][g] = "sending" THEN 1 ELSE 0
  BY SoleSending DEF Sending, At

LEMMA SendingKept ==
  ASSUME UNCHANGED emitter
  PROVE  \A x \in End : Sending(x)' = Sending(x)
  BY DEF Sending, At

\* The wires of a state of the invariant, and what is on them.
LEMMA WiresOfInv ==
  ASSUME TypeOK, Inv
  PROVE  \A e \in End : /\ wire[e] \in Seq(Event) /\ OneMore(wire[e])
                        /\ EventsOn(wire[e]) \in Nat /\ CreditOn(wire[e]) \in Nat
  BY WireTypes DEF Inv, InvMore, TypeOK

LEMMA PlacesOfInv ==
  ASSUME TypeOK, Inv, NEW g, Emitter = {g}
  PROVE  \A e \in End : Outstanding(e) \in Nat /\ Promised(e) \in Nat
<1>1. \A e \in End : Sending(e) \in Nat
  <2> TAKE e \in End
  <2>1. Sending(e) = 0 \/ Sending(e) = 1  BY SendingNow
  <2> QED  BY <2>1
<1>2. \A e \in End : Len(inputQueue[e]) \in Nat /\ asking[e] \in Nat  BY DEF TypeOK
<1>3. \A e \in End : EventsOn(wire[e]) \in Nat /\ CreditOn(wire[e]) \in Nat
  BY WiresOfInv
<1>4. \A e \in End : Outstanding(e) \in Nat
  BY <1>1, <1>2, <1>3, TwoEnds DEF Outstanding
<1>5. \A e \in End : Promised(e) \in Nat
  BY <1>2, <1>3, TwoEnds DEF Promised
<1> QED  BY <1>4, <1>5

\* The parts of the invariant that a step leaves alone.
LEMMA BoundKept ==
  ASSUME Inv, UNCHANGED <<reserved, openSlots, recver, chan>>
  PROVE  \A x \in End : InvBound(x)'
  BY DEF Inv, InvBound

LEMMA MoreKept ==
  ASSUME Inv, UNCHANGED <<wire, reader, asking>>
  PROVE  \A x \in End : InvMore(x)'
  BY DEF Inv, InvMore, Promised

LEMMA MoreKeptOn ==
  ASSUME Inv, UNCHANGED <<reader, asking>>,
         \A x \in End : /\ OneMore(wire'[x]) /\ MoreAt(wire'[x]) = MoreAt(wire[x])
                        /\ CreditOn(wire'[x]) = CreditOn(wire[x])
  PROVE  \A x \in End : InvMore(x)' /\ Promised(x)' = Promised(x)
<1>1. \A x \in End : Promised(x)' = Promised(x)
  BY TwoEnds DEF Promised
<1> QED  BY <1>1, TwoEnds DEF Inv, InvMore

LEMMA WaitKept ==
  ASSUME Inv, UNCHANGED <<openSlots, emitter>>
  PROVE  \A x \in End : InvWait(x)'
  BY DEF Inv, InvWait, At

LEMMA AccountKept ==
  ASSUME Inv, UNCHANGED <<reserved, openSlots, lost, chan>>,
         \A x \in End : Outstanding(x)' + Promised(x)' = Outstanding(x) + Promised(x),
         \A x \in End : /\ Outstanding(x)' \in Int /\ Promised(x)' \in Int
                        /\ Outstanding(x) \in Int /\ Promised(x) \in Int,
         TypeOK
  PROVE  \A x \in End : InvAccount(x)' /\ InvExact(x)'
  BY TwoEnds DEF Inv, InvAccount, InvExact, Healthy, TypeOK

\* What delivering an event other than _zpc_more does to the wires.
LEMMA EventDelivered ==
  ASSUME TypeOK, Inv, NEW e \in End, NEW name \in EventName, Deliver(e, AppEvent(name))
  PROVE  /\ wire'[Peer(e)] = wire[Peer(e)]
         /\ EventsOn(wire'[e]) = EventsOn(wire[e]) + 1
         /\ \A x \in End : /\ OneMore(wire'[x]) /\ MoreAt(wire'[x]) = MoreAt(wire[x])
                           /\ CreditOn(wire'[x]) = CreditOn(wire[x])
<1>1. AppEvent(name) \in Event /\ AppEvent(name).name # "more"
  BY DEF AppEvent, Event, EventName
<1>2. wire'[e] = Append(wire[e], AppEvent(name)) /\ wire'[Peer(e)] = wire[Peer(e)]
  BY TwoEnds DEF Deliver, TypeOK
<1>3. /\ OneMore(wire'[e]) /\ MoreAt(wire'[e]) = MoreAt(wire[e])
      /\ CreditOn(wire'[e]) = CreditOn(wire[e])
      /\ EventsOn(wire'[e]) = EventsOn(wire[e]) + 1
  BY <1>1, <1>2, WiresOfInv, AppendEvent
<1> QED  BY <1>2, <1>3, WiresOfInv, TwoEnds

\* Taking a slot, or giving up, keeps the invariant.
LEMMA SpendInv ==
  ASSUME TypeOK, Inv, NEW g, Emitter = {g}, NEW e \in End,
         emitter[e][g] \in {"idle", "woken"}, openSlots[e] > 0, Spend(e, g),
         UNCHANGED <<readVars, closeVars, inputQueue, wire>>
  PROVE  Inv'
<1> DEFINE p == Peer(e)
<1> USE DEF readVars, closeVars
<1>1. p \in End /\ Peer(p) = e /\ p # e /\ End = {e, p}
  BY TwoEnds
<1>2. /\ \A x \in End : InvMore(x)'
      /\ \A x \in End : Promised(x)' = Promised(x)
  BY MoreKept DEF Promised
<1>3. \A x \in End : Outstanding(x) \in Nat /\ Promised(x) \in Nat
  BY PlacesOfInv
<1>4. CASE lost[e] \/ chan[e] = "closed"
  <2>1. Move(e, g, "idle") /\ UNCHANGED openSlots
    BY <1>4 DEF Spend
  <2>2. emitter'[p] = emitter[p] /\ emitter'[e][g] = "idle"
    BY <1>1, <2>1 DEF Move, TypeOK
  <2>a. \A x \in End : Sending(x)' = Sending(x)
    BY <1>1, <2>2, SendingNow
  <2>3. \A x \in End : Outstanding(x)' = Outstanding(x)
    BY <2>a, TwoEnds DEF Outstanding
  <2>4. \A x \in End : InvBound(x)' /\ InvAccount(x)' /\ InvExact(x)'
    BY <1>2, <1>3, <2>1, <2>3, BoundKept, AccountKept
  <2>5. \A x \in End : InvWait(x)'
    BY <1>1, <2>1, <2>2 DEF Inv, InvWait, At
  <2> QED  BY <1>2, <2>4, <2>5 DEF Inv
<1>5. CASE ~lost[e] /\ chan[e] # "closed"
  <2>1. Move(e, g, "sending") /\ openSlots' = [openSlots EXCEPT ![e] = @ - 1]
    BY <1>5 DEF Spend
  <2>2. emitter'[p] = emitter[p] /\ emitter'[e][g] = "sending"
    BY <1>1, <2>1 DEF Move, TypeOK
  <2>3. openSlots'[p] = openSlots[p] /\ openSlots'[e] = openSlots[e] - 1
    BY <1>1, <2>1 DEF TypeOK
  <2>a. Sending(p)' = Sending(p) /\ Sending(e)' = 1 /\ Sending(e) = 0
    BY <1>1, <2>2, SendingNow
  <2>b. Len(inputQueue[p]) \in Nat /\ EventsOn(wire[p]) \in Nat
    BY <1>1, WiresOfInv DEF TypeOK
  <2>4. Outstanding(e)' = Outstanding(e) /\ Outstanding(p)' = Outstanding(p) + 1
    BY <1>1, <2>a, <2>b DEF Outstanding
  <2>5. \A x \in End : InvBound(x)'
    BY <1>1, <2>3 DEF Inv, InvBound, TypeOK
  <2>6. InvAccount(e)' /\ InvExact(e)'
    BY <1>1, <1>2, <2>3, <2>4 DEF Inv, InvAccount, InvExact, Healthy
  <2>c. openSlots[e] \in Int /\ reserved[p] \in Int /\ UNCHANGED <<lost, chan, reserved>>
    BY <1>1 DEF TypeOK
  <2>7. InvAccount(p)' /\ InvExact(p)'
    <3>1. Outstanding(p) + Promised(p) + openSlots[e] <= reserved[p]
      BY <1>1, <1>5 DEF Inv, InvAccount
    <3>2. InvAccount(p)'
      BY <1>1, <1>2, <1>3, <1>5, <2>3, <2>4, <2>c, <3>1 DEF InvAccount
    <3>3. Healthy => reserved[p] = Outstanding(p) + Promised(p) + openSlots[e]
      BY <1>1 DEF Inv, InvExact
    <3>4. Healthy' <=> Healthy
      BY <2>c DEF Healthy
    <3>5. InvExact(p)'
      BY <1>1, <1>2, <1>3, <2>3, <2>4, <2>c, <3>3, <3>4 DEF InvExact
    <3> QED  BY <3>2, <3>5
  <2>8. \A x \in End : InvWait(x)'
    BY <1>1, <2>2, <2>3 DEF Inv, InvWait, At
  <2> QED  BY <1>1, <1>2, <2>5, <2>6, <2>7, <2>8 DEF Inv
<1> QED  BY <1>4, <1>5

\* A step of the emitting greenlet keeps the invariant.
LEMMA EmitterInv ==
  ASSUME TypeOK, Inv, NEW g, Emitter = {g}, TimedEmit = FALSE, NEW e \in End,
         EmitterStep(e, g)
  PROVE  Inv'
<1> DEFINE p == Peer(e)
<1> USE DEF readVars, closeVars
<1>1. p \in End /\ Peer(p) = e /\ p # e /\ End = {e, p}
  BY TwoEnds
<1>2. \A x \in End : Outstanding(x) \in Nat /\ Promised(x) \in Nat
  BY PlacesOfInv
<1>3. CASE EmitEvent(e, g)
  <2>1. CASE MustWait(e) /\ Move(e, g, "waiting") /\ UNCHANGED openSlots
    <3>1. emitter'[p] = emitter[p] /\ emitter'[e][g] = "waiting" /\ emitter[e][g] = "idle"
      BY <1>1, <1>3, <2>1 DEF EmitEvent, Move, At, TypeOK
    <3>2. /\ \A x \in End : InvMore(x)' /\ InvBound(x)'
          /\ \A x \in End : Promised(x)' = Promised(x)
      BY <1>3, <2>1, MoreKept, BoundKept DEF EmitEvent, Promised
    <3>a. \A x \in End : Sending(x)' = Sending(x)
      BY <1>1, <3>1, SendingNow
    <3>3. \A x \in End : Outstanding(x)' = Outstanding(x)
      BY <1>3, <3>a, TwoEnds DEF EmitEvent, Outstanding
    <3>4. \A x \in End : InvAccount(x)' /\ InvExact(x)'
      BY <1>2, <1>3, <2>1, <3>2, <3>3, AccountKept DEF EmitEvent
    <3>5. \A x \in End : InvWait(x)'
      BY <1>1, <2>1, <3>1 DEF Inv, InvWait, At, MustWait
    <3> QED  BY <3>2, <3>4, <3>5 DEF Inv
  <2>2. CASE ~MustWait(e) /\ Spend(e, g)
    <3>1. openSlots[e] > 0
      BY <2>2 DEF MustWait, Inv, InvBound, TypeOK
    <3> QED  BY <1>3, <2>2, <3>1, SpendInv DEF EmitEvent, At
  <2> QED  BY <1>3, <2>1, <2>2 DEF EmitEvent
<1>4. CASE StopWaiting(e, g)
  <2>1. emitter[e][g] = "woken" /\ openSlots[e] > 0
    BY <1>4 DEF StopWaiting, At, Inv, InvWait
  <2> QED  BY <1>4, <2>1, SpendInv DEF StopWaiting
<1>5. CASE HandOff(e, g)
  <2>1. PICK name \in EventName : Deliver(p, AppEvent(name))
    BY <1>5 DEF HandOff
  <2>2. emitter'[p] = emitter[p] /\ emitter'[e][g] = "idle" /\ emitter[e][g] = "sending"
    BY <1>1, <1>5 DEF HandOff, Move, At, TypeOK
  <2>3. Sending(p)' = Sending(p) /\ Sending(e)' = 0 /\ Sending(e) = 1
    BY <1>1, <2>2, SendingNow
  <2>4. \A x \in End : InvMore(x)' /\ Promised(x)' = Promised(x)
    BY <1>1, <1>5, <2>1, EventDelivered, MoreKeptOn DEF HandOff
  <2>5. wire'[e] = wire[e] /\ EventsOn(wire'[p]) = EventsOn(wire[p]) + 1
    BY <1>1, <2>1, EventDelivered
  <2>6. Len(inputQueue[p]) \in Nat /\ EventsOn(wire[p]) \in Nat
    BY <1>1, WiresOfInv DEF TypeOK
  <2>7. Outstanding(e)' = Outstanding(e) /\ Outstanding(p)' = Outstanding(p)
    BY <1>1, <1>5, <2>3, <2>5, <2>6 DEF HandOff, Outstanding
  <2>8. \A x \in End : InvBound(x)' /\ InvAccount(x)' /\ InvExact(x)'
    BY <1>1, <1>2, <1>5, <2>4, <2>7, BoundKept, AccountKept DEF HandOff
  <2>9. \A x \in End : InvWait(x)'
    BY <1>1, <1>5, <2>2 DEF HandOff, Inv, InvWait, At
  <2> QED  BY <2>4, <2>8, <2>9 DEF Inv
<1>6. CASE EmitInterrupted(e, g)
  <2>1. emitter'[p] = emitter[p] /\ emitter'[e][g] = "idle" /\ lost[e]
    BY <1>1, <1>6 DEF EmitInterrupted, Move, TypeOK
  <2>2. Sending(p)' = Sending(p) /\ Sending(e)' = 0
    BY <1>1, <2>1, SendingNow
  <2>3. /\ \A x \in End : InvMore(x)' /\ Promised(x)' = Promised(x)
        /\ wire'[e] = wire[e]
        /\ EventsOn(wire'[p]) \in {EventsOn(wire[p]), EventsOn(wire[p]) + Sending(e)}
    <3>1. CASE UNCHANGED wire
      BY <1>1, <1>6, <3>1, WiresOfInv, MoreKeptOn DEF EmitInterrupted
    <3>2. ASSUME At(e, g, "sending"), NEW name \in EventName, Deliver(p, AppEvent(name))
          PROVE  <2>3!:
      <4>1. Sending(e) = 1
        BY <3>2, SendingNow DEF At
      <4> QED  BY <1>1, <1>6, <3>2, <4>1, EventDelivered, MoreKeptOn DEF EmitInterrupted
    <3> QED  BY <1>6, <3>1, <3>2 DEF EmitInterrupted
  <2>a. Sending(e) \in Nat
    BY SendingNow
  <2>4. Len(inputQueue[p]) \in Nat /\ EventsOn(wire[p]) \in Nat /\ Sending(e) \in Nat
    BY <1>1, <2>a, WiresOfInv DEF TypeOK
  <2>5. Outstanding(e)' = Outstanding(e)
    BY <1>1, <1>6, <2>2, <2>3 DEF EmitInterrupted, Outstanding
  <2>6. Outstanding(p)' \in Int /\ Outstanding(p)' <= Outstanding(p)
    BY <1>1, <1>6, <2>2, <2>3, <2>4 DEF EmitInterrupted, Outstanding
  <2>7. /\ openSlots'[p] = openSlots[p]
        /\ openSlots'[e] \in {openSlots[e], openSlots[e] + 1}
        /\ UNCHANGED <<reserved, recver, lost, chan>>
    BY <1>1, <1>6 DEF EmitInterrupted, TypeOK
  <2>8. \A x \in End : InvBound(x)'
    BY <1>1, <2>7 DEF Inv, InvBound, TypeOK
  <2>9. ~Healthy /\ ~Healthy'
    BY <2>1, <2>7 DEF Healthy
  <2>10. InvAccount(e)' /\ InvExact(e)'
    BY <1>1, <2>3, <2>5, <2>7, <2>9 DEF Inv, InvAccount, InvExact
  <2>11. reserved[p] \in Int
    BY <1>1 DEF TypeOK
  <2>12. InvAccount(p)' /\ InvExact(p)'
    BY <1>1, <1>2, <2>1, <2>3, <2>6, <2>7, <2>9, <2>11 DEF Inv, InvAccount, InvExact
  <2>13. \A x \in End : InvWait(x)'
    BY <1>1, <2>1, <2>7 DEF Inv, InvWait, At
  <2> QED  BY <1>1, <2>3, <2>8, <2>10, <2>12, <2>13 DEF Inv
<1> QED  BY <1>3, <1>4, <1>5, <1>6 DEF EmitterStep

\* What emitting a _zpc_more does to the wires: no other is under way, so the
\* credit on the wire is what it carries.
LEMMA MoreDelivered ==
  ASSUME TypeOK, Inv, NEW e \in End, asking[e] > 0,
         Deliver(Peer(e), MoreEvent(asking[e]))
  PROVE  LET p == Peer(e) IN
         /\ wire'[e] = wire[e] /\ EventsOn(wire'[p]) = EventsOn(wire[p])
         /\ OneMore(wire'[p]) /\ MoreAt(wire'[p]) # {}
         /\ CreditOn(wire'[p]) = asking[e] /\ CreditOn(wire[p]) = 0
<1> DEFINE p == Peer(e)
<1>1. wire'[p] = Append(wire[p], MoreEvent(asking[e])) /\ wire'[e] = wire[e]
  BY TwoEnds DEF Deliver, TypeOK
<1>2. MoreAt(wire[p]) = {} /\ asking[e] \in Nat /\ wire[p] \in Seq(Event)
  BY TwoEnds DEF Inv, InvMore, TypeOK
<1> QED  BY <1>1, <1>2, AppendMore, WireWithoutMore

\* A step of the reader keeps the invariant.
LEMMA ReaderInv ==
  ASSUME TypeOK, Inv, NEW g, Emitter = {g}, NEW e \in End, ReaderStep(e)
  PROVE  Inv'
<1> DEFINE p == Peer(e)
<1> USE ChannelAssumption DEF emitVars, closeVars
<1>1. p \in End /\ Peer(p) = e /\ p # e /\ End = {e, p}
  BY TwoEnds
<1>2. \A x \in End : Outstanding(x) \in Nat /\ Promised(x) \in Nat
  BY PlacesOfInv
<1>3. \A x \in End : reserved[x] \in Int /\ openSlots[x] \in Int /\ asking[x] \in Nat
  BY DEF TypeOK
<1>4. \A x \in End : InqueueSize[x] \in Nat \ {0}
  OBVIOUS
<1>5. ASSUME UNCHANGED <<emitter, inputQueue, wire>>
      PROVE  \A x \in End : Outstanding(x)' = Outstanding(x)
  <2>1. \A x \in End : Sending(x)' = Sending(x)
    BY <1>5, SendingKept
  <2> QED  BY <1>5, <2>1, TwoEnds DEF Outstanding
<1>6. CASE Recv(e) /\ verbose[e] /\ chan[e] # "closed" /\ NeedsMore(e)
  <2>1. RequestData(e) /\ UNCHANGED <<emitVars, closeVars, inputQueue, wire, sawDone>>
    BY <1>6 DEF Recv
  <2>2. reader[e] = "idle" /\ asking[e] = 0
    BY <1>3, <1>6 DEF Recv, Inv, InvMore
  <2>3. reserved'[p] = reserved[p] /\ reserved'[e] = InqueueSize[e]
    BY <1>1, <1>3, <1>4, <2>1, SMTT(30) DEF RequestData, MoreSlots, TypeOK
  <2>4. Outstanding(e) + Promised(e) <= reserved[e] /\ openSlots[p] >= 0
    BY <1>1, <1>2, <1>3 DEF Inv, InvBound, InvAccount
  <2>5. reserved[e] < InqueueSize[e] \div 2 /\ reserved[e] >= 0
    BY <1>2, <1>3, <1>6, <2>4 DEF NeedsMore
  <2>6. Promised(e) = 0
    <3>1. Promised(e) > 0 => Promised(e) > InqueueSize[e] - (InqueueSize[e] \div 2)
      BY DEF Inv, InvMore
    <3> QED  BY <1>2, <1>3, <1>4, <2>4, <2>5, <3>1
  <2>7. MoreAt(wire[p]) = {}
    BY <1>1, <2>6 DEF Inv, InvMore
  <2>8. \A x \in End : Outstanding(x)' = Outstanding(x)
    BY <1>5, <2>1 DEF emitVars
  <2>9. \A x \in End : InvBound(x)'
    BY <1>1, <1>3, <1>4, <2>1, <2>3 DEF Inv, InvBound
  <2>10. \A x \in End : InvWait(x)'
    BY <2>1, WaitKept
  <2>11. CASE lost[e]
    <3>1. UNCHANGED <<reader, asking>>
      BY <2>1, <2>11 DEF RequestData
    <3>2. \A x \in End : InvMore(x)' /\ Promised(x)' = Promised(x)
      BY <2>1, <3>1, MoreKept DEF Promised
    <3>3. ~Healthy /\ ~Healthy'
      BY <2>1, <2>11 DEF Healthy
    <3>4. InvAccount(e)' /\ InvExact(e)'
      BY <1>1, <1>2, <1>3, <1>4, <2>1, <2>3, <2>5, <2>8, <3>2, <3>3
      DEF Inv, InvAccount, InvExact
    <3>5. InvAccount(p)' /\ InvExact(p)'
      BY <1>1, <2>1, <2>3, <2>8, <3>2, <3>3 DEF Inv, InvAccount, InvExact
    <3> QED  BY <1>1, <2>9, <2>10, <3>2, <3>4, <3>5 DEF Inv
  <2>12. CASE ~lost[e]
    <3>1. /\ asking'[e] = InqueueSize[e] - reserved[e] /\ asking'[p] = asking[p]
          /\ reader'[e] = "requesting" /\ reader'[p] = reader[p]
      BY <1>1, <2>1, <2>12 DEF RequestData, MoreSlots, TypeOK
    <3>2. CreditOn(wire[p]) = 0
      BY <1>1, <2>7, WiresOfInv, WireWithoutMore
    <3>3. /\ Promised(e)' = InqueueSize[e] - reserved[e]
          /\ Promised(p)' = Promised(p)
      BY <1>1, <1>3, <1>4, <2>1, <3>1, <3>2 DEF Promised
    <3>4. InvMore(e)'
      BY <1>1, <1>3, <1>4, <2>1, <2>5, <2>7, <3>1, <3>3 DEF Inv, InvMore
    <3>5. InvMore(p)'
      BY <1>1, <2>1, <3>1, <3>3 DEF Inv, InvMore
    <3>6. InvAccount(e)' /\ InvExact(e)'
      BY <1>1, <1>2, <1>3, <1>4, <2>1, <2>3, <2>6, <2>8, <3>3
      DEF Inv, InvAccount, InvExact, Healthy
    <3>7. InvAccount(p)' /\ InvExact(p)'
      BY <1>1, <2>1, <2>3, <2>8, <3>3 DEF Inv, InvAccount, InvExact, Healthy
    <3> QED  BY <1>1, <2>9, <2>10, <3>4, <3>5, <3>6, <3>7 DEF Inv
  <2> QED  BY <2>11, <2>12
<1>7. CASE Recv(e) /\ ~(verbose[e] /\ chan[e] # "closed" /\ NeedsMore(e))
  <2>1. /\ UNCHANGED <<emitVars, closeVars, inputQueue, wire, reserved, asking>>
        /\ reader'[e] = "getting" /\ reader'[p] = reader[p] /\ reader[e] = "idle"
    BY <1>1, <1>7 DEF Recv, TypeOK
  <2>2. \A x \in End : Outstanding(x)' = Outstanding(x) /\ Promised(x)' = Promised(x)
    BY <1>5, <2>1 DEF emitVars, Promised
  <2>3. \A x \in End : InvBound(x)' /\ InvAccount(x)' /\ InvExact(x)' /\ InvWait(x)'
    BY <1>2, <2>1, <2>2, BoundKept, AccountKept, WaitKept
  <2>4. \A x \in End : InvMore(x)'
    BY <1>1, <1>3, <2>1, <2>2 DEF Inv, InvMore
  <2> QED  BY <2>3, <2>4 DEF Inv
<1>8. CASE RequestSent(e)
  <2>1. asking[e] > 0 /\ Deliver(p, MoreEvent(asking[e]))
    BY <1>8 DEF RequestSent, Inv, InvMore
  <2>2. /\ asking'[e] = 0 /\ asking'[p] = asking[p]
        /\ reader'[e] = "getting" /\ reader'[p] = reader[p]
    BY <1>1, <1>8 DEF RequestSent, TypeOK
  <2>3. /\ wire'[e] = wire[e] /\ EventsOn(wire'[p]) = EventsOn(wire[p])
        /\ OneMore(wire'[p]) /\ MoreAt(wire'[p]) # {}
        /\ CreditOn(wire'[p]) = asking[e] /\ CreditOn(wire[p]) = 0
    BY <2>1, MoreDelivered
  <2>4. \A x \in End : Sending(x)' = Sending(x)
    BY <1>8, SendingKept DEF RequestSent, emitVars
  <2>5. \A x \in End : Outstanding(x)' = Outstanding(x)
    BY <1>1, <1>8, <2>3, <2>4 DEF RequestSent, Outstanding
  <2>6. \A x \in End : Promised(x)' = Promised(x)
    BY <1>1, <1>3, <2>2, <2>3 DEF Promised
  <2>7. \A x \in End : InvBound(x)' /\ InvAccount(x)' /\ InvExact(x)' /\ InvWait(x)'
    BY <1>2, <1>8, <2>5, <2>6, BoundKept, AccountKept, WaitKept
    DEF RequestSent, emitVars
  <2>8. Promised(e) > 0
    BY <1>1, <1>3, <2>1, <2>3 DEF Promised
  <2>9. InvMore(e)'
    BY <1>1, <2>2, <2>3, <2>6, <2>8 DEF Inv, InvMore
  <2>10. InvMore(p)'
    BY <1>1, <2>2, <2>3, <2>6 DEF Inv, InvMore
  <2> QED  BY <1>1, <2>7, <2>9, <2>10 DEF Inv
<1>9. CASE GetEvent(e)
  <2>1. /\ reserved'[e] = reserved[e] - 1 /\ reserved'[p] = reserved[p]
        /\ inputQueue'[p] = inputQueue[p]
        /\ inputQueue[e] \in Seq(EventName) /\ inputQueue[e] # <<>>
        /\ inputQueue'[e] = Tail(inputQueue[e])
        /\ reader'[e] = "idle" /\ reader'[p] = reader[p] /\ reader[e] = "getting"
    BY <1>1, <1>9 DEF GetEvent, ReservedAfterGet, TypeOK
  <2>2. UNCHANGED <<emitVars, closeVars, asking, wire>>
    BY <1>9 DEF GetEvent
  <2>3. Len(inputQueue'[e]) = Len(inputQueue[e]) - 1 /\ Len(inputQueue[e]) \in Nat
    BY <2>1
  <2>4. \A x \in End : Sending(x)' = Sending(x) /\ Sending(x) \in Nat
    BY <2>2, SendingNow DEF emitVars
  <2>5. EventsOn(wire[e]) \in Nat
    BY WiresOfInv
  <2>6. Outstanding(e)' = Outstanding(e) - 1 /\ Outstanding(p)' = Outstanding(p)
    BY <1>1, <2>1, <2>2, <2>3, <2>4, <2>5 DEF Outstanding
  <2>7. \A x \in End : Promised(x)' = Promised(x)
    BY <2>2 DEF Promised
  <2>8. \A x \in End : InvWait(x)'
    BY <2>2, WaitKept
  <2>9. \A x \in End : InvMore(x)'
    BY <1>1, <1>3, <2>1, <2>2, <2>7 DEF Inv, InvMore
  <2>10. InvAccount(e)' /\ InvExact(e)'
    <3>1. Outstanding(e) \in Nat /\ Promised(e) \in Nat /\ reserved[e] \in Int
          /\ openSlots[p] \in Int
      BY <1>1, <1>2, <1>3
    <3>2. InvAccount(e)'
      BY <1>1, <2>1, <2>2, <2>6, <2>7, <3>1, SMTT(30) DEF Inv, InvAccount
    <3>3. InvExact(e)'
      BY <1>1, <2>1, <2>2, <2>6, <2>7, <3>1 DEF Inv, InvExact, Healthy
    <3> QED  BY <3>2, <3>3
  <2>11. InvAccount(p)' /\ InvExact(p)'
    BY <1>1, <2>1, <2>2, <2>6, <2>7 DEF Inv, InvAccount, InvExact, Healthy
  <2>12. reserved[e] >= 1
    <3>1. Outstanding(e) >= 1
      BY <1>1, <1>2, <2>1, <2>3, <2>4, <2>5 DEF Outstanding
    <3>2. Outstanding(e) + Promised(e) <= reserved[e]
      BY <1>1, <1>2, <1>3 DEF Inv, InvBound, InvAccount
    <3> QED  BY <1>2, <1>3, <3>1, <3>2
  <2>13. \A x \in End : InvBound(x)'
    BY <1>1, <1>3, <1>4, <2>1, <2>2, <2>12, SMTT(30) DEF Inv, InvBound
  <2> QED  BY <1>1, <2>8, <2>9, <2>10, <2>11, <2>13 DEF Inv
<1>10. CASE RecvExpires(e)
  <2>1. /\ UNCHANGED <<emitVars, closeVars, inputQueue, wire, reserved, asking>>
        /\ reader'[e] = "idle" /\ reader'[p] = reader[p] /\ reader[e] = "getting"
    BY <1>1, <1>10 DEF RecvExpires, TypeOK
  <2>2. \A x \in End : Outstanding(x)' = Outstanding(x) /\ Promised(x)' = Promised(x)
    BY <1>5, <2>1 DEF emitVars, Promised
  <2>3. \A x \in End : InvBound(x)' /\ InvAccount(x)' /\ InvExact(x)' /\ InvWait(x)'
    BY <1>2, <2>1, <2>2, BoundKept, AccountKept, WaitKept
  <2>4. \A x \in End : InvMore(x)'
    BY <1>1, <1>3, <2>1, <2>2 DEF Inv, InvMore
  <2> QED  BY <2>3, <2>4 DEF Inv
<1>11. CASE RecvInterrupted(e)
  <2>1. /\ asking'[e] = 0 /\ asking'[p] = asking[p] /\ lost[e]
        /\ reader'[e] = "idle" /\ reader'[p] = reader[p]
        /\ UNCHANGED <<emitVars, closeVars, reserved, inputQueue>>
    BY <1>1, <1>11 DEF RecvInterrupted, TypeOK
  <2>2. ~Healthy /\ ~Healthy'
    BY <2>1 DEF Healthy
  <2>3. CASE UNCHANGED wire
    <3>1. \A x \in End : Outstanding(x)' = Outstanding(x)
      BY <1>5, <2>1, <2>3 DEF emitVars
    <3>2. /\ CreditOn(wire[p]) \in Nat
          /\ Promised(e)' = CreditOn(wire[p]) /\ Promised(e) = CreditOn(wire[p]) + asking[e]
          /\ Promised(p)' = Promised(p)
      BY <1>1, <2>1, <2>3, WiresOfInv DEF Promised
    <3>3. asking[e] > 0 => CreditOn(wire[p]) = 0
      BY <1>1, WiresOfInv, WireWithoutMore DEF Inv, InvMore
    <3>4. InvMore(e)'
      <4>1. asking[e] = 0 \/ (CreditOn(wire[p]) = 0 /\ MoreAt(wire[p]) = {})
        BY <1>1, <1>3, <3>3 DEF Inv, InvMore
      <4> QED  BY <1>1, <1>3, <2>1, <2>3, <3>2, <4>1 DEF Inv, InvMore
    <3>5. InvMore(p)'
      BY <1>1, <2>1, <2>3, <3>2 DEF Inv, InvMore
    <3>6. \A x \in End : InvBound(x)' /\ InvWait(x)'
      BY <2>1, BoundKept, WaitKept
    <3>7. InvAccount(e)' /\ InvExact(e)'
      BY <1>1, <1>2, <1>3, <2>1, <2>2, <3>1, <3>2 DEF Inv, InvAccount, InvExact
    <3>8. InvAccount(p)' /\ InvExact(p)'
      BY <1>1, <2>1, <2>2, <3>1, <3>2 DEF Inv, InvAccount, InvExact
    <3> QED  BY <1>1, <3>4, <3>5, <3>6, <3>7, <3>8 DEF Inv
  <2>4. CASE reader[e] = "requesting" /\ Deliver(p, MoreEvent(asking[e]))
    <3>1. asking[e] > 0
      BY <2>4 DEF Inv, InvMore
    <3>2. /\ wire'[e] = wire[e] /\ EventsOn(wire'[p]) = EventsOn(wire[p])
          /\ OneMore(wire'[p]) /\ MoreAt(wire'[p]) # {}
          /\ CreditOn(wire'[p]) = asking[e] /\ CreditOn(wire[p]) = 0
      BY <2>4, <3>1, MoreDelivered
    <3>3. \A x \in End : Sending(x)' = Sending(x)
      BY <2>1, SendingKept DEF emitVars
    <3>4. \A x \in End : Outstanding(x)' = Outstanding(x)
      BY <1>1, <2>1, <3>2, <3>3 DEF Outstanding
    <3>5. \A x \in End : Promised(x)' = Promised(x)
      BY <1>1, <1>3, <2>1, <3>2 DEF Promised
    <3>6. \A x \in End : InvBound(x)' /\ InvAccount(x)' /\ InvExact(x)' /\ InvWait(x)'
      BY <1>2, <2>1, <3>4, <3>5, BoundKept, AccountKept, WaitKept
    <3>7. Promised(e) > 0
      BY <1>1, <1>3, <3>1, <3>2 DEF Promised
    <3>8. InvMore(e)'
      BY <1>1, <2>1, <3>2, <3>5, <3>7 DEF Inv, InvMore
    <3>9. InvMore(p)'
      BY <1>1, <2>1, <3>2, <3>5 DEF Inv, InvMore
    <3> QED  BY <1>1, <3>6, <3>8, <3>9 DEF Inv
  <2> QED  BY <1>11, <2>3, <2>4 DEF RecvInterrupted
<1> QED  BY <1>6, <1>7, <1>8, <1>9, <1>10, <1>11 DEF ReaderStep

\* _recver takes a _zpc_more off the wire: its credit becomes slots, and there
\* is at least one, so that an emitter that waited is woken with a slot to spend.
LEMMA RecverMoreInv ==
  ASSUME TypeOK, Inv, NEW g, Emitter = {g}, NEW e \in End, Recver(e), RecverMore(e)
  PROVE  Inv'
<1> DEFINE p == Peer(e)
           w == wire[e]
           n == Head(w).slots
<1> USE DEF readVars
<1>1. p \in End /\ Peer(p) = e /\ p # e /\ End = {e, p}
  BY TwoEnds
<1>2. \A x \in End : Outstanding(x) \in Nat /\ Promised(x) \in Nat
  BY PlacesOfInv
<1>3. \A x \in End : reserved[x] \in Int /\ openSlots[x] \in Int /\ asking[x] \in Nat
  BY DEF TypeOK
<1>4. w \in Seq(Event) /\ OneMore(w) /\ w # <<>> /\ Head(w).name = "more"
  BY WiresOfInv DEF Recver, RecverMore
<1>5. wire'[e] = Tail(w) /\ wire'[p] = wire[p]
  BY <1>1 DEF Recver, TypeOK
<1>6. /\ MoreAt(w) # {} /\ MoreAt(wire'[e]) = {} /\ OneMore(wire'[e])
      /\ CreditOn(w) = n /\ CreditOn(wire'[e]) = 0
      /\ EventsOn(wire'[e]) = EventsOn(w)
  BY <1>4, <1>5, TailAfterMore
<1>7. n \in Nat
  BY <1>6, WiresOfInv
<1>8. asking[p] = 0 /\ Promised(p) = n /\ n > 0
  BY <1>1, <1>3, <1>6, <1>7 DEF Inv, InvMore, Promised
<1>9. UNCHANGED <<reserved, verbose, reader, asking, sawDone, inputQueue, chan, lost>>
  BY DEF Recver, RecverMore
<1>10. Promised(p)' = 0 /\ Promised(e)' = Promised(e)
  BY <1>1, <1>5, <1>6, <1>8, <1>9 DEF Promised
<1>11. openSlots'[e] = openSlots[e] + n /\ openSlots'[p] = openSlots[p]
  BY <1>1 DEF RecverMore, TypeOK
<1>12. /\ emitter'[p] = emitter[p] /\ emitter'[e][g] # "waiting"
       /\ emitter'[e][g] = "sending" <=> emitter[e][g] = "sending"
  <2>1. openSlots[e] + n > 0
    BY <1>3, <1>7, <1>8 DEF Inv, InvBound
  <2> QED  BY <1>1, <2>1 DEF RecverMore, At, TypeOK
<1>13. \A x \in End : Sending(x)' = Sending(x)
  BY <1>1, <1>12, SendingNow
<1>14. \A x \in End : Outstanding(x)' = Outstanding(x)
  BY <1>1, <1>5, <1>6, <1>9, <1>13 DEF Outstanding
<1>15. \A x \in End : InvBound(x)'
  <2>1. recver'[e] \in {"lost", "running"} /\ recver'[p] = recver[p] /\ recver[e] = "running"
    BY <1>1 DEF Recver, RecverMore, RecverNext, TypeOK
  <2> QED  BY <1>1, <1>3, <1>7, <1>9, <1>11, <2>1 DEF Inv, InvBound
<1>16. InvAccount(e)' /\ InvExact(e)'
  BY <1>1, <1>9, <1>10, <1>11, <1>14 DEF Inv, InvAccount, InvExact, Healthy
<1>17. InvAccount(p)' /\ InvExact(p)'
  BY <1>1, <1>2, <1>3, <1>7, <1>8, <1>9, <1>10, <1>11, <1>14
  DEF Inv, InvAccount, InvExact, Healthy
<1>18. InvMore(e)'
  BY <1>1, <1>5, <1>6, <1>9, <1>10 DEF Inv, InvMore
<1>19. InvMore(p)'
  BY <1>1, <1>5, <1>6, <1>8, <1>9, <1>10 DEF Inv, InvMore
<1>20. \A x \in End : InvWait(x)'
  BY <1>1, <1>3, <1>7, <1>8, <1>11, <1>12 DEF Inv, InvBound, InvWait, At
<1> QED  BY <1>1, <1>15, <1>16, <1>17, <1>18, <1>19, <1>20 DEF Inv

\* _recver takes another event off the wire: there is always room for it.
LEMMA RecverQueueInv ==
  ASSUME TypeOK, Inv, NEW g, Emitter = {g}, NEW e \in End, Recver(e),
         RecverOverflow(e) \/ RecverQueue(e)
  PROVE  Inv'
<1> DEFINE p == Peer(e)
           w == wire[e]
<1> USE DEF readVars
<1>1. p \in End /\ Peer(p) = e /\ p # e /\ End = {e, p}
  BY TwoEnds
<1>2. \A x \in End : Outstanding(x) \in Nat /\ Promised(x) \in Nat
  BY PlacesOfInv
<1>3. \A x \in End : reserved[x] \in Int /\ openSlots[x] \in Int /\ asking[x] \in Nat
  BY DEF TypeOK
<1>4. w \in Seq(Event) /\ OneMore(w) /\ w # <<>> /\ Head(w).name # "more"
  BY WiresOfInv DEF Recver, RecverOverflow, RecverQueue
<1>5. wire'[e] = Tail(w) /\ wire'[p] = wire[p]
  BY <1>1 DEF Recver, TypeOK
<1>6. /\ MoreAt(wire'[e]) = {} <=> MoreAt(w) = {}
      /\ OneMore(wire'[e]) /\ CreditOn(wire'[e]) = CreditOn(w)
      /\ EventsOn(wire'[e]) = EventsOn(w) - 1 /\ EventsOn(w) - 1 \in Nat
  <2>1. /\ MoreAt(Tail(w)) = {} <=> MoreAt(w) = {}
        /\ OneMore(Tail(w)) /\ CreditOn(Tail(w)) = CreditOn(w)
        /\ EventsOn(Tail(w)) = EventsOn(w) - 1
    BY <1>4, TailAfterEvent
  <2>2. Tail(w) \in Seq(Event)
    BY <1>4
  <2>3. EventsOn(Tail(w)) \in Nat
    BY <2>1, <2>2, WireTypes
  <2> QED  BY <1>5, <2>1, <2>3
<1>7. EventsOn(w) \in Nat /\ Len(inputQueue[e]) \in Nat
  <2>1. inputQueue[e] \in Seq(EventName)
    BY DEF TypeOK
  <2> QED  BY <2>1, WiresOfInv
<1>8. \A x \in End : Sending(x) \in Nat
  BY SendingNow
<1>9. ~RecverOverflow(e)
  <2>1. Outstanding(e) <= InqueueSize[e]
    BY <1>1, <1>2, <1>3, ChannelAssumption DEF Inv, InvBound, InvAccount
  <2>2. Len(inputQueue[e]) + 1 <= Outstanding(e)
    BY <1>1, <1>6, <1>7, <1>8 DEF Outstanding
  <2>3. Len(inputQueue[e]) # InqueueSize[e]
    BY <1>2, <1>7, <2>1, <2>2, ChannelAssumption
  <2> QED  BY <2>3 DEF RecverOverflow
<1>10. /\ RecverQueue(e)
       /\ UNCHANGED <<reserved, verbose, reader, asking, sawDone, openSlots,
                      emitter, lost>>
  BY <1>9 DEF Recver, RecverQueue
<1>11. /\ Len(inputQueue'[e]) = Len(inputQueue[e]) + 1
       /\ inputQueue'[p] = inputQueue[p]
  <2>1. Head(w) \in Event  BY <1>4
  <2>2. Head(w).name \in EventName  BY <1>4, <2>1 DEF Event
  <2> QED  BY <1>1, <1>10, <2>2 DEF RecverQueue, Queued, TypeOK
<1>12. \A x \in End : Sending(x)' = Sending(x)
  BY <1>10, SendingNow
<1>13. Outstanding(e)' = Outstanding(e) /\ Outstanding(p)' = Outstanding(p)
  BY <1>1, <1>5, <1>6, <1>7, <1>8, <1>11, <1>12 DEF Outstanding
<1>14. \A x \in End : Promised(x)' = Promised(x)
  BY <1>1, <1>5, <1>6, <1>10 DEF Promised
<1>15. chan[e] = "open" /\ chan'[e] \in {"open", "closing"} /\ chan'[p] = chan[p]
  BY <1>1, <1>10 DEF Recver, RecverQueue, Inv, InvBound, TypeOK
<1>16. Healthy' <=> Healthy
  BY <1>1, <1>10, <1>15 DEF Healthy
<1>17. \A x \in End : InvBound(x)'
  <2>1. /\ recver'[p] = recver[p]
        /\ \/ recver'[e] = "finished"
           \/ recver'[e] \in {"running", "lost"} /\ chan'[e] = chan[e]
    BY <1>1, <1>10 DEF RecverQueue, RecverNext, TypeOK
  <2> QED  BY <1>1, <1>10, <1>15, <2>1 DEF Inv, InvBound
<1>18. \A x \in End : InvAccount(x)' /\ InvExact(x)'
  BY <1>1, <1>10, <1>13, <1>14, <1>16 DEF Inv, InvAccount, InvExact
<1>19. \A x \in End : InvMore(x)'
  BY <1>1, <1>5, <1>6, <1>10, <1>14 DEF Inv, InvMore
<1>20. \A x \in End : InvWait(x)'
  BY <1>10, WaitKept
<1> QED  BY <1>17, <1>18, <1>19, <1>20 DEF Inv

\* A wire that loses its oldest event to the multiplexer holds no more than before.
LEMMA WireShortened ==
  ASSUME NEW w \in Seq(Event), OneMore(w), w # <<>>
  PROVE  LET v == Tail(w) IN
         /\ OneMore(v) /\ EventsOn(v) \in Nat /\ EventsOn(v) <= EventsOn(w)
         /\ \/ CreditOn(v) = CreditOn(w) /\ (MoreAt(v) = {} <=> MoreAt(w) = {})
            \/ CreditOn(v) = 0 /\ MoreAt(v) = {}
<1> DEFINE v == Tail(w)
<1>1. v \in Seq(Event)
  OBVIOUS
<1>2. CASE Head(w).name = "more"
  <2>1. OneMore(v) /\ CreditOn(v) = 0 /\ MoreAt(v) = {} /\ EventsOn(v) = EventsOn(w)
    BY <1>2, TailAfterMore
  <2> QED  BY <1>1, <2>1, WireTypes
<1>3. CASE Head(w).name # "more"
  <2>1. /\ OneMore(v) /\ CreditOn(v) = CreditOn(w) /\ (MoreAt(v) = {} <=> MoreAt(w) = {})
        /\ EventsOn(v) = EventsOn(w) - 1
    BY <1>3, TailAfterEvent
  <2>2. EventsOn(v) \in Nat /\ EventsOn(w) \in Nat
    BY <1>1, <2>1, WireTypes
  <2> QED  BY <2>1, <2>2
<1> QED  BY <1>2, <1>3

\* A step of the channel keeps the invariant.
LEMMA ChannelInv ==
  ASSUME TypeOK, Inv, NEW g, Emitter = {g}, NEW e \in End, ChannelStep(e)
  PROVE  Inv'
<1> DEFINE p == Peer(e)
<1> USE DEF emitVars, readVars, closeVars
<1>1. p \in End /\ Peer(p) = e /\ p # e /\ End = {e, p}
  BY TwoEnds
<1>2. \A x \in End : Outstanding(x) \in Nat /\ Promised(x) \in Nat
  BY PlacesOfInv
<1>3. \A x \in End : reserved[x] \in Int /\ openSlots[x] \in Int /\ asking[x] \in Nat
  BY DEF TypeOK
<1>4. ASSUME UNCHANGED <<emitVars, readVars, inputQueue, wire>>
      PROVE  /\ \A x \in End : Outstanding(x)' = Outstanding(x) /\ Promised(x)' = Promised(x)
             /\ \A x \in End : InvMore(x)' /\ InvWait(x)'
  <2>1. \A x \in End : Sending(x)' = Sending(x)
    BY <1>4, SendingNow
  <2> QED  BY <1>4, <2>1, TwoEnds, MoreKept, WaitKept DEF Outstanding, Promised
<1>5. CASE Recver(e)
  BY <1>5, RecverMoreInv, RecverQueueInv DEF Recver
<1>6. CASE SetOnCloseIf(e)
  <2>1. \A x \in End : InvBound(x)' /\ InvAccount(x)' /\ InvExact(x)'
    BY <1>2, <1>4, <1>6, BoundKept, AccountKept DEF SetOnCloseIf
  <2> QED  BY <1>4, <1>6, <2>1 DEF SetOnCloseIf, Inv
<1>7. CASE Close(e)
  <2>1. /\ chan[e] = "open" /\ chan'[e] = "closing" /\ chan'[p] = chan[p]
        /\ recver'[e] \notin {"running", "overflow"} /\ recver'[p] = recver[p]
    BY <1>1, <1>7 DEF Close, Inv, InvBound, TypeOK
  <2>2. Healthy' <=> Healthy
    BY <1>1, <1>7, <2>1 DEF Close, Healthy
  <2>3. \A x \in End : InvBound(x)'
    BY <1>1, <1>7, <2>1 DEF Close, Inv, InvBound
  <2>4. \A x \in End : InvAccount(x)' /\ InvExact(x)'
    BY <1>4, <1>7, <2>2, TwoEnds DEF Close, Inv, InvAccount, InvExact
  <2> QED  BY <1>4, <1>7, <2>3, <2>4 DEF Close, Inv
<1>8. CASE CloseReturns(e)
  <2>1. chan[e] = "closing" /\ chan'[e] = "closed" /\ chan'[p] = chan[p]
    BY <1>1, <1>8 DEF CloseReturns, TypeOK
  <2>2. ~Healthy'
    BY <2>1 DEF Healthy
  <2>3. \A x \in End : InvBound(x)'
    BY <1>1, <1>8, <2>1 DEF CloseReturns, Inv, InvBound
  <2>4. \A x \in End : InvAccount(x)' /\ InvExact(x)'
    BY <1>4, <1>8, <2>2, TwoEnds DEF CloseReturns, Inv, InvAccount, InvExact
  <2> QED  BY <1>4, <1>8, <2>3, <2>4 DEF CloseReturns, Inv
<1>9. CASE LoseRemote(e)
  <2>1. lost'[e] /\ ~lost[e] /\ lost'[p] = lost[p]
    BY <1>1, <1>9 DEF LoseRemote, TypeOK
  <2>2. ~Healthy'
    BY <2>1 DEF Healthy
  <2>3. \A x \in End : InvBound(x)'
    BY <1>9, BoundKept DEF LoseRemote
  <2>4. InvAccount(e)' /\ InvExact(e)'
    BY <1>1, <1>4, <1>9, <2>1, <2>2 DEF LoseRemote, Inv, InvAccount, InvExact
  <2>5. InvAccount(p)' /\ InvExact(p)'
    <3>1. Outstanding(p) + Promised(p) + openSlots[e] <= reserved[p] /\ openSlots[e] >= 0
      BY <1>1, <2>1 DEF Inv, InvAccount, InvBound
    <3> QED  BY <1>1, <1>2, <1>3, <1>4, <1>9, <2>1, <2>2, <3>1
             DEF LoseRemote, InvAccount, InvExact
  <2> QED  BY <1>1, <1>4, <1>9, <2>3, <2>4, <2>5 DEF LoseRemote, Inv
<1>10. CASE Unroutable(e)
  <2>1. /\ wire[e] # <<>> /\ wire'[e] = Tail(wire[e]) /\ wire'[p] = wire[p]
        /\ UNCHANGED <<emitVars, readVars, closeVars, inputQueue>>
    BY <1>1, <1>10 DEF Unroutable, TypeOK
  <2>2. ~Healthy /\ ~Healthy'
    BY <1>10, <2>1 DEF Unroutable, Healthy
  <2>3. /\ OneMore(wire'[e]) /\ EventsOn(wire'[e]) \in Nat
        /\ EventsOn(wire'[e]) <= EventsOn(wire[e])
        /\ \/ /\ CreditOn(wire'[e]) = CreditOn(wire[e])
              /\ MoreAt(wire'[e]) = {} <=> MoreAt(wire[e]) = {}
           \/ CreditOn(wire'[e]) = 0 /\ MoreAt(wire'[e]) = {}
    BY <2>1, WiresOfInv, WireShortened
  <2>a. \A x \in End : Sending(x)' = Sending(x)
    BY <2>1, SendingKept
  <2>b. \A x \in End : Sending(x) \in Nat
    <3> TAKE x \in End
    <3>1. Sending(x) = 0 \/ Sending(x) = 1  BY SendingNow
    <3> QED  BY <3>1
  <2>4. \A x \in End : Sending(x)' = Sending(x) /\ Sending(x) \in Nat
    BY <2>a, <2>b
  <2>5. EventsOn(wire[e]) \in Nat /\ CreditOn(wire[e]) \in Nat
    BY WiresOfInv
  <2>6. inputQueue[e] \in Seq(EventName)
    BY DEF TypeOK
  <2>7. /\ Outstanding(p)' = Outstanding(p)
        /\ Outstanding(e)' \in Nat /\ Outstanding(e)' <= Outstanding(e)
    <3>1. Len(inputQueue[e]) \in Nat
      BY <2>6
    <3> QED  BY <1>1, <2>1, <2>3, <2>4, <2>5, <3>1 DEF Outstanding
  <2>8. Promised(e)' = Promised(e)
    BY <1>1, <2>1 DEF Promised
  <2>9. Promised(p)' = Promised(p) \/ (Promised(p)' = asking[p] /\ MoreAt(wire'[e]) = {})
    BY <1>1, <1>3, <2>1, <2>3 DEF Promised
  <2>10. Promised(p)' \in Nat /\ Promised(p)' <= Promised(p)
    BY <1>1, <1>3, <2>1, <2>3, <2>5 DEF Promised
  <2>11. \A x \in End : InvBound(x)' /\ InvWait(x)'
    BY <2>1, BoundKept, WaitKept
  <2>12. InvAccount(e)' /\ InvExact(e)'
    BY <1>1, <1>2, <1>3, <2>1, <2>2, <2>7, <2>8, SMTT(30) DEF Inv, InvAccount, InvExact
  <2>13. InvAccount(p)' /\ InvExact(p)'
    BY <1>1, <1>2, <1>3, <2>1, <2>2, <2>7, <2>10, SMTT(30) DEF Inv, InvAccount, InvExact
  <2>14. InvMore(e)'
    BY <1>1, <2>1, <2>3, <2>8 DEF Inv, InvMore
  <2>15. InvMore(p)'
    <3>1. asking[p] > 0 => Promised(p)' = Promised(p)
      BY <1>1, <1>3, <2>1, <2>3, <2>5, WiresOfInv, WireWithoutMore
      DEF Inv, InvMore, Promised
    <3> QED
      BY <1>1, <1>3, <2>1, <2>3, <2>9, <2>10, <3>1 DEF Inv, InvMore
  <2> QED  BY <1>1, <2>11, <2>12, <2>13, <2>14, <2>15 DEF Inv
<1> QED  BY <1>5, <1>6, <1>7, <1>8, <1>9, <1>10 DEF ChannelStep

-----------------------------------------------------------------------------
(***************************************************************************)
(* What the invariant gives, for one emitting greenlet per end that passes *)
(* no timeout.                                                             *)
(***************************************************************************)
LEMMA InitInv ==
  ASSUME NEW g, Emitter = {g}, Init
  PROVE  Inv
<1>1. \A x \in End : wire[x] = <<>> /\ MoreAt(wire[x]) = {} /\ wire[x] \in Seq(Event)
  BY DEF Init, MoreAt
<1>2. \A x \in End : OneMore(wire[x]) /\ CreditOn(wire[x]) = 0 /\ EventsOn(wire[x]) = 0
  <2>1. \A x \in End : Len(wire[x]) = 0  BY <1>1
  <2> QED  BY <1>1, <2>1, WireWithoutMore
<1>3. \A x \in End : Sending(x) = 0
  BY SendingNow DEF Init
<1>4. \A x \in End : Outstanding(x) = 0 /\ Promised(x) = 0
  BY <1>2, <1>3, TwoEnds DEF Init, Outstanding, Promised
<1> QED  BY <1>1, <1>2, <1>4, TwoEnds, ChannelAssumption
         DEF Init, Inv, InvBound, InvAccount, InvExact, InvMore, InvWait, At

\* The inductive invariant holds: every place an end has reserved is accounted
\* for, and a request for more is never made while another is under way.
THEOREM AccountsCorrect ==
  ASSUME SoleEmitter, TimedEmit = FALSE
  PROVE  Spec => []IInv
<1> PICK g : Emitter = {g}
  BY DEF SoleEmitter
<1>1. Init => IInv
  BY InitTypeOK, InitInv DEF IInv
<1>2. IInv /\ [Next]_vars => IInv'
  <2> SUFFICES ASSUME TypeOK, Inv, [Next]_vars PROVE TypeOK' /\ Inv'
    BY DEF IInv
  <2>1. CASE Next
    <3>1. PICK e \in End : EmitterStep(e, g) \/ ReaderStep(e) \/ ChannelStep(e)
      BY <2>1 DEF Next
    <3> QED
      BY <3>1, EmitterTypeOK, ReaderTypeOK, ChannelTypeOK, EmitterInv, ReaderInv, ChannelInv
  <2>2. CASE UNCHANGED vars
    <3>1. TypeOK'
      BY <2>2 DEF vars, emitVars, readVars, closeVars, TypeOK
    <3>2. \A x \in End : Sending(x)' = Sending(x)
      BY <2>2, SendingKept DEF vars, emitVars
    <3>3. \A x \in End : Outstanding(x)' = Outstanding(x) /\ Promised(x)' = Promised(x)
      BY <2>2, <3>2, TwoEnds
      DEF vars, emitVars, readVars, closeVars, Outstanding, Promised
    <3>4. \A x \in End : InvBound(x)' /\ InvMore(x)' /\ InvWait(x)'
      BY <2>2, BoundKept, MoreKept, WaitKept DEF vars, emitVars, readVars, closeVars
    <3>a. UNCHANGED <<reserved, openSlots, lost, chan>>
      BY <2>2 DEF vars, emitVars, readVars, closeVars
    <3>b. \A x \in End : Outstanding(x) \in Nat /\ Promised(x) \in Nat
      BY PlacesOfInv
    <3>5. \A x \in End : InvAccount(x)' /\ InvExact(x)'
      BY <3>3, <3>a, <3>b, AccountKept
    <3> QED  BY <3>1, <3>4, <3>5 DEF Inv
  <2> QED  BY <2>1, <2>2
<1> QED  BY <1>1, <1>2, PTL DEF Spec

\* The RuntimeError of _recver, "queue overflow", is never raised, whoever
\* closes or loses whom and whatever the sizes of the two queues.
THEOREM NoOverflowCorrect ==
  ASSUME SoleEmitter, TimedEmit = FALSE
  PROVE  Spec => []NoOverflow
<1>1. IInv => NoOverflow
  BY DEF IInv, Inv, InvBound, NoOverflow
<1> QED  BY <1>1, AccountsCorrect, PTL

\* A slot that was not granted is never spent, nor more places reserved than the
\* queue has.
THEOREM NoOverdraftCorrect ==
  ASSUME SoleEmitter, TimedEmit = FALSE
  PROVE  Spec => []NoOverdraft
<1>1. IInv => NoOverdraft
  BY DEF IInv, Inv, InvBound, NoOverdraft
<1> QED  BY <1>1, AccountsCorrect, PTL

\* A reader has at most one _zpc_more under way.
THEOREM SingleMoreCorrect ==
  ASSUME SoleEmitter, TimedEmit = FALSE
  PROVE  Spec => []SingleMoreInFlight
<1>1. IInv => SingleMoreInFlight
  BY TwoEnds DEF IInv, Inv, InvMore, SingleMoreInFlight
<1> QED  BY <1>1, AccountsCorrect, PTL

\* On a healthy channel no place of a window leaks.
THEOREM CreditCorrect ==
  ASSUME SoleEmitter, TimedEmit = FALSE
  PROVE  Spec => []CreditConserved
<1>1. IInv => CreditConserved
  BY DEF IInv, Inv, InvExact, CreditConserved
<1> QED  BY <1>1, AccountsCorrect, PTL

-----------------------------------------------------------------------------
(***************************************************************************)
(* The refinement.  A place of a window is taken when its sender spends a  *)
(* slot, and released when the application reads the event or the channel  *)
(* drops it; nothing else moves the count of a window.                     *)
(***************************************************************************)
\* What a step does to the two windows: nothing, or one place of one of them.
WindowsKept == \A x \in End : Outstanding(x)' = Outstanding(x)
PlaceTaken(x) ==
  /\ Outstanding(x) < InqueueSize[x]
  /\ Outstanding(x)' = Outstanding(x) + 1
  /\ Outstanding(Peer(x))' = Outstanding(Peer(x))
PlaceReleased(x) ==
  /\ Outstanding(x) > 0
  /\ Outstanding(x)' = Outstanding(x) - 1
  /\ Outstanding(Peer(x))' = Outstanding(Peer(x))
OnePlaceMoves == WindowsKept \/ \E x \in End : PlaceTaken(x) \/ PlaceReleased(x)

\* The counts of which the window of an end is the sum, before and after a step.
LEMMA WindowParts ==
  ASSUME TypeOK, Inv, NEW g, Emitter = {g}, NEW e \in End
  PROVE  LET p == Peer(e) IN
         /\ Len(inputQueue[e]) \in Nat /\ EventsOn(wire[e]) \in Nat /\ Sending(e) \in Nat
         /\ Len(inputQueue[p]) \in Nat /\ EventsOn(wire[p]) \in Nat /\ Sending(p) \in Nat
         /\ Outstanding(e) = Len(inputQueue[e]) + EventsOn(wire[e]) + Sending(p)
         /\ Outstanding(p) = Len(inputQueue[p]) + EventsOn(wire[p]) + Sending(e)
         /\ Outstanding(e)' = Len(inputQueue'[e]) + EventsOn(wire'[e]) + Sending(p)'
         /\ Outstanding(p)' = Len(inputQueue'[p]) + EventsOn(wire'[p]) + Sending(e)'
<1>1. Peer(e) \in End /\ Peer(Peer(e)) = e
  BY TwoEnds
<1>2. \A x \in End : Sending(x) \in {0, 1}
  BY SendingNow
<1>3. \A x \in End : Len(inputQueue[x]) \in Nat
  BY DEF TypeOK
<1> QED  BY <1>1, <1>2, <1>3, WiresOfInv DEF Outstanding

\* Spending a slot takes a place at the peer, and there is one: the slot was
\* granted for it.
LEMMA SpendTakesPlace ==
  ASSUME TypeOK, Inv, NEW g, Emitter = {g}, NEW e \in End,
         emitter[e][g] \in {"idle", "woken"}, openSlots[e] > 0, Spend(e, g),
         UNCHANGED <<inputQueue, wire>>
  PROVE  OnePlaceMoves
<1> DEFINE p == Peer(e)
<1>1. p \in End /\ Peer(p) = e /\ p # e /\ End = {e, p}
  BY TwoEnds
<1>2. CASE lost[e] \/ chan[e] = "closed"
  <2>1. emitter'[p] = emitter[p] /\ emitter'[e][g] = "idle"
    BY <1>1, <1>2 DEF Spend, Move, TypeOK
  <2>2. \A x \in End : Sending(x)' = Sending(x)
    BY <1>1, <2>1, SendingNow
  <2> QED  BY <2>2, TwoEnds DEF Outstanding, OnePlaceMoves, WindowsKept
<1>3. CASE ~lost[e] /\ chan[e] # "closed"
  <2>1. emitter'[p] = emitter[p] /\ emitter'[e][g] = "sending"
    BY <1>1, <1>3 DEF Spend, Move, TypeOK
  <2>2. Sending(p)' = Sending(p) /\ Sending(e)' = 1 /\ Sending(e) = 0
    BY <1>1, <2>1, SendingNow
  <2>3. Outstanding(e)' = Outstanding(e) /\ Outstanding(p)' = Outstanding(p) + 1
    BY <1>1, <2>2, WindowParts
  <2>4. Outstanding(p) + Promised(p) + openSlots[e] <= reserved[p]
    BY <1>1, <1>3 DEF Inv, InvAccount
  <2>5. reserved[p] <= InqueueSize[p] /\ reserved[p] \in Int /\ InqueueSize[p] \in Int
    BY <1>1, ChannelAssumption DEF Inv, InvBound
  <2>6. Outstanding(p) \in Nat /\ Promised(p) \in Nat /\ openSlots[e] \in Int
    BY <1>1, PlacesOfInv DEF TypeOK
  <2>7. Outstanding(p) < InqueueSize[p]
    BY <2>4, <2>5, <2>6
  <2> QED  BY <1>1, <2>3, <2>7 DEF OnePlaceMoves, PlaceTaken
<1> QED  BY <1>2, <1>3

\* A step of the emitting greenlet: handing an event over moves it within its
\* place, and an interruption releases the place of an event that did not go.
LEMMA EmitterMovesOnePlace ==
  ASSUME TypeOK, Inv, NEW g, Emitter = {g}, TimedEmit = FALSE, NEW e \in End,
         EmitterStep(e, g)
  PROVE  OnePlaceMoves
<1> DEFINE p == Peer(e)
<1> USE DEF readVars, closeVars
<1>1. p \in End /\ Peer(p) = e /\ p # e /\ End = {e, p}
  BY TwoEnds
<1>w. /\ Len(inputQueue[e]) \in Nat /\ EventsOn(wire[e]) \in Nat /\ Sending(e) \in Nat
      /\ Len(inputQueue[p]) \in Nat /\ EventsOn(wire[p]) \in Nat /\ Sending(p) \in Nat
      /\ Outstanding(e) = Len(inputQueue[e]) + EventsOn(wire[e]) + Sending(p)
      /\ Outstanding(p) = Len(inputQueue[p]) + EventsOn(wire[p]) + Sending(e)
      /\ Outstanding(e)' = Len(inputQueue'[e]) + EventsOn(wire'[e]) + Sending(p)'
      /\ Outstanding(p)' = Len(inputQueue'[p]) + EventsOn(wire'[p]) + Sending(e)'
  BY WindowParts
<1>2. CASE EmitEvent(e, g)
  <2>1. CASE MustWait(e) /\ Move(e, g, "waiting") /\ UNCHANGED openSlots
    <3>1. emitter'[p] = emitter[p] /\ emitter'[e][g] = "waiting" /\ emitter[e][g] = "idle"
      BY <1>1, <1>2, <2>1 DEF EmitEvent, Move, At, TypeOK
    <3>2. \A x \in End : Sending(x)' = Sending(x)
      BY <1>1, <3>1, SendingNow
    <3> QED  BY <1>2, <3>2, TwoEnds DEF EmitEvent, Outstanding, OnePlaceMoves, WindowsKept
  <2>2. CASE ~MustWait(e) /\ Spend(e, g)
    <3>1. openSlots[e] > 0
      BY <2>2 DEF MustWait, Inv, InvBound, TypeOK
    <3> QED  BY <1>2, <2>2, <3>1, SpendTakesPlace DEF EmitEvent, At
  <2> QED  BY <1>2, <2>1, <2>2 DEF EmitEvent
<1>3. CASE StopWaiting(e, g)
  <2>1. emitter[e][g] = "woken" /\ openSlots[e] > 0
    BY <1>3 DEF StopWaiting, At, Inv, InvWait
  <2> QED  BY <1>3, <2>1, SpendTakesPlace DEF StopWaiting
<1>4. CASE HandOff(e, g)
  <2>1. PICK name \in EventName : Deliver(p, AppEvent(name))
    BY <1>4 DEF HandOff
  <2>2. emitter'[p] = emitter[p] /\ emitter'[e][g] = "idle" /\ emitter[e][g] = "sending"
    BY <1>1, <1>4 DEF HandOff, Move, At, TypeOK
  <2>3. Sending(p)' = Sending(p) /\ Sending(e)' = 0 /\ Sending(e) = 1
    BY <1>1, <2>2, SendingNow
  <2>4. wire'[e] = wire[e] /\ EventsOn(wire'[p]) = EventsOn(wire[p]) + 1
    BY <1>1, <2>1, EventDelivered
  <2>5. inputQueue' = inputQueue
    BY <1>4 DEF HandOff
  <2>6. Outstanding(e)' = Outstanding(e) /\ Outstanding(p)' = Outstanding(p)
    BY <1>w, <2>3, <2>4, <2>5
  <2> QED  BY <1>1, <2>6 DEF OnePlaceMoves, WindowsKept
<1>5. CASE EmitInterrupted(e, g)
  <2>1. emitter'[p] = emitter[p] /\ emitter'[e][g] = "idle" /\ inputQueue' = inputQueue
    BY <1>1, <1>5 DEF EmitInterrupted, Move, TypeOK
  <2>2. Sending(p)' = Sending(p) /\ Sending(e)' = 0
    BY <1>1, <2>1, SendingNow
  <2>3. CASE ~At(e, g, "sending") /\ UNCHANGED wire
    <3>1. Sending(e) = 0
      BY <2>3, SendingNow DEF At
    <3> QED  BY <1>1, <2>1, <2>2, <2>3, <3>1 DEF Outstanding, OnePlaceMoves, WindowsKept
  <2>4. CASE At(e, g, "sending") /\ UNCHANGED wire
    <3>1. Sending(e) = 1
      BY <2>4, SendingNow DEF At
    <3>2. Outstanding(e)' = Outstanding(e) /\ Outstanding(p)' = Outstanding(p) - 1
      BY <1>w, <2>1, <2>2, <2>4, <3>1
    <3>3. Outstanding(p) > 0
      BY <1>w, <3>1
    <3> QED  BY <1>1, <3>2, <3>3 DEF OnePlaceMoves, PlaceReleased
  <2>5. ASSUME At(e, g, "sending"), NEW name \in EventName, Deliver(p, AppEvent(name))
        PROVE  OnePlaceMoves
    <3>1. Sending(e) = 1
      BY <2>5, SendingNow DEF At
    <3>2. wire'[e] = wire[e] /\ EventsOn(wire'[p]) = EventsOn(wire[p]) + 1
      BY <1>1, <2>5, EventDelivered
    <3>3. Outstanding(e)' = Outstanding(e) /\ Outstanding(p)' = Outstanding(p)
      BY <1>w, <2>1, <2>2, <3>1, <3>2
    <3> QED  BY <1>1, <3>3 DEF OnePlaceMoves, WindowsKept
  <2> QED  BY <1>5, <2>3, <2>4, <2>5 DEF EmitInterrupted
<1> QED  BY <1>2, <1>3, <1>4, <1>5 DEF EmitterStep

\* A reader's step: reading an event releases its place.
LEMMA ReaderMovesOnePlace ==
  ASSUME TypeOK, Inv, NEW g, Emitter = {g}, NEW e \in End, ReaderStep(e)
  PROVE  OnePlaceMoves
<1> DEFINE p == Peer(e)
<1> USE DEF emitVars
<1>1. p \in End /\ Peer(p) = e /\ p # e /\ End = {e, p}
  BY TwoEnds
<1>w. /\ Len(inputQueue[e]) \in Nat /\ EventsOn(wire[e]) \in Nat /\ Sending(e) \in Nat
      /\ Len(inputQueue[p]) \in Nat /\ EventsOn(wire[p]) \in Nat /\ Sending(p) \in Nat
      /\ Outstanding(e) = Len(inputQueue[e]) + EventsOn(wire[e]) + Sending(p)
      /\ Outstanding(p) = Len(inputQueue[p]) + EventsOn(wire[p]) + Sending(e)
      /\ Outstanding(e)' = Len(inputQueue'[e]) + EventsOn(wire'[e]) + Sending(p)'
      /\ Outstanding(p)' = Len(inputQueue'[p]) + EventsOn(wire'[p]) + Sending(e)'
  BY WindowParts
<1>2. emitter' = emitter
  BY DEF ReaderStep, Recv, RequestSent, GetEvent, RecvExpires, RecvInterrupted
<1>3. \A x \in End : Sending(x)' = Sending(x)
  BY <1>2, SendingKept
<1>4. ASSUME UNCHANGED <<inputQueue, wire>> PROVE OnePlaceMoves
  BY <1>3, <1>4, TwoEnds DEF Outstanding, OnePlaceMoves, WindowsKept
<1>5. ASSUME asking[e] > 0, Deliver(p, MoreEvent(asking[e])), UNCHANGED inputQueue
      PROVE  OnePlaceMoves
  <2>1. wire'[e] = wire[e] /\ EventsOn(wire'[p]) = EventsOn(wire[p])
    BY <1>5, MoreDelivered
  <2> QED  BY <1>1, <1>3, <1>5, <2>1 DEF Outstanding, OnePlaceMoves, WindowsKept
<1>6. CASE GetEvent(e)
  <2>1. /\ inputQueue[e] # <<>> /\ inputQueue'[e] = Tail(inputQueue[e])
        /\ inputQueue'[p] = inputQueue[p] /\ inputQueue[e] \in Seq(EventName)
        /\ UNCHANGED wire
    BY <1>1, <1>6 DEF GetEvent, TypeOK
  <2>2. Len(inputQueue'[e]) = Len(inputQueue[e]) - 1 /\ Len(inputQueue[e]) > 0
    BY <2>1
  <2>a. Sending(e)' = Sending(e) /\ Sending(p)' = Sending(p) /\ wire' = wire
    BY <1>1, <1>3, <2>1
  <2>b. inputQueue'[p] = inputQueue[p]
    BY <2>1
  <2>3. /\ Outstanding(e) > 0 /\ Outstanding(e)' = Outstanding(e) - 1
        /\ Outstanding(p)' = Outstanding(p)
    BY <1>w, <2>a, <2>b, <2>2
  <2> QED  BY <1>1, <2>3 DEF OnePlaceMoves, PlaceReleased
<1>7. CASE Recv(e) \/ RecvExpires(e)
  BY <1>4, <1>7 DEF Recv, RecvExpires
<1>8. CASE RequestSent(e)
  BY <1>5, <1>8 DEF RequestSent, Inv, InvMore
<1>9. CASE RecvInterrupted(e)
  BY <1>4, <1>5, <1>9 DEF RecvInterrupted, Inv, InvMore
<1> QED  BY <1>6, <1>7, <1>8, <1>9 DEF ReaderStep

\* A step of the channel: queueing an event moves it within its place, and an
\* event that is not routed any more releases its own.
LEMMA ChannelMovesOnePlace ==
  ASSUME TypeOK, Inv, NEW g, Emitter = {g}, NEW e \in End, ChannelStep(e), Inv'
  PROVE  OnePlaceMoves
<1> DEFINE p == Peer(e)
           w == wire[e]
<1> USE DEF emitVars, readVars, closeVars
<1>1. p \in End /\ Peer(p) = e /\ p # e /\ End = {e, p}
  BY TwoEnds
<1>w. /\ Len(inputQueue[e]) \in Nat /\ EventsOn(wire[e]) \in Nat /\ Sending(e) \in Nat
      /\ Len(inputQueue[p]) \in Nat /\ EventsOn(wire[p]) \in Nat /\ Sending(p) \in Nat
      /\ Outstanding(e) = Len(inputQueue[e]) + EventsOn(wire[e]) + Sending(p)
      /\ Outstanding(p) = Len(inputQueue[p]) + EventsOn(wire[p]) + Sending(e)
      /\ Outstanding(e)' = Len(inputQueue'[e]) + EventsOn(wire'[e]) + Sending(p)'
      /\ Outstanding(p)' = Len(inputQueue'[p]) + EventsOn(wire'[p]) + Sending(e)'
  BY WindowParts
<1>2. CASE SetOnCloseIf(e) \/ Close(e) \/ CloseReturns(e) \/ LoseRemote(e)
  <2>1. UNCHANGED <<emitter, inputQueue, wire>>
    BY <1>2 DEF SetOnCloseIf, Close, CloseReturns, LoseRemote
  <2>2. \A x \in End : Sending(x)' = Sending(x)
    BY <2>1, SendingKept
  <2> QED  BY <2>1, <2>2, TwoEnds DEF Outstanding, OnePlaceMoves, WindowsKept
<1>3. ASSUME w # <<>>, wire' = [wire EXCEPT ![e] = Tail(@)]
      PROVE  /\ w \in Seq(Event) /\ OneMore(w)
             /\ wire'[e] = Tail(w) /\ wire'[p] = wire[p]
             /\ Head(w).name = "more" => EventsOn(wire'[e]) = EventsOn(w)
             /\ Head(w).name # "more" => EventsOn(wire'[e]) = EventsOn(w) - 1
             /\ EventsOn(wire'[e]) \in Nat
  <2>1. w \in Seq(Event) /\ OneMore(w) /\ wire'[e] = Tail(w) /\ wire'[p] = wire[p]
    BY <1>1, <1>3, WiresOfInv DEF TypeOK
  <2>2. EventsOn(Tail(w)) \in Nat
    BY <1>3, <2>1, WireShortened
  <2> QED  BY <1>3, <2>1, <2>2, TailAfterMore, TailAfterEvent
<1>4. CASE Unroutable(e)
  <2>1. UNCHANGED <<emitter, inputQueue>> /\ w # <<>> /\ wire' = [wire EXCEPT ![e] = Tail(@)]
    BY <1>4 DEF Unroutable
  <2>2. \A x \in End : Sending(x)' = Sending(x)
    BY <2>1, SendingKept
  <2>3. Outstanding(p)' = Outstanding(p)
    BY <1>1, <1>3, <2>1, <2>2 DEF Outstanding
  <2>a. /\ Sending(p)' = Sending(p)
        /\ Head(w).name # "more" => EventsOn(wire'[e]) = EventsOn(w) - 1
        /\ EventsOn(wire'[e]) \in Nat
    BY <1>1, <1>3, <2>1, <2>2
  <2>4. CASE Head(w).name = "more"
    BY <1>1, <1>3, <2>1, <2>2, <2>3, <2>4 DEF Outstanding, OnePlaceMoves, WindowsKept
  <2>5. CASE Head(w).name # "more"
    <3>1. Outstanding(e) > 0 /\ Outstanding(e)' = Outstanding(e) - 1
      BY <1>w, <2>a, <2>1, <2>5
    <3> QED  BY <1>1, <2>3, <3>1 DEF OnePlaceMoves, PlaceReleased
  <2> QED  BY <2>4, <2>5
<1>5. CASE Recver(e)
  <2>1. w # <<>> /\ wire' = [wire EXCEPT ![e] = Tail(@)]
    BY <1>5 DEF Recver
  <2>2. CASE RecverMore(e)
    <3>1. /\ emitter'[p] = emitter[p] /\ inputQueue' = inputQueue /\ Head(w).name = "more"
          /\ emitter'[e][g] = "sending" <=> emitter[e][g] = "sending"
      BY <1>1, <2>2 DEF RecverMore, At, TypeOK
    <3>2. \A x \in End : Sending(x)' = Sending(x)
      BY <1>1, <3>1, SendingNow
    <3> QED  BY <1>1, <1>3, <2>1, <3>1, <3>2 DEF Outstanding, OnePlaceMoves, WindowsKept
  <2>3. CASE RecverOverflow(e)
    <3>1. recver'[e] = "overflow"
      BY <2>3 DEF RecverOverflow, TypeOK
    <3> QED  BY <3>1 DEF Inv, InvBound
  <2>4. CASE RecverQueue(e)
    <3>1. /\ UNCHANGED emitter /\ inputQueue'[p] = inputQueue[p]
          /\ Head(w).name # "more"
          /\ inputQueue'[e] = Append(inputQueue[e], Head(w).name)
      BY <1>1, <2>4 DEF RecverQueue, Queued, TypeOK
    <3>2. \A x \in End : Sending(x)' = Sending(x)
      BY <3>1, SendingKept
    <3>3. Len(inputQueue'[e]) = Len(inputQueue[e]) + 1
      <4>1. Head(w) \in Event
        BY <1>3, <2>1
      <4>2. Head(w).name \in EventName
        BY <3>1, <4>1 DEF Event
      <4> QED  BY <3>1, <4>2 DEF TypeOK
    <3>4. Outstanding(e)' = Outstanding(e) /\ Outstanding(p)' = Outstanding(p)
      <4>1. /\ Sending(e)' = Sending(e) /\ Sending(p)' = Sending(p)
            /\ wire'[p] = wire[p] /\ inputQueue'[p] = inputQueue[p]
            /\ EventsOn(wire'[e]) = EventsOn(w) - 1
        BY <1>1, <1>3, <2>1, <3>1, <3>2
      <4>2. Outstanding(p)' = Outstanding(p)
        BY <1>w, <4>1
      <4>3. Outstanding(e)' = Outstanding(e)
        <5>1. EventsOn(wire[e]) \in Nat /\ Len(inputQueue[e]) \in Nat /\ Sending(p) \in Nat
          BY <1>w
        <5>2. Outstanding(e)' = Len(inputQueue'[e]) + EventsOn(wire'[e]) + Sending(p)'
          BY <1>w
        <5>3. Outstanding(e) = Len(inputQueue[e]) + EventsOn(wire[e]) + Sending(p)
          BY <1>w
        <5>4. EventsOn(wire'[e]) = EventsOn(wire[e]) - 1 /\ Sending(p)' = Sending(p)
          BY <4>1
        <5> HIDE DEF p, w
        <5> QED  BY <3>3, <5>1, <5>2, <5>3, <5>4
      <4> QED  BY <4>2, <4>3
    <3> QED  BY <1>1, <3>4 DEF OnePlaceMoves, WindowsKept
  <2> QED  BY <1>5, <2>2, <2>3, <2>4 DEF Recver
<1> QED  BY <1>2, <1>4, <1>5 DEF ChannelStep

\* The two windows of a channel are what CreditWindow says: nobody commits to an
\* event for which its receiver has no place.
THEOREM WindowCorrect ==
  ASSUME SoleEmitter, TimedEmit = FALSE
  PROVE  Spec => WindowSpec
<1> PICK g : Emitter = {g}
  BY DEF SoleEmitter
<1> DEFINE windows == [e \in End |-> Outstanding(e)]
<1>1. Init => Window!Init
  <2> SUFFICES ASSUME Init PROVE \A x \in End : Outstanding(x) = 0
    BY DEF Window!Init
  <2>1. \A x \in End : wire[x] = <<>> /\ MoreAt(wire[x]) = {} /\ wire[x] \in Seq(Event)
    BY DEF Init, MoreAt
  <2>2. \A x \in End : EventsOn(wire[x]) = 0
    <3>1. \A x \in End : Len(wire[x]) = 0  BY <2>1
    <3> QED  BY <2>1, <3>1, WireWithoutMore
  <2>3. \A x \in End : Sending(x) = 0
    BY SendingNow DEF Init
  <2> QED  BY <2>2, <2>3, TwoEnds DEF Init, Outstanding
<1>2. IInv /\ IInv' /\ [Next]_vars => [Window!Next]_windows
  <2> SUFFICES ASSUME TypeOK, Inv, Inv', [Next]_vars PROVE [Window!Next]_windows
    BY DEF IInv
  <2>1. OnePlaceMoves
    <3>1. CASE Next
      <4>1. PICK e \in End : EmitterStep(e, g) \/ ReaderStep(e) \/ ChannelStep(e)
        BY <3>1 DEF Next
      <4> QED
        BY <4>1, EmitterMovesOnePlace, ReaderMovesOnePlace, ChannelMovesOnePlace
    <3>2. CASE UNCHANGED vars
      <4>1. \A x \in End : Sending(x)' = Sending(x)
        BY <3>2, SendingKept DEF vars, emitVars
      <4> QED  BY <3>2, <4>1, TwoEnds DEF vars, Outstanding, OnePlaceMoves, WindowsKept
    <3> QED  BY <3>1, <3>2
  <2>2. CASE WindowsKept
    BY <2>2 DEF WindowsKept
  <2>3. ASSUME NEW x \in End, PlaceTaken(x) PROVE Window!Commit(x)
    <3>1. \A y \in End : windows'[y] = IF y = x THEN windows[x] + 1 ELSE windows[y]
      BY <2>3, TwoEnds DEF PlaceTaken
    <3>2. windows' = [windows EXCEPT ![x] = @ + 1]
      BY <3>1
    <3> QED  BY <2>3, <3>2 DEF PlaceTaken, Window!Commit
  <2>4. ASSUME NEW x \in End, PlaceReleased(x) PROVE Window!Release(x)
    <3>1. \A y \in End : windows'[y] = IF y = x THEN windows[x] - 1 ELSE windows[y]
      BY <2>4, TwoEnds DEF PlaceReleased
    <3>2. windows' = [windows EXCEPT ![x] = @ - 1]
      BY <3>1
    <3> QED  BY <2>4, <3>2 DEF PlaceReleased, Window!Release
  <2> QED  BY <2>1, <2>2, <2>3, <2>4 DEF OnePlaceMoves, Window!Next
<1> QED  BY <1>1, <1>2, AccountsCorrect, PTL DEF Spec, WindowSpec, Window!Spec
=============================================================================
