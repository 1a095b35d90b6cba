----------------------------- MODULE EventsProofs -----------------------------
(***************************************************************************)
(* Message ids and the events they name, for any greenlets, clients and    *)
(* brokers.  Unique is not inductive: a counter that moves on gives a new  *)
(* id only because no id of its base is above it, and one that is drawn    *)
(* again only because no id has the base drawn with it.                    *)
(***************************************************************************)
EXTENDS Events, SequenceTheorems, TLAPS

-----------------------------------------------------------------------------
(***************************************************************************)
(* The ids of one context.                                                 *)
(***************************************************************************)

\* The invariant holds of the first base and counter.
LEMMA InitIInv == Init => IInv
<1> SUFFICES ASSUME Init PROVE IInv
  OBVIOUS
<1> USE MsgIdAssumption DEF Init, Counter
<1>1. TypeOK
  <2>1. counter \in 0..Limit - 1 /\ stop \in 0..Limit - 1
    OBVIOUS
  <2>2. ids = {} /\ repeated = FALSE /\ base \in Base /\ drawn = {base}
    OBVIOUS
  <2> QED
    BY <2>1, <2>2, Zenon DEF TypeOK
<1>2. InvIds /\ Unique
  <2>1. ids = {} /\ repeated = FALSE /\ base \in drawn
    OBVIOUS
  <2> QED
    BY <2>1, Zenon DEF InvIds, Unique
<1> QED
  BY <1>1, <1>2 DEF IInv

\* A new id keeps the invariant, and was not given out before.
LEMMA StepIInv == ASSUME IInv, [Next]_vars PROVE IInv'
<1> USE MsgIdAssumption DEF IInv, Counter
<1>1. CASE UNCHANGED vars
  BY <1>1 DEF vars, TypeOK, InvIds, Unique
<1>2. ASSUME NewMsgid, counter >= stop PROVE IInv'
  <2>1. ResetMsgid
    BY <1>2 DEF NewMsgid, Advance
  <2>2. base' \in Base \ drawn /\ drawn' = drawn \cup {base'} /\ counter' \in 0..Limit - 1
    BY <2>1 DEF ResetMsgid
  <2>3. stop' \in 0..Limit - 1
    BY <2>1, <2>2 DEF ResetMsgid
  <2>4. <<counter', base'>> \notin ids
    BY <2>2 DEF InvIds
  <2> QED
    BY <1>2, <2>2, <2>3, <2>4 DEF NewMsgid, TypeOK, InvIds, Unique
<1>3. ASSUME NewMsgid, ~(counter >= stop) PROVE IInv'
  <2>1. counter' = counter + 1 /\ base' = base /\ stop' = stop /\ drawn' = drawn
    BY <1>3 DEF NewMsgid, Advance
  <2>2. counter \in Nat /\ counter' \in 0..Limit - 1
    BY <1>3, <2>1 DEF TypeOK
  <2>3. \A id \in ids : id[1] \in Nat
    BY DEF TypeOK
  <2>4. <<counter', base'>> \notin ids
    BY <2>1, <2>2, <2>3 DEF InvIds
  <2>5. InvIds'
    BY <1>3, <2>1, <2>2, <2>3 DEF NewMsgid, TypeOK, InvIds
  <2> QED
    BY <1>3, <2>1, <2>2, <2>4, <2>5 DEF NewMsgid, TypeOK, Unique
<1> QED
  BY <1>1, <1>2, <1>3 DEF Next

\* No context gives a message id out twice, whatever the bases and the counters
\* it draws, so long as no base is drawn twice.
THEOREM UniqueCorrect == Spec => []Unique
<1>1. IInv => Unique
  BY DEF IInv
<1> QED
  BY InitIInv, StepIInv, <1>1, PTL DEF Spec

-----------------------------------------------------------------------------
(***************************************************************************)
(* The inductive invariant of the events.                                  *)
(***************************************************************************)
Types ==
  /\ state   \in [Greenlet -> {"unborn", "idle", "ready", "waiting", "done"}]
  /\ local   \in [Greenlet -> Greenlet \cup {Nothing}]
  /\ cause   \in [Greenlet -> Greenlet]
  /\ serves  \in [Greenlet -> ServerChannel \cup {Nothing}]
  /\ calling \in [Greenlet -> ClientChannel \cup {Nothing}]
  /\ misled  \in BOOLEAN

\* A greenlet has the channels its state says, of ids that were given out; that of a
\* served call is named by the id of its request.  The puller serves no call.
Channels ==
  /\ \A g \in Greenlet :
       /\ calling[g] # Nothing <=> state[g] = "waiting"
       /\ calling[g] # Nothing => calling[g].id \in ids
       /\ serves[g] # Nothing =>
            /\ state[g] \in {"ready", "waiting"}
            /\ serves[g].id \in ids /\ serves[g].about = serves[g].id
  /\ state[Puller] # "unborn" /\ serves[Puller] = Nothing

\* The four kinds of events under way.
Works(m) == m.trace \in Greenlet /\ m.trace = m.cause
IsRequest(m) == m.to = "server" /\ m.responseTo = Nothing /\ m.about = m.id /\ Works(m)
IsMore(m) == m.to = "server" /\ m.responseTo \in ids /\ m.about = m.responseTo
IsAnswer(m) == m.to \in Client /\ m.responseTo \in ids /\ m.about = m.responseTo /\ Works(m)
IsPush(m) == m.to = "puller" /\ m.responseTo = Nothing /\ Works(m)
Kinds ==
  \A m \in net : m.id \in ids /\ (IsRequest(m) \/ IsMore(m) \/ IsAnswer(m) \/ IsPush(m))

\* The trace a greenlet has, or would start, is that of its work.
Traced == \A g \in Greenlet : Trace(g) = cause[g]

\* Each id that names a channel was given out to one client: opener says to which.
OpenedBy(opener) ==
  /\ \A g \in Greenlet :
       /\ calling[g] # Nothing => calling[g].client = opener[calling[g].id]
       /\ serves[g] # Nothing => /\ opener[serves[g].id] \in Client
                                 /\ serves[g].identity = Route[opener[serves[g].id]]
  /\ \A m \in net :
       /\ m.to = "server" /\ m.responseTo = Nothing =>
            opener[m.id] \in Client /\ m.frames = Append(Route[opener[m.id]], Empty)
       /\ m.to \in Client => m.to = opener[m.responseTo]
Opener == [Counter \X Base -> Client \cup {Nothing}]
Opened == \E opener \in Opener : OpenedBy(opener)

EventsInv == IInv /\ Types /\ Channels /\ Kinds /\ Traced /\ Opened /\ ~misled

-----------------------------------------------------------------------------
(***************************************************************************)
(* Constants, frames and ids.                                              *)
(***************************************************************************)
LEMMA Places == "server" \notin Client /\ "puller" \notin Client /\ Puller \in Greenlet
BY EventsAssumption

\* The way an event goes is the way back: what a client sends arrives with its route
\* before it, and what is sent along this route reaches the client.
LEMMA ThereAndBack ==
  ASSUME NEW c \in Client
  PROVE  /\ Route[c] \o Frames(<<>>, "DEALER") = Append(Route[c], Empty)
         /\ Identity(Append(Route[c], Empty)) = Route[c]
         /\ WayBack(Frames(Route[c], "ROUTER")) = c
<1> DEFINE S == Range(Route[c]) \cup {Empty}
           there == Append(Route[c], Empty)
<1>1. Route[c] \in Seq(S) /\ Len(Route[c]) > 0 /\ Len(Route[c]) \in Nat /\ Route[c] # <<>>
  <2>1. Route[c] \in Seq(Range(Route[c])) /\ Len(Route[c]) > 0
    BY EventsAssumption
  <2>2. Range(Route[c]) \subseteq S
    OBVIOUS
  <2>3. Len(<<>>) = 0
    OBVIOUS
  <2>4. Route[c] \in Seq(S)
    BY <2>1, <2>2, SeqMonotonic
  <2> HIDE DEF S
  <2> QED  BY <2>1, <2>3, <2>4, LenProperties
<1>2. Empty \in S
  OBVIOUS
<1>a. ASSUME NEW s \in Seq(S)
      PROVE  /\ Append(s, Empty) \in Seq(S) /\ Len(Append(s, Empty)) = Len(s) + 1
             /\ \A i \in 1..Len(s) : Append(s, Empty)[i] = s[i]
             /\ s \o <<Empty>> = Append(s, Empty)
  <2> HIDE DEF S
  <2> QED  BY <1>2, AppendProperties, AppendIsConcat
<1>3. Front(there) = Route[c]
  <2> HIDE DEF S
  <2>1. /\ there \in Seq(S) /\ Len(there) = Len(Route[c]) + 1
        /\ \A i \in 1..Len(Route[c]) : there[i] = Route[c][i]
    BY <1>1, <1>a
  <2> HIDE DEF there
  <2>2. \A i \in 1..Len(there) - 1 : there[i] \in S
    BY <1>1, <2>1, ElementOfSeq
  <2>3. /\ SubSeq(there, 1, Len(there) - 1) \in Seq(S)
        /\ Len(SubSeq(there, 1, Len(there) - 1)) = Len(Route[c])
        /\ \A i \in 1..Len(Route[c]) : SubSeq(there, 1, Len(there) - 1)[i] = there[i]
    BY <1>1, <2>1, <2>2, SubSeqProperties
  <2>4. SubSeq(there, 1, Len(there) - 1) = Route[c]
    BY <1>1, <2>1, <2>3, SeqEqual
  <2> QED  BY <2>4 DEF Front
<1>4. Len(there) > 1
  BY <1>1, <1>a
<1>5. Identity(there) = Route[c]
  BY <1>3, <1>4 DEF Identity
<1>6. Frames(Route[c], "ROUTER") = there
  BY <1>1 DEF Frames
<1>7. WayBack(there) = c
  <2> HIDE DEF there
  <2>1. \A d \in Client : Front(there) = Route[d] <=> d = c
    BY <1>3, EventsAssumption
  <2> QED  BY <2>1 DEF WayBack
<1>8. Route[c] \o Frames(<<>>, "DEALER") = there
  BY <1>1, <1>a DEF Frames
<1> QED  BY <1>5, <1>6, <1>7, <1>8

\* A new id is an id, and no event or channel has it.
LEMMA Fresh ==
  ASSUME IInv, NewMsgid
  PROVE  /\ IInv' /\ NewId \in Counter \X Base /\ NewId \in ids' /\ NewId \notin ids
         /\ ids' = ids \cup {NewId} /\ ids \subseteq Counter \X Base
<1>1. IInv'
  BY StepIInv DEF Next
<1>2. ids' = ids \cup {NewId} /\ repeated' = (repeated \/ NewId \in ids)
  BY DEF NewMsgid, NewId
<1>3. ids \subseteq Counter \X Base /\ ids' \subseteq Counter \X Base /\ ~repeated'
  BY <1>1 DEF IInv, TypeOK, Unique
<1> QED  BY <1>1, <1>2, <1>3

LEMMA IdsGrow ==
  ASSUME IInv, [EventsNext]_eventsVars
  PROVE  /\ IInv' /\ ids \subseteq ids' /\ ids' \subseteq Counter \X Base
         /\ NewMsgid \/ UNCHANGED vars
<1>1. NewMsgid \/ UNCHANGED vars
  BY DEF EventsNext, eventsVars, Spawn, Ask, GiveUp, Answer, Push, Call, Fork, Dispatch,
     Pull, Serve, Pulled
<1>2. ids \subseteq Counter \X Base
  BY DEF IInv, TypeOK
<1>3. CASE NewMsgid
  <2>1. IInv' /\ ids \subseteq ids' /\ NewId \in Counter \X Base /\ ids' = ids \cup {NewId}
    BY <1>3, Fresh
  <2> QED  BY <1>1, <1>2, <2>1
<1>4. CASE UNCHANGED vars
  <2>1. IInv'
    BY <1>4, StepIInv
  <2> QED  BY <1>1, <1>2, <1>4, <2>1 DEF vars
<1> QED  BY <1>1, <1>3, <1>4

LEMMA InitEvents == EventsInit => EventsInv
<1> SUFFICES ASSUME EventsInit PROVE EventsInv
  OBVIOUS
<1> USE DEF EventsInit
<1>1. IInv
  BY InitIInv
<1>2. Types
  BY EventsAssumption DEF Types
<1>3. Channels
  BY Places DEF Channels
<1>4. Kinds /\ ~misled
  BY DEF Kinds
<1>5. Traced
  BY DEF Traced, Trace
<1>6. Opened
  <2> DEFINE nobody == [i \in Counter \X Base |-> Nothing]
  <2>1. nobody \in Opener
    BY DEF Opener
  <2>2. OpenedBy(nobody)
    BY DEF OpenedBy
  <2> QED  BY <2>1, <2>2 DEF Opened
<1> QED  BY <1>1, <1>2, <1>3, <1>4, <1>5, <1>6 DEF EventsInv

-----------------------------------------------------------------------------
(***************************************************************************)
(* Greenlets, their channels and their traces.                             *)
(***************************************************************************)
\* What a greenlet that goes on in its work may do: it may start its trace.
Stays(g) == UNCHANGED <<cause>> /\ local' = [local EXCEPT ![g] = Trace(g)]

LEMMA TraceIsWork ==
  ASSUME Types, Traced
  PROVE  \A g \in Greenlet : Trace(g) \in Greenlet /\ Trace(g) = cause[g]
BY DEF Types, Traced

\* A channel of a client, and of the server, is not Nothing.
LEMMA NotNothing ==
  /\ \A c \in Client, i \in Counter \X Base :
       [client |-> c, id |-> i] \in ClientChannel /\ [client |-> c, id |-> i] # Nothing
  /\ \A c \in Client, i \in Counter \X Base, j \in Counter \X Base :
       /\ [id |-> i, identity |-> Route[c], about |-> j] \in ServerChannel
       /\ [id |-> i, identity |-> Route[c], about |-> j] # Nothing
  /\ \A i \in Counter \X Base : i # Nothing
  /\ \A g \in Greenlet : g # Nothing
<1>1. \A c \in Client, i \in Counter \X Base : [client |-> c, id |-> i] \in ClientChannel
  BY DEF ClientChannel
<1>2. \A c \in Client, i \in Counter \X Base, j \in Counter \X Base :
        [id |-> i, identity |-> Route[c], about |-> j] \in ServerChannel
  BY DEF ServerChannel
<1>3. /\ Nothing \notin Greenlet /\ Nothing \notin Counter \X Base
      /\ Nothing \notin ClientChannel /\ Nothing \notin ServerChannel
  BY NothingAssumption
<1> HIDE DEF ClientChannel, ServerChannel
<1> QED  BY <1>1, <1>2, <1>3

\* The kind of an event is told by where it goes and whether it has a response_to.
LEMMA KindOf ==
  ASSUME IInv, Kinds, NEW m \in net
  PROVE  /\ m.id \in ids
         /\ m.to = "server" /\ m.responseTo = Nothing => IsRequest(m)
         /\ m.to = "server" /\ m.responseTo # Nothing => IsMore(m)
         /\ m.to # "server" /\ m.responseTo # Nothing => IsAnswer(m)
         /\ m.to = "puller" => IsPush(m)
         /\ m.to \in Client => IsAnswer(m)
<1>1. Nothing \notin ids
  BY NothingAssumption DEF IInv, TypeOK
<1> QED  BY <1>1, Places DEF Kinds, IsRequest, IsMore, IsAnswer, IsPush

\* Traces go with the work.
LEMMA TracedStep ==
  ASSUME IInv, Types, Types', Kinds, Traced, [EventsNext]_eventsVars
  PROVE  Traced'
<1>0. \A g \in Greenlet : Trace(g) \in Greenlet /\ Trace(g) = cause[g]
  BY TraceIsWork
<1>n. \A g \in Greenlet : g # Nothing
  BY NotNothing
<1>1. ASSUME UNCHANGED <<local, cause>> PROVE Traced'
  BY <1>1 DEF Traced, Trace
<1>2. ASSUME NEW g \in Greenlet, Stays(g) PROVE Traced'
  BY <1>0, <1>2, <1>n DEF Traced, Trace, Stays, Types
<1>3. ASSUME NEW g \in Greenlet, NEW t, NEW w \in Greenlet, t = w \/ (t = Nothing /\ w = g),
             local' = [local EXCEPT ![g] = t], cause' = [cause EXCEPT ![g] = w]
      PROVE  Traced'
  BY <1>0, <1>3, <1>n DEF Traced, Trace, Types
<1>4. ASSUME NEW g \in Greenlet, NEW child \in Greenlet, Fork(g, child) PROVE Traced'
  <2>1. /\ g # child /\ cause' = [cause EXCEPT ![child] = cause[g]]
        /\ local' = [local EXCEPT ![g] = Trace(g), ![child] = Trace(g)]
    BY <1>4 DEF Fork
  <2> QED  BY <1>0, <1>n, <2>1 DEF Traced, Trace, Types
<1>5. ASSUME NEW m \in net, NEW g \in Greenlet, Serve(m, g) PROVE Traced'
  <2>1. IsRequest(m)
    BY <1>5, KindOf DEF Serve
  <2> QED  BY <1>3, <1>5, <2>1 DEF Serve, Born, IsRequest, Works
<1>6. ASSUME NEW m \in net, Pull(m) PROVE Traced'
  <2>1. IsPush(m)
    BY <1>6, Places DEF Pull, Kinds, IsRequest, IsMore, IsAnswer, IsPush
  <2> QED  BY <1>3, <1>6, <2>1, Places DEF Pull, IsPush, Works
<1>7. ASSUME NEW g \in Greenlet, Spawn(g) PROVE Traced'
  BY <1>3, <1>7 DEF Spawn, Born
<1>8. ASSUME NEW g \in Greenlet, Answer(g) \/ Push(g) \/ \E c \in Client : Call(g, c)
      PROVE  Traced'
  BY <1>2, <1>8 DEF Answer, Push, Call, Stays
<1>9. ASSUME NEW g \in Greenlet, Ask(g) \/ GiveUp(g) PROVE Traced'
  BY <1>1, <1>9 DEF Ask, GiveUp, greenlets
<1>10. ASSUME NEW m \in net, Dispatch(m) PROVE Traced'
  BY <1>1, <1>10 DEF Dispatch
<1>11. CASE Pulled \/ UNCHANGED eventsVars
  BY <1>1, <1>11 DEF Pulled, eventsVars, greenlets
<1> QED  BY <1>4, <1>5, <1>6, <1>7, <1>8, <1>9, <1>10, <1>11 DEF EventsNext

LEMMA TypesStep ==
  ASSUME IInv, Types, Channels, Kinds, Traced, Opened, [EventsNext]_eventsVars
  PROVE  Types'
<1>0. \A g \in Greenlet : Trace(g) \in Greenlet
  BY TraceIsWork
<1>1. ASSUME NEW g \in Greenlet, Spawn(g) \/ GiveUp(g) PROVE Types'
  BY <1>1 DEF Spawn, Born, GiveUp, Types
<1>2. ASSUME NEW g \in Greenlet, NEW child \in Greenlet, Fork(g, child) PROVE Types'
  BY <1>0, <1>2 DEF Fork, Types
<1>3. ASSUME NEW g \in Greenlet, NEW c \in Client, Call(g, c) PROVE Types'
  <2>1. NewId \in Counter \X Base
    BY <1>3, Fresh DEF Call
  <2>2. [client |-> c, id |-> NewId] \in ClientChannel
    BY <2>1, NotNothing
  <2>3. /\ state' = [state EXCEPT ![g] = "waiting"]
        /\ local' = [local EXCEPT ![g] = Trace(g)]
        /\ calling' = [calling EXCEPT ![g] = [client |-> c, id |-> NewId]]
        /\ UNCHANGED <<serves, cause, misled>>
    BY <1>3 DEF Call
  <2> QED  BY <1>0, <2>2, <2>3 DEF Types
<1>4. ASSUME NEW g \in Greenlet, Ask(g) \/ Answer(g) \/ Push(g) PROVE Types'
  BY <1>0, <1>4 DEF Ask, Answer, Push, Types, greenlets
<1>5. ASSUME NEW m \in net, NEW g \in Greenlet, Serve(m, g) PROVE Types'
  <2>1. IsRequest(m) /\ m.id \in ids
    BY <1>5, KindOf DEF Serve
  <2>2. PICK opener \in Opener : OpenedBy(opener)
    BY DEF Opened
  <2>3. PICK c \in Client : m.frames = Append(Route[c], Empty)
    BY <2>1, <2>2 DEF OpenedBy, IsRequest
  <2>4. Identity(m.frames) = Route[c]
    BY <2>3, ThereAndBack
  <2>5. m.id \in Counter \X Base
    BY <2>1 DEF IInv, TypeOK
  <2>6. [id |-> m.id, identity |-> Identity(m.frames), about |-> m.about] \in ServerChannel
    BY <2>1, <2>4, <2>5, NotNothing DEF IsRequest
  <2> QED  BY <1>5, <2>1, <2>6 DEF Serve, Born, IsRequest, Works, Types
<1>6. ASSUME NEW m \in net, Dispatch(m) PROVE Types'
  BY <1>6 DEF Dispatch, Types
<1>7. ASSUME NEW m \in net, Pull(m) PROVE Types'
  <2>1. m.trace \in Greenlet /\ m.cause \in Greenlet
    BY <1>7, Places DEF Pull, Kinds, IsRequest, IsMore, IsAnswer, IsPush, Works
  <2> QED  BY <1>7, <2>1, Places DEF Pull, Types
<1>8. CASE Pulled \/ UNCHANGED eventsVars
  BY <1>8, Places DEF Pulled, Types, eventsVars, greenlets
<1> QED  BY <1>1, <1>2, <1>3, <1>4, <1>5, <1>6, <1>7, <1>8 DEF EventsNext

LEMMA ChannelsStep ==
  ASSUME IInv, Types, Types', Channels, Kinds, [EventsNext]_eventsVars
  PROVE  Channels'
<1>0. ids \subseteq ids' /\ Puller \in Greenlet
  BY IdsGrow, Places
<1>1. ASSUME NEW g \in Greenlet, Spawn(g) \/ GiveUp(g) PROVE Channels'
  BY <1>0, <1>1 DEF Spawn, Born, GiveUp, Channels, Types
<1>2. ASSUME NEW g \in Greenlet, NEW child \in Greenlet, Fork(g, child) PROVE Channels'
  BY <1>0, <1>2 DEF Fork, Channels, Types
<1>3. ASSUME NEW g \in Greenlet, NEW c \in Client, Call(g, c) PROVE Channels'
  <2>1. NewId \in Counter \X Base /\ NewId \in ids'
    BY <1>3, Fresh DEF Call
  <2>2. [client |-> c, id |-> NewId] # Nothing
    BY <2>1, NotNothing
  <2>3. /\ state[g] = "ready" /\ state' = [state EXCEPT ![g] = "waiting"]
        /\ calling' = [calling EXCEPT ![g] = [client |-> c, id |-> NewId]]
        /\ UNCHANGED serves
    BY <1>3 DEF Call
  <2> HIDE DEF NewId
  <2> QED  BY <1>0, <2>1, <2>2, <2>3 DEF Channels, Types
<1>4. ASSUME NEW g \in Greenlet, Ask(g) \/ Push(g) PROVE Channels'
  BY <1>0, <1>4 DEF Ask, Push, Channels, greenlets
<1>5. ASSUME NEW g \in Greenlet, Answer(g) PROVE Channels'
  <2>1. /\ state[g] = "ready" /\ serves[g] # Nothing /\ UNCHANGED calling
        /\ \/ UNCHANGED <<state, serves>>
           \/ /\ state' = [state EXCEPT ![g] = "done"]
              /\ serves' = [serves EXCEPT ![g] = Nothing]
    BY <1>5 DEF Answer
  <2> QED  BY <1>0, <2>1 DEF Channels, Types
<1>6. ASSUME NEW m \in net, NEW g \in Greenlet, Serve(m, g) PROVE Channels'
  <2>1. IsRequest(m) /\ m.id \in ids
    BY <1>6, KindOf DEF Serve
  <2>2. /\ state[g] = "unborn" /\ state' = [state EXCEPT ![g] = "ready"] /\ UNCHANGED calling
        /\ serves' = [serves EXCEPT ![g] =
             [id |-> m.id, identity |-> Identity(m.frames), about |-> m.about]]
    BY <1>6 DEF Serve, Born
  <2> QED  BY <1>0, <2>1, <2>2 DEF Channels, Types, IsRequest
<1>7. ASSUME NEW m \in net, Dispatch(m) PROVE Channels'
  <2>1. CASE UNCHANGED <<state, calling>>
    BY <1>0, <1>7, <2>1 DEF Dispatch, Channels
  <2>2. CASE /\ m.to \in Client
             /\ state' = [g \in Greenlet |-> IF g \in Addressees(m) THEN "ready" ELSE state[g]]
             /\ calling' = [g \in Greenlet |-> IF g \in Addressees(m) THEN Nothing ELSE calling[g]]
    <3>1. \A g \in Addressees(m) : calling[g] \in ClientChannel
      <4>1. m.to # "server" /\ m.to \in Client
        BY <2>2, Places
      <4>2. m.responseTo \in Counter \X Base
        BY <1>7, <4>1, Places DEF Dispatch, Kinds, IsRequest, IsMore, IsAnswer, IsPush, IInv, TypeOK
      <4> QED  BY <4>1, <4>2, NotNothing DEF Addressees
    <3>2. \A g \in Addressees(m) : g \in Greenlet /\ state[g] = "waiting"
      BY <3>1, NothingAssumption DEF Addressees, Channels
    <3>3. UNCHANGED serves
      BY <1>7 DEF Dispatch
    <3> HIDE DEF Addressees
    <3> QED  BY <1>0, <2>2, <3>2, <3>3 DEF Channels, Types
  <2> QED  BY <1>7, <2>1, <2>2 DEF Dispatch
<1>8. ASSUME NEW m \in net, Pull(m) PROVE Channels'
  BY <1>0, <1>8 DEF Pull, Channels, Types
<1>9. CASE Pulled \/ UNCHANGED eventsVars
  BY <1>0, <1>9 DEF Pulled, Channels, Types, eventsVars, greenlets
<1> QED  BY <1>1, <1>2, <1>3, <1>4, <1>5, <1>6, <1>7, <1>8, <1>9 DEF EventsNext

-----------------------------------------------------------------------------
(***************************************************************************)
(* The events under way.                                                   *)
(***************************************************************************)
LEMMA KindsStep ==
  ASSUME IInv, Types, Channels, Kinds, Traced, Opened, [EventsNext]_eventsVars
  PROVE  Kinds'
<1>0. /\ ids \subseteq ids' /\ \A g \in Greenlet : Trace(g) \in Greenlet /\ Trace(g) = cause[g]
  BY IdsGrow, TraceIsWork
<1>k. ASSUME NEW m \in net
      PROVE  m.id \in ids' /\ (IsRequest(m) \/ IsMore(m)' \/ IsAnswer(m)' \/ IsPush(m))
  BY <1>0 DEF Kinds, IsMore, IsAnswer
<1>s. ASSUME net' \subseteq net PROVE Kinds'
  BY <1>k, <1>s DEF Kinds, IsRequest, IsPush, Works
<1>a. ASSUME NEW m, net' = net \cup {m}, m.id \in ids',
             IsRequest(m) \/ IsMore(m)' \/ IsAnswer(m)' \/ IsPush(m)
      PROVE  Kinds'
  BY <1>a, <1>k DEF Kinds, IsRequest, IsPush, Works
<1>1. ASSUME NEW g \in Greenlet, NEW c \in Client, Call(g, c) PROVE Kinds'
  <2>1. NewId \in ids'
    BY <1>1, Fresh DEF Call
  <2>2. PICK new : new = [to |-> "server", frames |-> Route[c] \o Frames(<<>>, "DEALER"),
                          id |-> NewId, responseTo |-> Nothing, trace |-> Trace(g),
                          cause |-> cause[g], about |-> NewId]
    OBVIOUS
  <2>3. net' = net \cup {new}
    BY <1>1, <2>2 DEF Call, Emit
  <2>4. IsRequest(new)
    BY <1>0, <2>2 DEF IsRequest, Works
  <2>5. new.id \in ids'
    BY <2>1, <2>2
  <2> QED  BY <1>a, <2>3, <2>4, <2>5
<1>2. ASSUME NEW g \in Greenlet, Ask(g) PROVE Kinds'
  <2>1. NewId \in ids'
    BY <1>2, Fresh DEF Ask
  <2>2. PICK new : new = [to |-> "server",
                          frames |-> Route[calling[g].client] \o Frames(<<>>, "DEALER"),
                          id |-> NewId, responseTo |-> calling[g].id, trace |-> Nothing,
                          cause |-> cause[g], about |-> calling[g].id]
    OBVIOUS
  <2>3. net' = net \cup {new}
    BY <1>2, <2>2 DEF Ask, Emit
  <2>4. calling[g].id \in ids
    BY <1>2 DEF Ask, Channels
  <2>5. IsMore(new)'
    BY <1>0, <2>2, <2>4 DEF IsMore
  <2>6. new.id \in ids'
    BY <2>1, <2>2
  <2> QED  BY <1>a, <2>3, <2>5, <2>6
<1>3. ASSUME NEW g \in Greenlet, Answer(g) PROVE Kinds'
  <2>1. NewId \in ids'
    BY <1>3, Fresh DEF Answer
  <2>2. PICK new : new = [to |-> WayBack(Frames(serves[g].identity, "ROUTER")),
                          frames |-> <<Empty>>, id |-> NewId, responseTo |-> serves[g].id,
                          trace |-> Trace(g), cause |-> cause[g], about |-> serves[g].about]
    OBVIOUS
  <2>3. net' = net \cup {new}
    BY <1>3, <2>2 DEF Answer, Emit
  <2>4. serves[g].id \in ids /\ serves[g].about = serves[g].id
    BY <1>3 DEF Answer, Channels
  <2>5. PICK c \in Client : serves[g].identity = Route[c]
    BY <1>3 DEF Answer, Opened, OpenedBy
  <2>6. new.to \in Client
    BY <2>2, <2>5, ThereAndBack
  <2>7. IsAnswer(new)'
    BY <1>0, <2>2, <2>4, <2>6 DEF IsAnswer, Works
  <2>8. new.id \in ids'
    BY <2>1, <2>2
  <2> QED  BY <1>a, <2>3, <2>7, <2>8
<1>4. ASSUME NEW g \in Greenlet, Push(g) PROVE Kinds'
  <2>1. NewId \in ids'
    BY <1>4, Fresh DEF Push
  <2>2. PICK new : new = [to |-> "puller", frames |-> Frames(<<>>, "PUSH"), id |-> NewId,
                          responseTo |-> Nothing, trace |-> Trace(g), cause |-> cause[g],
                          about |-> NewId]
    OBVIOUS
  <2>3. net' = net \cup {new}
    BY <1>4, <2>2 DEF Push, Emit
  <2>4. IsPush(new)
    BY <1>0, <2>2 DEF IsPush, Works
  <2>5. new.id \in ids'
    BY <2>1, <2>2
  <2> QED  BY <1>a, <2>3, <2>4, <2>5
<1>5. ASSUME NEW m \in net, Dispatch(m) \/ Pull(m) \/ \E g \in Greenlet : Serve(m, g)
      PROVE  Kinds'
  BY <1>5, <1>s DEF Dispatch, Pull, Serve
<1>6. ASSUME \/ \E g \in Greenlet : \/ Spawn(g) \/ GiveUp(g)
                                    \/ \E child \in Greenlet : Fork(g, child)
             \/ Pulled \/ UNCHANGED eventsVars
      PROVE  Kinds'
  BY <1>6, <1>s DEF Spawn, GiveUp, Fork, Pulled, eventsVars
<1> QED  BY <1>1, <1>2, <1>3, <1>4, <1>5, <1>6 DEF EventsNext

\* The client an id was given out to stays the one it was; a new id is given out to the
\* client that calls.
LEMMA OpenedStep ==
  ASSUME IInv, Types, Types', Channels, Kinds, Traced, Opened, [EventsNext]_eventsVars
  PROVE  Opened'
<1> PICK opener \in Opener : OpenedBy(opener)
  BY DEF Opened
<1>0. Nothing \notin ids /\ ids \subseteq Counter \X Base
  BY NothingAssumption DEF IInv, TypeOK
<1>1. ASSUME \A g \in Greenlet : /\ calling'[g] \in {Nothing, calling[g]}
                                 /\ serves'[g] \in {Nothing, serves[g]},
             net' \subseteq net
      PROVE  Opened'
  BY <1>1 DEF Opened, OpenedBy
<1>2. ASSUME NEW m, net' = net \cup {m}, m.to = "server" => m.responseTo # Nothing,
             m.to \in Client => m.to = opener[m.responseTo],
             \A g \in Greenlet : /\ calling'[g] = calling[g]
                                 /\ serves'[g] \in {Nothing, serves[g]}
      PROVE  Opened'
  BY <1>2 DEF Opened, OpenedBy
<1>3. ASSUME NEW g \in Greenlet, NEW c \in Client, Call(g, c) PROVE Opened'
  <2>1. PICK i : i = NewId /\ i \in Counter \X Base /\ i \notin ids
    BY <1>3, Fresh DEF Call
  <2>2. PICK new : new = [to |-> "server", frames |-> Route[c] \o Frames(<<>>, "DEALER"),
                          id |-> i, responseTo |-> Nothing, trace |-> Trace(g),
                          cause |-> cause[g], about |-> i]
    OBVIOUS
  <2>3. /\ net' = net \cup {new} /\ UNCHANGED serves
        /\ calling' = [calling EXCEPT ![g] = [client |-> c, id |-> i]]
    BY <1>3, <2>1, <2>2 DEF Call, Emit
  <2>4. new.frames = Append(Route[c], Empty)
    BY <2>2, ThereAndBack
  <2> DEFINE next == [opener EXCEPT ![i] = c]
  <2>5. next \in Opener /\ next[i] = c /\ \A j \in ids : next[j] = opener[j]
    BY <1>0, <2>1 DEF Opener
  <2> HIDE DEF next
  <2>6. ASSUME NEW h \in Greenlet
        PROVE  /\ calling'[h] # Nothing => calling'[h].client = next[calling'[h].id]
               /\ serves'[h] # Nothing => /\ next[serves'[h].id] \in Client
                                          /\ serves'[h].identity = Route[next[serves'[h].id]]
    <3>1. CASE h = g
      <4>1. calling'[h] = [client |-> c, id |-> i]
        BY <2>3, <3>1 DEF Types
      <4> QED  BY <2>3, <2>5, <4>1 DEF OpenedBy, Channels
    <3>2. CASE h # g
      <4>1. calling'[h] = calling[h]
        BY <2>3, <3>2 DEF Types
      <4> QED  BY <2>3, <2>5, <4>1 DEF OpenedBy, Channels
    <3> QED  BY <3>1, <3>2
  <2>7. ASSUME NEW m \in net
        PROVE  /\ m.to = "server" /\ m.responseTo = Nothing =>
                    next[m.id] \in Client /\ m.frames = Append(Route[next[m.id]], Empty)
               /\ m.to \in Client => m.to = next[m.responseTo]
    <3>1. m.id \in ids /\ (m.to \in Client => m.responseTo \in ids)
      BY KindOf DEF IsAnswer
    <3> QED  BY <2>5, <3>1 DEF OpenedBy
  <2>8. new.to = "server" /\ new.to \notin Client /\ new.id = i
    BY <2>2, Places
  <2>9. OpenedBy(next)'
    BY <2>3, <2>4, <2>5, <2>6, <2>7, <2>8 DEF OpenedBy
  <2> QED  BY <2>5, <2>9 DEF Opened
<1>4. ASSUME NEW g \in Greenlet, Ask(g) PROVE Opened'
  <2>1. PICK new : new = [to |-> "server",
                          frames |-> Route[calling[g].client] \o Frames(<<>>, "DEALER"),
                          id |-> NewId, responseTo |-> calling[g].id, trace |-> Nothing,
                          cause |-> cause[g], about |-> calling[g].id]
    OBVIOUS
  <2>2. net' = net \cup {new} /\ UNCHANGED <<calling, serves>>
    BY <1>4, <2>1 DEF Ask, Emit, greenlets
  <2>3. calling[g].id \in ids
    BY <1>4 DEF Ask, Channels
  <2>4. new.to \notin Client /\ new.responseTo # Nothing
    BY <1>0, <2>1, <2>3, Places
  <2> QED  BY <1>2, <2>2, <2>4
<1>5. ASSUME NEW g \in Greenlet, Answer(g) PROVE Opened'
  <2>1. PICK new : new = [to |-> WayBack(Frames(serves[g].identity, "ROUTER")),
                          frames |-> <<Empty>>, id |-> NewId, responseTo |-> serves[g].id,
                          trace |-> Trace(g), cause |-> cause[g], about |-> serves[g].about]
    OBVIOUS
  <2>2. /\ net' = net \cup {new} /\ UNCHANGED calling
        /\ serves' = serves \/ serves' = [serves EXCEPT ![g] = Nothing]
    BY <1>5, <2>1 DEF Answer, Emit
  <2>3. \A h \in Greenlet : serves'[h] \in {Nothing, serves[h]}
    BY <2>2 DEF Types
  <2>4. /\ opener[serves[g].id] \in Client /\ serves[g].identity = Route[opener[serves[g].id]]
        /\ serves[g].id \in ids
    BY <1>5 DEF Answer, OpenedBy, Channels
  <2>5. new.to = opener[serves[g].id]
    BY <2>1, <2>4, ThereAndBack
  <2>6. new.to = opener[new.responseTo] /\ new.responseTo # Nothing
    BY <1>0, <2>1, <2>4, <2>5
  <2> QED  BY <1>2, <2>2, <2>3, <2>6
<1>6. ASSUME NEW g \in Greenlet, Push(g) PROVE Opened'
  <2>1. PICK new : new = [to |-> "puller", frames |-> Frames(<<>>, "PUSH"), id |-> NewId,
                          responseTo |-> Nothing, trace |-> Trace(g), cause |-> cause[g],
                          about |-> NewId]
    OBVIOUS
  <2>2. net' = net \cup {new} /\ UNCHANGED <<calling, serves>>
    BY <1>6, <2>1 DEF Push, Emit
  <2>3. new.to # "server" /\ new.to \notin Client
    BY <2>1, Places
  <2> QED  BY <1>2, <2>2, <2>3
<1>7. ASSUME NEW m \in net, NEW g \in Greenlet, Serve(m, g) PROVE Opened'
  <2>1. /\ m.to = "server" /\ m.responseTo = Nothing
        /\ net' \subseteq net /\ UNCHANGED calling
        /\ serves' = [serves EXCEPT ![g] =
             [id |-> m.id, identity |-> Identity(m.frames), about |-> m.about]]
    BY <1>7 DEF Serve, Born
  <2>2. opener[m.id] \in Client /\ Identity(m.frames) = Route[opener[m.id]]
    BY <2>1, ThereAndBack DEF OpenedBy
  <2>3. ASSUME NEW h \in Greenlet, serves'[h] # Nothing
        PROVE  opener[serves'[h].id] \in Client /\ serves'[h].identity = Route[opener[serves'[h].id]]
    <3>1. CASE h = g
      <4>1. serves'[h] = [id |-> m.id, identity |-> Identity(m.frames), about |-> m.about]
        BY <2>1, <3>1 DEF Types
      <4> QED  BY <2>2, <4>1
    <3>2. CASE h # g
      <4>1. serves'[h] = serves[h]
        BY <2>1, <3>2 DEF Types
      <4> QED  BY <2>3, <4>1 DEF OpenedBy
    <3> QED  BY <3>1, <3>2
  <2> QED  BY <2>1, <2>3 DEF Opened, OpenedBy
<1>8. ASSUME NEW m \in net, Dispatch(m) PROVE Opened'
  <2>1. \A g \in Greenlet : calling'[g] \in {Nothing, calling[g]}
    BY <1>8 DEF Dispatch
  <2> QED  BY <1>1, <1>8, <2>1 DEF Dispatch
<1>9. ASSUME NEW g \in Greenlet, Spawn(g) \/ GiveUp(g) \/ \E child \in Greenlet : Fork(g, child)
      PROVE  Opened'
  <2>1. \A h \in Greenlet : /\ calling'[h] \in {Nothing, calling[h]}
                            /\ serves'[h] \in {Nothing, serves[h]}
    BY <1>9 DEF Spawn, Born, GiveUp, Fork, Types
  <2> QED  BY <1>1, <1>9, <2>1 DEF Spawn, GiveUp, Fork
<1>10. CASE Pulled \/ UNCHANGED eventsVars \/ \E m \in net : Pull(m)
  BY <1>1, <1>10 DEF Pulled, eventsVars, greenlets, Pull
<1> QED  BY <1>3, <1>4, <1>5, <1>6, <1>7, <1>8, <1>9, <1>10 DEF EventsNext

-----------------------------------------------------------------------------
(***************************************************************************)
(* The end of its call that an event reaches.                              *)
(***************************************************************************)
LEMMA ReachesItsOwn ==
  ASSUME IInv, Types, Channels, Kinds, Opened, NEW m \in net, m.responseTo # Nothing
  PROVE  Addressees(m) = Owners(m)
<1>1. CASE m.to = "server"
  <2>1. m.about = m.responseTo
    BY <1>1, KindOf DEF IsMore
  <2> QED  BY <1>1, <2>1 DEF Addressees, Owners, Channels
<1>2. CASE m.to # "server"
  <2>1. m.to \in Client /\ m.about = m.responseTo /\ m.responseTo \in ids
    BY <1>2, KindOf DEF IsAnswer
  <2>2. PICK opener \in Opener : OpenedBy(opener)
    BY DEF Opened
  <2>3. m.to = opener[m.responseTo] /\ m.responseTo \in Counter \X Base
    BY <2>1, <2>2 DEF OpenedBy, IInv, TypeOK
  <2>4. [client |-> m.to, id |-> m.responseTo] # Nothing
    BY <2>1, <2>3, NotNothing
  <2>5. ASSUME NEW g \in Greenlet
        PROVE  calling[g] = [client |-> m.to, id |-> m.responseTo]
                 <=> calling[g] # Nothing /\ calling[g].id = m.about
    <3>1. ASSUME calling[g] # Nothing, calling[g].id = m.about
          PROVE  calling[g] = [client |-> m.to, id |-> m.responseTo]
      <4>1. calling[g] \in ClientChannel
        BY <3>1 DEF Types
      <4>2. calling[g] = [client |-> calling[g].client, id |-> calling[g].id]
        BY <4>1 DEF ClientChannel
      <4>3. calling[g].client = opener[calling[g].id]
        BY <2>2, <3>1 DEF OpenedBy
      <4> QED  BY <2>1, <2>3, <3>1, <4>2, <4>3
    <3> QED  BY <2>1, <2>4, <3>1
  <2> QED  BY <1>2, <2>5 DEF Addressees, Owners
<1> QED  BY <1>1, <1>2

LEMMA StepEvents == EventsInv /\ [EventsNext]_eventsVars => EventsInv'
<1> SUFFICES ASSUME EventsInv, [EventsNext]_eventsVars PROVE EventsInv'
  OBVIOUS
<1>0. IInv /\ Types /\ Channels /\ Kinds /\ Traced /\ Opened /\ ~misled
  BY DEF EventsInv
<1>1. IInv' /\ Types'
  BY <1>0, IdsGrow, TypesStep
<1>2. Channels' /\ Traced'
  BY <1>0, <1>1, ChannelsStep, TracedStep
<1>3. Kinds' /\ Opened'
  BY <1>0, <1>1, KindsStep, OpenedStep
<1>4. ~misled'
  <2>1. ASSUME NEW m \in net, Dispatch(m) PROVE ~misled'
    <3>1. Addressees(m) = Owners(m)
      BY <1>0, <2>1, ReachesItsOwn DEF Dispatch
    <3> HIDE DEF Addressees, Owners
    <3> QED  BY <1>0, <2>1, <3>1 DEF Dispatch
  <2>2. (\E m \in net : Dispatch(m)) \/ UNCHANGED misled
    BY DEF EventsNext, Spawn, Ask, GiveUp, Answer, Push, Call, Fork, Pull, Serve, Pulled,
       eventsVars
  <2> QED  BY <1>0, <2>1, <2>2
<1> QED  BY <1>1, <1>2, <1>3, <1>4 DEF EventsInv

LEMMA EventsInvariant == EventsSpec => []EventsInv
BY InitEvents, StepEvents, PTL DEF EventsSpec

\* The types; every event under way has an id that was given out, and an answer is to
\* such an id.
THEOREM EventsTypeCorrect == EventsSpec => []EventsTypeOK
<1>1. EventsInv => EventsTypeOK
  <2> SUFFICES ASSUME IInv, Types, Channels, Kinds PROVE EventsTypeOK
    BY DEF EventsInv
  <2>1. \A m \in net : m.id \in ids /\ (m.to \in Client => m.responseTo \in ids)
    BY KindOf DEF IsAnswer
  <2> QED  BY <2>1 DEF IInv, Types, Channels, EventsTypeOK
<1> QED  BY <1>1, EventsInvariant, PTL

\* No id is given out twice, to whatever greenlets of whatever calls.
THEOREM EventsUniqueCorrect == EventsSpec => []Unique
<1>1. EventsInv => Unique
  BY DEF EventsInv, IInv
<1> QED  BY <1>1, EventsInvariant, PTL

\* An event reaches the other end of its own call, and never another call, through
\* whatever brokers and however late.
THEOREM ReachCorrect == EventsSpec => []RepliesReachTheirCall
<1>1. EventsInv => RepliesReachTheirCall
  BY DEF EventsInv, RepliesReachTheirCall
<1> QED  BY <1>1, EventsInvariant, PTL

\* An event carries the trace of the work its greenlet carries on, through calls,
\* pushes and forks.
THEOREM TraceCorrect == EventsSpec => []TraceFollows
<1>1. EventsInv => TraceFollows
  <2> SUFFICES ASSUME IInv, Kinds, NEW m \in net
               PROVE  m.trace = m.cause \/ (m.to = "server" /\ m.responseTo # Nothing)
    BY DEF EventsInv, TraceFollows
  <2> QED  BY KindOf DEF Kinds, IsRequest, IsMore, IsAnswer, IsPush, Works
<1> QED  BY <1>1, EventsInvariant, PTL

=============================================================================
