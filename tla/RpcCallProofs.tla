----------------------------- MODULE RpcCallProofs -----------------------------
(***************************************************************************)
(* The safety of RpcCall for any window and any length of stream.          *)
(***************************************************************************)
EXTENDS RpcCall, SequenceTheorems, TLAPS

-----------------------------------------------------------------------------
(***************************************************************************)
(* Answers, and sequences of them.                                         *)
(***************************************************************************)
FinalName == {"OK", "ERR", "STREAM_DONE"}
Finals == {Final(name) : name \in FinalName}

LEMMA Numbers == MaxItems \in Nat /\ Window \in Nat /\ Window > 0
BY CallAssumption

LEMMA Answers ==
  /\ \A n \in 1..MaxItems : Item(n) \in Answer
  /\ \A n \in Nat : Item(n).name = "STREAM" /\ Item(n).n = n /\ Item(n) \notin Finals
  /\ \A f \in Finals : f \in Answer /\ f.name \in FinalName /\ f.name # "STREAM"
  /\ \A a \in Answer : /\ a.name = "STREAM" => a.n \in 1..MaxItems /\ a = Item(a.n)
                       /\ a.name # "STREAM" => a \in Finals
BY Numbers DEF Answer, Finals, FinalName, Item, Final

LEMMA Taken ==
  ASSUME NEW S, NEW s \in Seq(S), s # <<>>
  PROVE  /\ Len(s) \in Nat /\ Len(s) > 0 /\ Head(s) = s[1] /\ Head(s) \in S
         /\ Tail(s) \in Seq(S) /\ Len(Tail(s)) = Len(s) - 1
         /\ \A i \in 1..Len(Tail(s)) : i + 1 \in 1..Len(s) /\ Tail(s)[i] = s[i + 1]
<1>1. /\ Tail(s) \in Seq(S) /\ Len(Tail(s)) = Len(s) - 1
      /\ \A i \in 1..Len(Tail(s)) : Tail(s)[i] = s[i + 1]
  BY HeadTailProperties
<1>2. Len(s) \in Nat /\ Len(s) > 0 /\ Head(s) = s[1] /\ Head(s) \in S
  BY EmptySeq, HeadTailProperties, LenProperties
<1> QED  BY <1>1, <1>2

LEMMA Grown ==
  ASSUME NEW S, NEW s \in Seq(S), NEW e \in S
  PROVE  /\ Append(s, e) \in Seq(S) /\ Len(s) \in Nat /\ Len(Append(s, e)) = Len(s) + 1
         /\ \A i \in 1..Len(s) : Append(s, e)[i] = s[i]
         /\ Append(s, e)[Len(s) + 1] = e
BY AppendProperties, LenProperties

-----------------------------------------------------------------------------
(***************************************************************************)
(* Types.                                                                  *)
(***************************************************************************)
CallState == {"idle", "calling", "waiting", "unstarted", "pulling", "suspended",
              "stuck", "closing", "over"}
Outcome == {"none", "refused", "value", "error", "unmatched", "raised", "timeout",
            "lost", "exhausted", "dropped", "cut"}
TaskState == {"none", "queued", "starting", "loaded", "running", "streaming",
              "emitting", "replying", "erring", "closing", "over", "aborted"}
ChanState == {"none", "open", "closed"}

\* How the call ends is known; the task streams no more.
Gone == call \in {"closing", "over"}
Ended == task \in {"closing", "over", "aborted"}

\* The part of the type invariant that is not about sequences.  A task that emits
\* an item has one more to emit.
Scalars ==
  /\ call \in CallState /\ outcome \in Outcome /\ task \in TaskState
  /\ closeIf \in BOOLEAN /\ receiving \in BOOLEAN /\ shut \in BOOLEAN
  /\ kind \in [stream : BOOLEAN, async : BOOLEAN]
  /\ produced \in 0..MaxItems
  /\ chan \in [End -> ChanState] /\ lost \in [End -> BOOLEAN] /\ pending \in [End -> BOOLEAN]
  /\ task = "emitting" => produced < MaxItems

\* Answers in the two queues, and the window over them.
Queues ==
  /\ yielded \in Seq(1..MaxItems) /\ first \in Answer \cup {Final("none")}
  /\ wire \in Seq(Answer) /\ inbox \in Seq(Answer) /\ credit \in Nat
  /\ Len(wire) + Len(inbox) + credit <= Window

Types == Scalars /\ Queues

\* What becomes of an answer that the iterator consumes.
LEMMA Consumed ==
  ASSUME NEW answer, Consume(answer)
  PROVE  \/ /\ answer.name = "STREAM" /\ yielded' = Append(yielded, answer.n)
            /\ call' = "suspended" /\ UNCHANGED <<outcome, hooks>>
         \/ /\ answer.name # "STREAM" /\ yielded' = yielded
            /\ \E how \in {"error", "exhausted", "raised"} : Finish(how)
BY DEF Consume, FinishWith

LEMMA ScalarsStep == Scalars /\ [Next]_vars => Scalars'
<1> SUFFICES ASSUME Scalars, [Next]_vars PROVE Scalars'
  OBVIOUS
<1> USE DEF Scalars, CallState, Outcome, TaskState, ChanState, End
<1>1. CASE StartTask
  BY <1>1 DEF StartTask, clientVars, session
<1>2. CASE LoadRequest
  BY <1>2 DEF LoadRequest, clientVars, chanVars, session
<1>3. CASE Execute
  BY <1>3 DEF Execute, clientVars, chanVars, session
<1>4. CASE Yields
  BY <1>4, Numbers DEF Yields, clientVars, chanVars, session
<1>5. CASE Returns
  BY <1>5 DEF Returns, clientVars, chanVars, session
<1>6. CASE Raises
  BY <1>6 DEF Raises, clientVars, chanVars, session
<1>7. CASE EmitItem
  BY <1>7, Numbers DEF EmitItem, clientVars, chanVars, session
<1>8. CASE EmitLast \/ EmitRefused
  BY <1>8 DEF EmitLast, EmitRefused, clientVars, chanVars, session
<1>9. CASE CloseTask \/ ServerDies
  BY <1>9 DEF CloseTask, ServerDies, clientVars, session, CloseChan
<1>10. CASE TaskLost
  BY <1>10 DEF TaskLost, clientVars, session
<1>11. CASE MethodSwallows
  BY <1>11 DEF MethodSwallows, clientVars, taskVars, session
<1>12. CASE LoseClient
  BY <1>12 DEF LoseClient, GivesUp, clientVars, taskVars, session
<1>13. CASE BeginCall
  BY <1>13 DEF BeginCall, taskVars, session
<1>14. CASE SendRequest
  BY <1>14 DEF SendRequest, Abandon, session, chanVars
<1>15. CASE Receive
  BY <1>15 DEF Receive, clientVars, taskVars, session, CloseChan
<1>16. CASE FirstReply
  BY <1>16 DEF FirstReply, FinishWith, Finish, taskVars, session, chanVars
<1>17. CASE FirstOfStream
  BY <1>17 DEF FirstOfStream, taskVars, session
<1>18. CASE Unmatched \/ Expire
  BY <1>18 DEF Unmatched, Expire, Finish, taskVars, session, chanVars
<1>19. CASE CloseCall
  BY <1>19 DEF CloseCall, CloseChan, taskVars, session
<1>20. CASE StartIterator \/ Pull
  <2>1. /\ UNCHANGED <<taskVars, chanVars>>
        /\ \E answer : Consume(answer)
    BY <1>20 DEF StartIterator, Pull
  <2>2. call' \in CallState /\ outcome' \in Outcome
    BY <2>1, Consumed DEF Finish
  <2> QED  BY <2>1, <2>2 DEF taskVars, session, chanVars
<1>21. CASE Resume
  BY <1>21 DEF Resume, Finish, taskVars, session, chanVars
<1>22. CASE Drop
  BY <1>22 DEF Drop, Abandon, Finish, taskVars, session, chanVars
<1>23. CASE CloseClient
  BY <1>23 DEF CloseClient, clientVars, chanVars
<1>24. CASE LoseServer
  BY <1>24 DEF LoseServer, GivesUp, clientVars, taskVars, session
<1>25. CASE CallerStruck
  <2>1. /\ UNCHANGED <<taskVars, closeIf, chan, lost>>
        /\ pending' = [pending EXCEPT !["client"] = FALSE]
        /\ receiving' \in {receiving, FALSE}
    BY <1>25 DEF CallerStruck
  <2>2. call' \in CallState /\ outcome' \in Outcome
    BY <1>25 DEF CallerStruck, Abandon, Finish
  <2> QED  BY <2>1, <2>2 DEF taskVars, session
<1>26. CASE UNCHANGED vars
  BY <1>26 DEF vars, clientVars, taskVars, session, chanVars
<1> QED
  BY <1>1, <1>2, <1>3, <1>4, <1>5, <1>6, <1>7, <1>8, <1>9, <1>10, <1>11, <1>12, <1>13,
     <1>14, <1>15, <1>16, <1>17, <1>18, <1>19, <1>20, <1>21, <1>22, <1>23, <1>24, <1>25,
     <1>26 DEF Next, TaskStep, ClientStep

-----------------------------------------------------------------------------
(***************************************************************************)
(* What the steps do to the answers.                                       *)
(***************************************************************************)
\* Nothing, but that an iterator may be dropped.
Rests ==
  /\ UNCHANGED <<yielded, first, inbox, wire, credit, produced>>
  /\ Gone' \/ (call' = "unstarted" <=> call = "unstarted")
  /\ Gone => Gone'
  /\ Ended => Ended'

\* The call ends, maybe by an answer it took, and its close() drops what is on the wire.
Ends ==
  /\ Gone' /\ (wire' = wire \/ wire' = <<>>)
  /\ inbox' = inbox \/ (inbox # <<>> /\ inbox' = Tail(inbox))
  /\ UNCHANGED <<yielded, first, credit, produced, task>>

\* The task emits an item, or the last answer.
EmitsItem ==
  /\ Emit(Item(produced + 1)) /\ produced' = produced + 1
  /\ task = "emitting" /\ task' = "streaming"
  /\ UNCHANGED <<call, yielded, first, inbox>>
EmitsLast ==
  /\ \E final \in Finals : Emit(final)
  /\ task \in {"replying", "erring"} /\ task' = "closing"
  /\ UNCHANGED <<call, yielded, first, inbox, produced>>

Receives ==
  /\ wire # <<>> /\ wire' = Tail(wire) /\ inbox' = Append(inbox, Head(wire))
  /\ closeIf /\ Head(wire).name = "STREAM_DONE" => CloseChan("client")
  /\ UNCHANGED <<call, yielded, first, credit, produced, task>>

\* The first answer of a stream is kept in the iterator, which yields it later.
Keeps ==
  /\ call = "waiting" /\ call' = "unstarted"
  /\ inbox # <<>> /\ inbox' = Tail(inbox) /\ first' = Head(inbox)
  /\ UNCHANGED <<yielded, wire, credit, produced, task>>
YieldsFirst ==
  /\ call = "unstarted" /\ call' = "suspended"
  /\ first.name = "STREAM" /\ yielded' = Append(yielded, first.n)
  /\ UNCHANGED <<first, inbox, wire, credit, produced, task>>
YieldsNext ==
  /\ call = "pulling" /\ call' = "suspended"
  /\ inbox # <<>> /\ inbox' = Tail(inbox)
  /\ Head(inbox).name = "STREAM" /\ yielded' = Append(yielded, Head(inbox).n)
  /\ UNCHANGED <<first, wire, credit, produced, task>>

AsksForMore ==
  /\ credit' = Grant /\ call = "suspended" /\ call' = "pulling"
  /\ UNCHANGED <<yielded, first, inbox, wire, produced, task>>

LEMMA Kinds ==
  ASSUME [Next]_vars
  PROVE  \/ Rests \/ Ends \/ EmitsItem \/ EmitsLast \/ Receives \/ Keeps
         \/ YieldsFirst \/ YieldsNext \/ AsksForMore
<1> USE DEF Gone, Ended
<1>1. CASE StartTask \/ LoadRequest \/ Execute \/ Yields \/ Returns \/ Raises
  BY <1>1 DEF StartTask, LoadRequest, Execute, Yields, Returns, Raises, Rests,
     clientVars, session
<1>2. CASE EmitRefused \/ CloseTask \/ TaskLost \/ MethodSwallows \/ ServerDies \/ LoseClient
  BY <1>2 DEF EmitRefused, CloseTask, TaskLost, MethodSwallows, ServerDies, LoseClient, GivesUp,
     Rests, clientVars, taskVars, session
<1>3. CASE EmitItem
  BY <1>3 DEF EmitItem, EmitsItem, clientVars
<1>4. CASE EmitLast
  <2>1. \E final \in Finals : Emit(final)
    BY <1>4 DEF EmitLast, Finals, FinalName
  <2> QED  BY <1>4, <2>1 DEF EmitLast, EmitsLast, clientVars
<1>5. CASE BeginCall \/ SendRequest \/ CloseClient \/ LoseServer
  BY <1>5 DEF BeginCall, SendRequest, CloseClient, LoseServer, GivesUp, Abandon, Rests,
     taskVars, session, clientVars
<1>6. CASE Receive
  BY <1>6 DEF Receive, Receives, Queued, clientVars, taskVars
<1>7. CASE FirstReply \/ Unmatched \/ Expire \/ CloseCall
  BY <1>7 DEF FirstReply, Unmatched, Expire, CloseCall, FinishWith, Finish, Ends, taskVars
<1>8. CASE FirstOfStream
  BY <1>8 DEF FirstOfStream, Keeps, taskVars
<1>9. CASE StartIterator
  <2>1. /\ call = "unstarted" /\ Consume(first)
        /\ UNCHANGED <<first, taskVars, inbox, wire, credit>>
    BY <1>9 DEF StartIterator
  <2> QED  BY <2>1, Consumed DEF YieldsFirst, Ends, Finish, taskVars
<1>10. CASE Pull
  <2>1. /\ call = "pulling" /\ inbox # <<>> /\ Consume(Head(inbox)) /\ inbox' = Tail(inbox)
        /\ UNCHANGED <<first, taskVars, wire, credit>>
    BY <1>10 DEF Pull
  <2> QED  BY <2>1, Consumed DEF YieldsNext, Ends, Finish, taskVars
<1>11. CASE Resume
  <2>1. /\ call = "suspended" /\ UNCHANGED <<yielded, first, taskVars, inbox, wire>>
        /\ \/ Finish("lost") /\ UNCHANGED credit
           \/ call' \in {"stuck", "pulling"} /\ UNCHANGED credit
           \/ call' = "pulling" /\ credit' = Grant
    BY <1>11 DEF Resume
  <2> QED  BY <2>1 DEF Rests, Ends, AsksForMore, Finish, taskVars
<1>12. CASE Drop \/ CallerStruck
  BY <1>12 DEF Drop, CallerStruck, Abandon, Finish, Rests, taskVars
<1>13. CASE UNCHANGED vars
  BY <1>13 DEF vars, clientVars, taskVars, session, Rests
<1> QED
  BY <1>1, <1>2, <1>3, <1>4, <1>5, <1>6, <1>7, <1>8, <1>9, <1>10, <1>11, <1>12, <1>13
  DEF Next, TaskStep, ClientStep

\* What goes to a client that listens is queued on the wire.
LEMMA Emitting ==
  ASSUME Queues, NEW answer \in Answer, Emit(answer)
  PROVE  /\ credit > 0 /\ credit' = credit - 1 /\ credit' \in Nat
         /\ wire' = IF chan["client"] = "open" THEN Append(wire, answer) ELSE wire
         /\ wire' \in Seq(Answer) /\ Len(wire') <= Len(wire) + 1 /\ Len(wire) \in Nat
<1>1. credit > 0 /\ credit' = credit - 1
      /\ wire' = IF chan["client"] = "open" THEN Append(wire, answer) ELSE wire
  BY DEF Emit
<1>2. /\ Append(wire, answer) \in Seq(Answer) /\ Len(Append(wire, answer)) = Len(wire) + 1
      /\ Len(wire) \in Nat
  BY Grown DEF Queues
<1> QED  BY <1>1, <1>2 DEF Queues

LEMMA QueuesStep == Types /\ [Next]_vars => Queues'
<1> SUFFICES ASSUME Scalars, Queues, [Next]_vars PROVE Queues'
  BY DEF Types
<1>0. /\ Len(wire) \in Nat /\ Len(inbox) \in Nat /\ credit \in Nat
      /\ Len(wire) + Len(inbox) + credit <= Window
      /\ produced \in 0..MaxItems
  BY LenProperties DEF Queues, Scalars
<1>1. CASE Rests
  BY <1>1 DEF Rests, Queues
<1>2. CASE Ends
  <2>1. inbox' \in Seq(Answer) /\ Len(inbox') \in Nat /\ Len(inbox') <= Len(inbox)
    <3>1. CASE inbox' = inbox
      BY <1>0, <3>1 DEF Queues
    <3>2. CASE inbox # <<>> /\ inbox' = Tail(inbox)
      <4>1. inbox' \in Seq(Answer) /\ Len(inbox') = Len(inbox) - 1 /\ Len(inbox) > 0
        BY <3>2, Taken DEF Queues
      <4> QED  BY <1>0, <4>1
    <3> QED  BY <1>2, <3>1, <3>2 DEF Ends
  <2>2. wire' \in Seq(Answer) /\ Len(wire') \in Nat /\ Len(wire') <= Len(wire)
    <3>1. CASE wire' = wire
      BY <1>0, <3>1 DEF Queues
    <3>2. CASE wire' = <<>>
      BY <1>0, <3>2
    <3> QED  BY <1>2, <3>1, <3>2 DEF Ends
  <2>3. Len(wire') + Len(inbox') + credit <= Window
    BY <1>0, <2>1, <2>2, Numbers
  <2> QED  BY <1>2, <2>1, <2>2, <2>3 DEF Ends, Queues
<1>3. CASE EmitsItem \/ EmitsLast
  <2>1. \E answer \in Answer : Emit(answer)
    <3>1. CASE EmitsItem
      <4>1. produced + 1 \in 1..MaxItems
        BY <1>0, <3>1, Numbers DEF EmitsItem, Scalars
      <4> QED  BY <3>1, <4>1, Answers DEF EmitsItem
    <3>2. CASE EmitsLast
      BY <3>2, Answers DEF EmitsLast
    <3> QED  BY <1>3, <3>1, <3>2
  <2>2. PICK answer \in Answer : Emit(answer)
    BY <2>1
  <2>3. /\ credit' = credit - 1 /\ credit' \in Nat /\ wire' \in Seq(Answer)
        /\ Len(wire') <= Len(wire) + 1
    BY <2>2, Emitting
  <2>4. Len(wire') \in Nat
    BY <2>3, LenProperties
  <2>5. UNCHANGED <<yielded, first, inbox>>
    BY <1>3 DEF EmitsItem, EmitsLast
  <2>6. Len(wire') + Len(inbox) + credit' <= Window
    BY <1>0, <2>3, <2>4, Numbers
  <2> QED  BY <2>3, <2>5, <2>6 DEF Queues
<1>4. CASE Receives
  <2>1. /\ wire' \in Seq(Answer) /\ Len(wire') = Len(wire) - 1 /\ Head(wire) \in Answer
        /\ Len(wire) > 0
    BY <1>4, Taken DEF Receives, Queues
  <2>2. inbox' \in Seq(Answer) /\ Len(inbox') = Len(inbox) + 1
    BY <1>4, <2>1, Grown DEF Receives, Queues
  <2>3. Len(wire') + Len(inbox') + credit <= Window
    BY <1>0, <2>1, <2>2, Numbers
  <2> QED  BY <1>4, <2>1, <2>2, <2>3 DEF Receives, Queues
<1>5. CASE Keeps \/ YieldsNext
  <2>1. /\ inbox # <<>> /\ inbox' = Tail(inbox)
        /\ UNCHANGED <<wire, credit>>
    BY <1>5 DEF Keeps, YieldsNext
  <2>2. /\ inbox' \in Seq(Answer) /\ Len(inbox') = Len(inbox) - 1 /\ Head(inbox) \in Answer
        /\ Len(inbox) > 0
    BY <2>1, Taken DEF Queues
  <2>3. Len(wire') + Len(inbox') + credit <= Window
    BY <1>0, <2>1, <2>2, Numbers
  <2>4. first' \in Answer \cup {Final("none")}
    BY <1>5, <2>2 DEF Keeps, YieldsNext, Queues
  <2>5. yielded' \in Seq(1..MaxItems)
    <3>1. CASE Keeps
      BY <3>1 DEF Keeps, Queues
    <3>2. CASE YieldsNext
      <4>1. Head(inbox).n \in 1..MaxItems
        BY <2>2, <3>2, Answers DEF YieldsNext
      <4> QED  BY <3>2, <4>1, Grown DEF YieldsNext, Queues
    <3> QED  BY <1>5, <3>1, <3>2
  <2> QED  BY <2>1, <2>2, <2>3, <2>4, <2>5 DEF Queues
<1>6. CASE YieldsFirst
  <2>1. first.name = "STREAM" /\ yielded' = Append(yielded, first.n)
        /\ UNCHANGED <<first, inbox, wire, credit>>
    BY <1>6 DEF YieldsFirst
  <2>2. first.n \in 1..MaxItems
    BY <2>1, Answers DEF Queues, Final
  <2>3. yielded' \in Seq(1..MaxItems)
    BY <2>1, <2>2, Grown DEF Queues
  <2> QED  BY <2>1, <2>3 DEF Queues
<1>7. CASE AsksForMore
  <2>1. credit' \in Nat /\ Len(wire) + Len(inbox) + credit' <= Window
    BY <1>0, <1>7, Numbers DEF AsksForMore, Grant
  <2> QED  BY <1>7, <2>1 DEF AsksForMore, Queues
<1> QED  BY <1>1, <1>2, <1>3, <1>4, <1>5, <1>6, <1>7, Kinds

-----------------------------------------------------------------------------
(***************************************************************************)
(* Answers in order.                                                       *)
(***************************************************************************)
\* The k-th answer of the task: its k-th item, or the last one.
At(k, answer) ==
  IF k <= produced THEN answer = Item(k) ELSE answer \in Finals /\ Ended

\* How many answers are in the iterator, and before those in the queue and on the wire.
Kept == IF call = "unstarted" THEN 1 ELSE 0
BeforeInbox == Len(yielded) + Kept
BeforeWire == BeforeInbox + Len(inbox)

Ordered ==
  ~Gone =>
    /\ Len(yielded) <= produced /\ \A i \in 1..Len(yielded) : yielded[i] = i
    /\ call = "unstarted" => At(Len(yielded) + 1, first)
    /\ \A i \in 1..Len(inbox) : At(BeforeInbox + i, inbox[i])
    /\ \A i \in 1..Len(wire) : At(BeforeWire + i, wire[i])
    /\ \/ BeforeWire + Len(wire) = produced
       \/ BeforeWire + Len(wire) = produced + 1 /\ Ended

\* The client listens from its request to the last answer; an iterator is made by its
\* first answer and gives nothing before it is started.  What is over is closed.
Listens ==
  /\ chan["client"] = "none" <=> call = "idle"
  /\ call \in {"idle", "calling"} => task \in {"none", "over"}
  /\ call \in {"idle", "calling", "waiting"} => first = Final("none")
  /\ call \in {"idle", "calling", "waiting", "unstarted"} => yielded = <<>>
  /\ ~Gone /\ chan["client"] = "closed" => Ended
  /\ Gone <=> outcome # "none"
  /\ ReleasedAtTheEnd

LEMMA Lengths ==
  ASSUME Types
  PROVE  /\ Len(yielded) \in Nat /\ Len(inbox) \in Nat /\ Len(wire) \in Nat
         /\ produced \in Nat /\ produced <= MaxItems /\ Kept \in {0, 1}
         /\ BeforeInbox \in Nat /\ BeforeWire \in Nat
<1>1. /\ Len(yielded) \in Nat /\ Len(inbox) \in Nat /\ Len(wire) \in Nat
  BY LenProperties DEF Types, Queues
<1>2. produced \in Nat /\ produced <= MaxItems /\ Kept \in {0, 1}
  BY Numbers DEF Types, Scalars, Kept
<1> QED  BY <1>1, <1>2 DEF BeforeInbox, BeforeWire

\* The same, after the step.
AtNext(k, answer) ==
  IF k <= produced' THEN answer = Item(k) ELSE answer \in Finals /\ Ended'

LEMMA AtStays ==
  ASSUME NEW k \in Nat, NEW answer, At(k, answer),
         \/ k <= produced /\ k <= produced'
         \/ produced' = produced /\ (Ended => Ended')
  PROVE  AtNext(k, answer)
BY DEF At, AtNext

OrderedNext ==
  /\ Len(yielded') <= produced' /\ \A i \in 1..Len(yielded') : yielded'[i] = i
  /\ call' = "unstarted" => AtNext(Len(yielded') + 1, first')
  /\ \A i \in 1..Len(inbox') : AtNext(BeforeInbox' + i, inbox'[i])
  /\ \A i \in 1..Len(wire') : AtNext(BeforeWire' + i, wire'[i])
  /\ \/ BeforeWire' + Len(wire') = produced'
     \/ BeforeWire' + Len(wire') = produced' + 1 /\ Ended'

LEMMA OrderedStep ==
  Types /\ Types' /\ Listens /\ Ordered /\ [Next]_vars => Ordered'
<1> SUFFICES ASSUME Types, Types', Listens, Ordered, [Next]_vars, ~Gone'
             PROVE  OrderedNext
  BY DEF Ordered, OrderedNext, At, AtNext
<1>0. /\ Len(yielded) \in Nat /\ Len(inbox) \in Nat /\ Len(wire) \in Nat
      /\ produced \in Nat /\ BeforeInbox \in Nat /\ BeforeWire \in Nat
      /\ BeforeInbox = Len(yielded) + Kept /\ BeforeWire = BeforeInbox + Len(inbox)
      /\ Kept = IF call = "unstarted" THEN 1 ELSE 0
  BY Lengths DEF BeforeInbox, BeforeWire, Kept
<1>l. /\ Len(yielded) \in Nat /\ Len(inbox) \in Nat /\ Len(wire) \in Nat
      /\ produced \in Nat /\ BeforeInbox \in Nat /\ BeforeWire \in Nat
  BY Lengths
<1>b. BeforeWire = BeforeInbox + Len(inbox)
  BY DEF BeforeWire
<1>c. ~Gone
  BY Kinds DEF Rests, Ends, EmitsItem, EmitsLast, Receives, Keeps, YieldsFirst,
     YieldsNext, AsksForMore, Gone
<1>o. /\ Len(yielded) <= produced /\ \A i \in 1..Len(yielded) : yielded[i] = i
      /\ call = "unstarted" => At(Len(yielded) + 1, first)
      /\ \A i \in 1..Len(inbox) : At(BeforeInbox + i, inbox[i])
      /\ \A i \in 1..Len(wire) : At(BeforeWire + i, wire[i])
      /\ \/ BeforeWire + Len(wire) = produced
         \/ BeforeWire + Len(wire) = produced + 1 /\ Ended
  BY <1>c DEF Ordered
<1>k. /\ Kept' = IF call' = "unstarted" THEN 1 ELSE 0
      /\ BeforeInbox' = Len(yielded') + Kept' /\ BeforeWire' = BeforeInbox' + Len(inbox')
  BY DEF BeforeInbox, BeforeWire, Kept
<1>1. CASE /\ UNCHANGED <<yielded, first, inbox, wire, produced>>
           /\ Ended => Ended'
           /\ (call' = "unstarted" <=> call = "unstarted")
  <2>1. /\ Kept' = Kept /\ BeforeInbox' = BeforeInbox /\ BeforeWire' = BeforeWire
    BY <1>0, <1>1, <1>k
  <2>2. /\ \A i \in 1..Len(inbox) : AtNext(BeforeInbox + i, inbox[i])
        /\ \A i \in 1..Len(wire) : AtNext(BeforeWire + i, wire[i])
        /\ call = "unstarted" => AtNext(Len(yielded) + 1, first)
    BY <1>0, <1>1, <1>o, AtStays
  <2> QED  BY <1>1, <1>o, <2>1, <2>2 DEF OrderedNext
<1>2. CASE EmitsItem \/ EmitsLast
  <2>1. /\ UNCHANGED <<yielded, first, inbox, call>> /\ task \in {"emitting", "replying", "erring"}
        /\ BeforeWire + Len(wire) = produced
    BY <1>2, <1>o DEF EmitsItem, EmitsLast, Ended
  <2>2. PICK answer \in Answer :
          /\ Emit(answer)
          /\ \/ answer = Item(produced + 1) /\ produced' = produced + 1
             \/ answer \in Finals /\ produced' = produced /\ Ended'
    <3>1. CASE EmitsItem
      <4>1. produced + 1 \in 1..MaxItems
        BY <1>0, <3>1, Numbers DEF EmitsItem, Types, Scalars
      <4> QED  BY <3>1, <4>1, Answers DEF EmitsItem
    <3>2. CASE EmitsLast
      BY <3>2, Answers DEF EmitsLast, Ended
    <3> QED  BY <1>2, <3>1, <3>2
  <2>3. chan["client"] = "open"
    BY <1>c, <2>1 DEF Listens, Types, Scalars, ChanState, End, Ended
  <2>4. /\ Len(wire') = Len(wire) + 1 /\ \A i \in 1..Len(wire) : wire'[i] = wire[i]
        /\ wire'[Len(wire) + 1] = answer
    <3>1. wire' = Append(wire, answer) /\ wire \in Seq(Answer)
      BY <2>2, <2>3, Emitting DEF Types, Queues
    <3> QED  BY <3>1, Grown
  <2>5. Kept' = Kept /\ BeforeInbox' = BeforeInbox /\ BeforeWire' = BeforeWire
    BY <1>0, <1>k, <2>1
  <2>6. /\ \A i \in 1..Len(inbox) : AtNext(BeforeInbox + i, inbox[i])
        /\ \A i \in 1..Len(wire) : AtNext(BeforeWire + i, wire[i])
        /\ call = "unstarted" => AtNext(Len(yielded) + 1, first)
    <3>1. ASSUME NEW k \in Nat, NEW x, At(k, x), k <= produced PROVE AtNext(k, x)
      <4>1. k <= produced'
        BY <1>0, <2>2, <3>1
      <4> QED  BY <3>1, <4>1, AtStays
    <3>2. /\ \A i \in 1..Len(inbox) : BeforeInbox + i \in Nat /\ BeforeInbox + i <= produced
          /\ \A i \in 1..Len(wire) : BeforeWire + i \in Nat /\ BeforeWire + i <= produced
          /\ call = "unstarted" => Len(yielded) + 1 \in Nat /\ Len(yielded) + 1 <= produced
      BY <1>0, <2>1
    <3> QED  BY <1>o, <3>1, <3>2
  <2>7. AtNext(BeforeWire + (Len(wire) + 1), answer)
    <3>1. BeforeWire + (Len(wire) + 1) = produced + 1
      BY <1>l, <2>1
    <3>2. ~(produced + 1 <= produced) /\ produced + 1 <= produced + 1
      BY <1>l
    <3>3. AtNext(produced + 1, answer)
      BY <2>2, <3>2 DEF AtNext
    <3> QED  BY <3>1, <3>3
  <2>8. \A i \in 1..Len(wire') : AtNext(BeforeWire' + i, wire'[i])
    <3> SUFFICES ASSUME NEW i \in 1..Len(wire') PROVE AtNext(BeforeWire + i, wire'[i])
      BY <2>5
    <3>1. i \in 1..Len(wire) \/ i = Len(wire) + 1
      BY <1>l, <2>4
    <3> QED  BY <2>4, <2>6, <2>7, <3>1
  <2>9. Len(yielded) <= produced'
    BY <1>0, <1>o, <2>2
  <2>10. \/ BeforeWire' + Len(wire') = produced'
         \/ BeforeWire' + Len(wire') = produced' + 1 /\ Ended'
    <3>1. BeforeWire' + Len(wire') = produced + 1
      BY <1>l, <2>1, <2>4, <2>5
    <3> QED  BY <2>2, <3>1
  <2> QED  BY <1>o, <2>1, <2>5, <2>6, <2>8, <2>9, <2>10 DEF OrderedNext
<1>n. ASSUME produced' = produced, task' = task, NEW k \in Nat, NEW x, At(k, x)
      PROVE  AtNext(k, x)
  BY <1>n, AtStays DEF Ended
<1>3. CASE Receives
  <2>1. /\ UNCHANGED <<call, yielded, first, produced, task>>
        /\ wire # <<>> /\ wire' = Tail(wire) /\ inbox' = Append(inbox, Head(wire))
    BY <1>3 DEF Receives
  <2>2. /\ Len(wire) > 0 /\ Len(wire') = Len(wire) - 1 /\ Head(wire) = wire[1]
        /\ Head(wire) \in Answer
        /\ \A i \in 1..Len(wire') : i + 1 \in 1..Len(wire) /\ wire'[i] = wire[i + 1]
    BY <2>1, Taken DEF Types, Queues
  <2>3. /\ Len(inbox') = Len(inbox) + 1 /\ \A i \in 1..Len(inbox) : inbox'[i] = inbox[i]
        /\ inbox'[Len(inbox) + 1] = wire[1]
    BY <2>1, <2>2, Grown DEF Types, Queues
  <2>4. BeforeInbox' = BeforeInbox /\ BeforeWire' = BeforeWire + 1
    <3>1. BeforeInbox' = BeforeInbox /\ BeforeWire' = BeforeInbox + Len(inbox')
      BY <1>0, <1>k, <2>1
    <3> QED  BY <1>l, <1>b, <2>3, <3>1
  <2>5. \A i \in 1..Len(wire') : AtNext(BeforeWire' + i, wire'[i])
    <3> SUFFICES ASSUME NEW i \in 1..Len(wire') PROVE AtNext(BeforeWire' + i, wire'[i])
      OBVIOUS
    <3>0. i \in Nat
      OBVIOUS
    <3>1. BeforeWire' + i = BeforeWire + (i + 1) /\ BeforeWire + (i + 1) \in Nat
      BY <1>l, <2>4, <3>0
    <3>2. At(BeforeWire + (i + 1), wire[i + 1])
      BY <1>o, <2>2
    <3> QED  BY <1>n, <2>1, <2>2, <3>1, <3>2
  <2>6. \A i \in 1..Len(inbox') : AtNext(BeforeInbox' + i, inbox'[i])
    <3>1. AtNext(BeforeInbox + (Len(inbox) + 1), wire[1])
      <4>1. BeforeWire + 1 = BeforeInbox + (Len(inbox) + 1) /\ BeforeWire + 1 \in Nat
        BY <1>l, <1>b
      <4>2. At(BeforeWire + 1, wire[1])
        BY <1>l, <1>o, <2>2
      <4> QED  BY <1>n, <2>1, <4>1, <4>2
    <3>2. \A i \in 1..Len(inbox) : AtNext(BeforeInbox + i, inbox[i])
      BY <1>0, <1>n, <1>o, <2>1
    <3> SUFFICES ASSUME NEW i \in 1..Len(inbox') PROVE AtNext(BeforeInbox + i, inbox'[i])
      BY <2>4
    <3>3. i \in 1..Len(inbox) \/ i = Len(inbox) + 1
      BY <1>l, <2>3
    <3> QED  BY <2>3, <3>1, <3>2, <3>3
  <2>7. call' = "unstarted" => AtNext(Len(yielded') + 1, first')
    BY <1>0, <1>n, <1>o, <2>1
  <2>8. BeforeWire' + Len(wire') = BeforeWire + Len(wire)
    BY <1>l, <2>2, <2>4
  <2> QED  BY <1>o, <2>1, <2>5, <2>6, <2>7, <2>8 DEF OrderedNext, Ended
\* The next answer goes from the queue into the iterator, and from there to the
\* application.
<1>4. CASE Keeps \/ YieldsFirst \/ YieldsNext
  <2>1. /\ UNCHANGED <<wire, produced, task>>
        /\ \/ inbox' = inbox /\ YieldsFirst
           \/ inbox # <<>> /\ inbox' = Tail(inbox) /\ (Keeps \/ YieldsNext)
    BY <1>4 DEF Keeps, YieldsFirst, YieldsNext
  <2>2. /\ BeforeInbox' + Len(inbox') = BeforeInbox + Len(inbox) /\ BeforeInbox' \in Nat
        /\ Len(inbox') \in Nat
        /\ \A i \in 1..Len(inbox') : \E j \in 1..Len(inbox) :
             BeforeInbox' + i = BeforeInbox + j /\ inbox'[i] = inbox[j]
        /\ Len(yielded') <= produced /\ \A i \in 1..Len(yielded') : yielded'[i] = i
        /\ call' = "unstarted" => AtNext(Len(yielded') + 1, first')
    <3>0. yielded \in Seq(1..MaxItems)
      BY DEF Types, Queues
    <3>t. ASSUME inbox # <<>>
          PROVE  /\ Len(inbox) > 0 /\ Len(Tail(inbox)) = Len(inbox) - 1 /\ Head(inbox) = inbox[1]
                 /\ Head(inbox) \in Answer
                 /\ \A i \in 1..Len(Tail(inbox)) :
                      i + 1 \in 1..Len(inbox) /\ Tail(inbox)[i] = inbox[i + 1]
      BY <3>t, Taken DEF Types, Queues
    \* The answer yielded is the next item.
    <3>y. ASSUME NEW a \in Answer \cup {Final("none")}, At(Len(yielded) + 1, a),
                 a.name = "STREAM", yielded' = Append(yielded, a.n)
          PROVE  /\ Len(yielded') = Len(yielded) + 1 /\ Len(yielded') <= produced
                 /\ \A i \in 1..Len(yielded') : yielded'[i] = i
      <4>1. a \in Answer /\ a \notin Finals
        BY <3>y, Answers DEF Final
      <4>2. Len(yielded) + 1 <= produced /\ a = Item(Len(yielded) + 1)
        BY <3>y, <4>1 DEF At
      <4>3. a.n = Len(yielded) + 1 /\ a.n \in 1..MaxItems
        BY <1>0, <3>y, <4>1, <4>2, Answers
      <4>4. /\ Len(yielded') = Len(yielded) + 1
            /\ \A i \in 1..Len(yielded) : yielded'[i] = yielded[i]
            /\ yielded'[Len(yielded) + 1] = a.n
        BY <3>0, <3>y, <4>3, Grown
      <4>5. Len(yielded) \in Nat
        BY <1>l
      <4>6. \A i \in 1..Len(yielded) : yielded[i] = i
        BY <1>o
      <4>7. ASSUME NEW i \in 1..Len(yielded') PROVE yielded'[i] = i
        <5>1. i \in 1..Len(yielded) \/ i = Len(yielded) + 1
          BY <4>4, <4>5
        <5> QED  BY <4>3, <4>4, <4>6, <5>1
      <4> QED  BY <4>2, <4>4, <4>7
    <3>1. CASE Keeps
      <4>1. /\ call = "waiting" /\ call' = "unstarted" /\ inbox # <<>> /\ inbox' = Tail(inbox)
            /\ first' = Head(inbox) /\ yielded' = yielded
        BY <3>1 DEF Keeps
      <4>2. Kept = 0 /\ Kept' = 1 /\ BeforeInbox' = BeforeInbox + 1
        BY <1>0, <1>k, <4>1
      <4>3. At(Len(yielded) + 1, inbox[1])
        BY <1>0, <1>o, <3>t, <4>1, <4>2
      <4>4. AtNext(Len(yielded') + 1, first')
        BY <1>0, <1>n, <2>1, <3>t, <4>1, <4>3
      <4>5. \A i \in 1..Len(inbox') : /\ i + 1 \in 1..Len(inbox) /\ inbox'[i] = inbox[i + 1]
                                     /\ BeforeInbox' + i = BeforeInbox + (i + 1)
        BY <1>0, <3>t, <4>1, <4>2
      <4>6. Len(inbox') = Len(inbox) - 1 /\ Len(inbox) > 0
        BY <3>t, <4>1
      <4> QED  BY <1>0, <1>o, <4>1, <4>2, <4>4, <4>5, <4>6
    <3>2. CASE YieldsFirst
      <4>1. /\ call = "unstarted" /\ call' = "suspended" /\ first.name = "STREAM"
            /\ yielded' = Append(yielded, first.n) /\ inbox' = inbox
        BY <3>2 DEF YieldsFirst
      <4>2. /\ Len(yielded') = Len(yielded) + 1 /\ Len(yielded') <= produced
            /\ \A i \in 1..Len(yielded') : yielded'[i] = i
        BY <1>o, <3>y, <4>1 DEF Types, Queues
      <4>3. BeforeInbox' = BeforeInbox
        BY <1>0, <1>k, <4>1, <4>2
      <4> QED  BY <1>0, <4>1, <4>2, <4>3
    <3>3. CASE YieldsNext
      <4>1. /\ call = "pulling" /\ call' = "suspended" /\ inbox # <<>> /\ inbox' = Tail(inbox)
            /\ Head(inbox).name = "STREAM" /\ yielded' = Append(yielded, Head(inbox).n)
        BY <3>3 DEF YieldsNext
      <4>2. At(Len(yielded) + 1, inbox[1])
        BY <1>0, <1>o, <3>t, <4>1
      <4>3. /\ Len(yielded') = Len(yielded) + 1 /\ Len(yielded') <= produced
            /\ \A i \in 1..Len(yielded') : yielded'[i] = i
        BY <3>t, <3>y, <4>1, <4>2
      <4>4. BeforeInbox' = BeforeInbox + 1
        BY <1>0, <1>k, <4>1, <4>3
      <4>5. \A i \in 1..Len(inbox') : /\ i + 1 \in 1..Len(inbox) /\ inbox'[i] = inbox[i + 1]
                                     /\ BeforeInbox' + i = BeforeInbox + (i + 1)
        BY <1>0, <3>t, <4>1, <4>4
      <4>6. Len(inbox') = Len(inbox) - 1 /\ Len(inbox) > 0
        BY <3>t, <4>1
      <4> QED  BY <1>0, <4>1, <4>3, <4>4, <4>5, <4>6
    <3> QED  BY <1>4, <3>1, <3>2, <3>3
  <2>3. BeforeWire' = BeforeWire
    BY <1>0, <1>k, <2>2
  <2>4. \A i \in 1..Len(wire) : AtNext(BeforeWire + i, wire[i])
    BY <1>0, <1>n, <1>o, <2>1
  <2>5. \A i \in 1..Len(inbox') : AtNext(BeforeInbox' + i, inbox'[i])
    <3>1. \A j \in 1..Len(inbox) : AtNext(BeforeInbox + j, inbox[j])
      BY <1>0, <1>n, <1>o, <2>1
    <3> QED  BY <2>2, <3>1
  <2> QED  BY <1>o, <2>1, <2>2, <2>3, <2>4, <2>5 DEF OrderedNext, Ended
<1>5. Rests \/ Receives \/ AsksForMore =>
        /\ Receives \/ UNCHANGED <<yielded, first, inbox, wire, produced>>
        /\ Ended => Ended'
        /\ call' = "unstarted" <=> call = "unstarted"
  BY DEF Rests, Receives, AsksForMore, Ended
<1>6. ~Ends
  BY DEF Ends
<1> QED  BY <1>1, <1>2, <1>3, <1>4, <1>5, <1>6, Kinds
-----------------------------------------------------------------------------
(***************************************************************************)
(* When the channels are open.                                             *)
(***************************************************************************)
\* A last answer is there once the task streams no more.
LEMMA LastOfAll ==
  ASSUME NEW k, NEW answer, At(k, answer), answer.name # "STREAM", produced \in Nat, k \in Nat
  PROVE  Ended /\ k > produced
BY Answers DEF At

LEMMA ListensStep == Types /\ Ordered /\ Listens /\ [Next]_vars => Listens'
<1> SUFFICES ASSUME Types, Ordered, Listens, [Next]_vars PROVE Listens'
  OBVIOUS
<1>t. call \in CallState /\ outcome \in Outcome /\ task \in TaskState /\ chan \in [End -> ChanState]
  BY DEF Types, Scalars
<1> USE DEF Listens, ReleasedAtTheEnd, Leaked, Gone, Ended
\* The steps of the task leave the call as it is.
<1>a. ASSUME UNCHANGED <<call, outcome, yielded, first>>, chan'["client"] = chan["client"],
             Ended => Ended', task = "none" => task' \in {"none", "over"},
             task = "over" => task' = "over",
             task' = "over" => (task = "over" /\ UNCHANGED chan) \/ chan'["server"] = "closed"
      PROVE  Listens'
  BY <1>a
<1>1. CASE StartTask
  <2>1. /\ task = "queued" /\ task' = "starting" /\ UNCHANGED <<call, outcome, yielded, first>>
        /\ chan'["client"] = chan["client"]
    BY <1>1, <1>t DEF StartTask, clientVars, End
  <2> QED  BY <1>a, <2>1
<1>2. CASE LoadRequest \/ Execute \/ Yields \/ Returns \/ Raises \/ EmitItem \/ EmitLast
           \/ EmitRefused \/ TaskLost \/ MethodSwallows \/ LoseClient \/ LoseServer \/ CloseClient
  <2>1. /\ UNCHANGED <<call, outcome, yielded, first, chan>>
        /\ \/ task' = task
           \/ task = "closing" /\ task' = "aborted"
           \/ task \notin {"none", "closing", "over", "aborted"} /\ task' # "over"
    BY <1>2 DEF LoadRequest, Execute, Yields, Returns, Raises, EmitItem, EmitLast, EmitRefused,
       TaskLost, MethodSwallows, LoseClient, LoseServer, GivesUp, CloseClient, clientVars,
       taskVars, chanVars
  <2> QED  BY <1>a, <2>1
<1>3. CASE CloseTask \/ ServerDies
  <2>1. /\ UNCHANGED <<call, outcome, yielded, first>>
        /\ task # "over" /\ task' = "over" /\ CloseChan("server")
    BY <1>3 DEF CloseTask, ServerDies, clientVars
  <2>2. chan'["client"] = chan["client"] /\ chan'["server"] = "closed"
    BY <1>t, <2>1 DEF CloseChan, End
  <2> QED  BY <1>a, <2>1, <2>2
<1>5. CASE BeginCall
  <2>1. /\ call = "idle" /\ call' = "calling" /\ UNCHANGED <<outcome, yielded, first, task>>
        /\ chan'["client"] = "open" /\ chan'["server"] = chan["server"]
    BY <1>5, <1>t DEF BeginCall, taskVars, End
  <2> QED  BY <2>1
<1>6. CASE SendRequest
  <2>1. /\ call = "calling" /\ UNCHANGED <<yielded, first, chan>>
        /\ \/ /\ call' = "waiting" /\ UNCHANGED outcome
              /\ task' = IF task = "none" THEN "queued" ELSE task
           \/ call' = "stuck" /\ UNCHANGED <<outcome, task>>
           \/ /\ call' = "over" /\ outcome' \in {"lost", "refused"}
              /\ UNCHANGED task
    BY <1>6 DEF SendRequest, Abandon, chanVars
  <2> QED  BY <1>t, <2>1 DEF ChanState, End
<1>7. CASE Receive
  <2>1. /\ UNCHANGED <<call, outcome, yielded, first, task>> /\ wire # <<>>
        /\ chan["client"] = "open"
        /\ \/ Head(wire).name = "STREAM_DONE" /\ CloseChan("client")
           \/ UNCHANGED chan
    BY <1>7 DEF Receive, clientVars, taskVars
  <2>2. CASE UNCHANGED chan
    BY <2>1, <2>2
  <2>3. CASE Head(wire).name = "STREAM_DONE" /\ CloseChan("client")
    <3>1. chan'["client"] = "closed" /\ chan'["server"] = chan["server"]
      BY <1>t, <2>3 DEF CloseChan, End
    <3>2. ~Gone => Ended
      <4> SUFFICES ASSUME ~Gone PROVE Ended
        OBVIOUS
      <4>1. Len(wire) > 0 /\ Len(wire) \in Nat /\ Head(wire) = wire[1]
        BY <2>1, Taken DEF Types, Queues
      <4>2. At(BeforeWire + 1, wire[1])
        BY <4>1 DEF Ordered
      <4>3. BeforeWire + 1 \in Nat /\ produced \in Nat /\ wire[1].name # "STREAM"
        BY <2>3, <4>1, Lengths
      <4> QED  BY <4>2, <4>3, LastOfAll
    <3> QED  BY <2>1, <3>1, <3>2
  <2> QED  BY <2>1, <2>2, <2>3
\* A call that ends is about to close its channel, or leaves it open for a reason.
<1>e. ASSUME call # "idle", ~Gone, UNCHANGED <<task, chan>>,
             \/ \E how \in Outcome \ {"none"} : Finish(how)
             \/ /\ UNCHANGED outcome /\ call' \in {"unstarted", "pulling", "suspended", "stuck"}
                /\ call' = "unstarted" => yielded' = <<>>
      PROVE  Listens'
  BY <1>e DEF Finish
<1>8. CASE FirstReply
  BY <1>e, <1>8 DEF FirstReply, FinishWith, taskVars, chanVars, Outcome
<1>9. CASE Unmatched \/ Expire
  BY <1>e, <1>9 DEF Unmatched, Expire, taskVars, chanVars, Outcome
<1>10. CASE FirstOfStream
  BY <1>e, <1>10 DEF FirstOfStream, taskVars
<1>11. CASE StartIterator \/ Pull
  <2>1. /\ call \in {"unstarted", "pulling"} /\ UNCHANGED <<task, chan>>
        /\ \E answer : Consume(answer)
    BY <1>11 DEF StartIterator, Pull, taskVars, chanVars
  <2> QED  BY <1>e, <2>1, Consumed DEF Outcome
<1>12. CASE Resume
  <2>1. /\ call = "suspended" /\ UNCHANGED <<task, chan>>
        /\ \/ Finish("lost")
           \/ UNCHANGED outcome /\ call' \in {"stuck", "pulling"}
    BY <1>12 DEF Resume, taskVars, chanVars
  <2> QED  BY <1>e, <2>1 DEF Outcome
<1>13. CASE Drop
  <2>1. CASE call = "suspended" /\ Finish("dropped")
    BY <1>e, <1>13, <2>1 DEF Drop, taskVars, chanVars, Outcome
  <2>2. CASE call = "unstarted" /\ Abandon("dropped")
    <3>1. /\ call = "unstarted" /\ call' = "over" /\ outcome' = "dropped"
          /\ UNCHANGED <<yielded, first, task, chan>>
      BY <1>13, <2>2 DEF Drop, Abandon, taskVars, chanVars
    <3> QED  BY <3>1
  <2> QED  BY <1>13, <2>1, <2>2 DEF Drop
<1>14. CASE CallerStruck
  <2>1. /\ UNCHANGED <<yielded, first, task, chan>>
        /\ \/ /\ call \in {"calling", "waiting", "pulling", "stuck"} /\ first = Final("none")
              /\ Abandon("lost")
           \/ call \in {"pulling", "stuck"} /\ Finish("lost")
           \/ call = "closing" /\ Abandon("cut")
           \/ UNCHANGED <<call, outcome>>
    BY <1>14 DEF CallerStruck, InCall, taskVars
  <2>2. CASE call \in {"pulling", "stuck"} /\ Finish("lost")
    BY <1>e, <2>1, <2>2 DEF Outcome
  <2>3. CASE UNCHANGED <<call, outcome>>
    BY <2>1, <2>3
  <2>4. CASE \/ /\ call \in {"calling", "waiting", "pulling", "stuck"} /\ first = Final("none")
                /\ Abandon("lost")
             \/ call = "closing" /\ Abandon("cut")
    BY <2>1, <2>4 DEF Abandon
  <2> QED  BY <2>1, <2>2, <2>3, <2>4
<1>15. CASE CloseCall
  <2>1. /\ call = "closing" /\ call' = "over" /\ UNCHANGED <<yielded, first, task>>
        /\ CloseChan("client") /\ (outcome' = outcome \/ outcome' = "raised")
    BY <1>15 DEF CloseCall, taskVars
  <2>2. chan'["client"] = "closed" /\ chan'["server"] = chan["server"]
    BY <1>t, <2>1 DEF CloseChan, End
  <2> QED  BY <2>1, <2>2
<1>16. CASE UNCHANGED vars
  BY <1>16 DEF vars, clientVars, taskVars, chanVars
<1> QED
  BY <1>1, <1>2, <1>3, <1>5, <1>6, <1>7, <1>8, <1>9, <1>10, <1>11, <1>12, <1>13, <1>14,
     <1>15, <1>16 DEF Next, TaskStep, ClientStep

-----------------------------------------------------------------------------
(***************************************************************************)
(* A stream that was exhausted.                                            *)
(***************************************************************************)
Complete ==
  outcome = "exhausted" =>
    /\ Ended /\ Gone
    /\ Len(yielded) = produced /\ \A i \in 1..Len(yielded) : yielded[i] = i

\* An iterator ends normally by an answer that is no item.
LEMMA Exhausts ==
  ASSUME [Next]_vars, outcome' = "exhausted", outcome # "exhausted"
  PROVE  /\ UNCHANGED <<yielded, produced, task>> /\ Gone' /\ ~Gone
         /\ \/ call = "unstarted" /\ first.name # "STREAM"
            \/ call = "pulling" /\ inbox # <<>> /\ Head(inbox).name # "STREAM"
<1> USE DEF Gone
<1>1. CASE TaskStep
  BY <1>1 DEF TaskStep, StartTask, LoadRequest, Execute, Yields, Returns, Raises, EmitItem,
     EmitLast, EmitRefused, CloseTask, TaskLost, MethodSwallows, ServerDies, LoseClient, GivesUp,
     clientVars
<1>2. CASE BeginCall \/ SendRequest \/ Receive \/ FirstOfStream \/ CloseClient \/ LoseServer
  BY <1>2 DEF BeginCall, SendRequest, Abandon, Receive, FirstOfStream, CloseClient, LoseServer,
     GivesUp, clientVars
<1>3. CASE FirstReply \/ Unmatched \/ Expire \/ CloseCall
  BY <1>3 DEF FirstReply, Unmatched, Expire, CloseCall, FinishWith, Finish
<1>4. CASE StartIterator
  <2>1. call = "unstarted" /\ Consume(first) /\ UNCHANGED taskVars
    BY <1>4 DEF StartIterator
  <2> QED  BY <2>1, Consumed DEF taskVars, Finish
<1>5. CASE Pull
  <2>1. call = "pulling" /\ inbox # <<>> /\ Consume(Head(inbox)) /\ UNCHANGED taskVars
    BY <1>5 DEF Pull
  <2> QED  BY <2>1, Consumed DEF taskVars, Finish
<1>6. CASE Resume \/ Drop \/ CallerStruck
  BY <1>6 DEF Resume, Drop, CallerStruck, Finish, Abandon
<1>7. CASE UNCHANGED vars
  BY <1>7 DEF vars, clientVars
<1> QED  BY <1>1, <1>2, <1>3, <1>4, <1>5, <1>6, <1>7 DEF Next, ClientStep

LEMMA CompleteStep == Types /\ Ordered /\ Complete /\ [Next]_vars => Complete'
<1> SUFFICES ASSUME Types, Ordered, Complete, [Next]_vars, outcome' = "exhausted"
             PROVE  /\ Ended' /\ Gone'
                    /\ Len(yielded') = produced' /\ \A i \in 1..Len(yielded') : yielded'[i] = i
  BY DEF Complete
<1>1. CASE outcome = "exhausted"
  <2>1. /\ Ended /\ Gone /\ Len(yielded) = produced
        /\ \A i \in 1..Len(yielded) : yielded[i] = i
    BY <1>1 DEF Complete
  <2>2. Rests \/ Receives \/ Ends
    BY <2>1, Kinds DEF EmitsItem, EmitsLast, Keeps, YieldsFirst, YieldsNext, AsksForMore, Gone,
       Ended
  <2> QED  BY <2>1, <2>2 DEF Rests, Receives, Ends, Gone, Ended
<1>2. CASE outcome # "exhausted"
  <2>1. /\ UNCHANGED <<yielded, produced, task>> /\ Gone' /\ ~Gone
        /\ \/ call = "unstarted" /\ first.name # "STREAM"
           \/ call = "pulling" /\ inbox # <<>> /\ Head(inbox).name # "STREAM"
    BY <1>2, Exhausts
  <2>2. Len(yielded) \in Nat /\ produced \in Nat /\ Len(yielded) + 1 \in Nat
    BY Lengths
  <2>3. \E answer : At(Len(yielded) + 1, answer) /\ answer.name # "STREAM"
    <3>1. CASE call = "unstarted" /\ first.name # "STREAM"
      BY <2>1, <3>1 DEF Ordered
    <3>2. CASE call = "pulling" /\ inbox # <<>> /\ Head(inbox).name # "STREAM"
      <4>1. Len(inbox) > 0 /\ Len(inbox) \in Nat /\ Head(inbox) = inbox[1]
        BY <3>2, Taken DEF Types, Queues
      <4>2. BeforeInbox = Len(yielded)
        BY <2>2, <3>2 DEF BeforeInbox, Kept
      <4>3. At(BeforeInbox + 1, inbox[1])
        BY <2>1, <4>1 DEF Ordered
      <4> QED  BY <3>2, <4>1, <4>2, <4>3
    <3> QED  BY <2>1, <3>1, <3>2
  <2>4. Ended /\ Len(yielded) + 1 > produced
    BY <2>2, <2>3, LastOfAll
  <2>5. Len(yielded) <= produced /\ \A i \in 1..Len(yielded) : yielded[i] = i
    BY <2>1 DEF Ordered
  <2>6. Len(yielded) = produced
    BY <2>2, <2>4, <2>5
  <2> QED  BY <2>1, <2>4, <2>5, <2>6 DEF Ended
<1> QED  BY <1>1, <1>2

-----------------------------------------------------------------------------
(***************************************************************************)
(* The end of a stream closes the channel when it is received.             *)
(***************************************************************************)
\* Before the first answer is taken there is one answer at most, and on_close_if is
\* set with the first answer.
Early == call \in {"idle", "calling", "waiting"}
Closes ==
  /\ Early => first.name = "none" /\ ~closeIf /\ Len(inbox) + Len(wire) + credit <= 1
  /\ first.name # "none" => closeIf
  /\ first.name = "STREAM" /\ (\E i \in 1..Len(inbox) : inbox[i].name = "STREAM_DONE") =>
       chan["client"] = "closed"

\* The condition is set with the first answer; a channel that is closed stays so.
LEMMA Latches ==
  ASSUME Types, [Next]_vars
  PROVE  /\ closeIf' = closeIf \/ (Keeps /\ closeIf')
         /\ call # "unstarted" /\ call' = "unstarted" => closeIf'
         /\ Early' => Early
         /\ call # "idle" /\ chan["client"] = "closed" => chan'["client"] = "closed"
<1>t. call \in CallState /\ chan \in [End -> ChanState]
  BY DEF Types, Scalars
<1>f. ASSUME NEW how, Finish(how) \/ Abandon(how) PROVE ~Early' /\ Gone'
  BY <1>f DEF Finish, Abandon, Early, Gone
<1>1. CASE StartTask \/ LoadRequest \/ Execute \/ Yields \/ Returns \/ Raises \/ EmitItem
           \/ EmitLast \/ EmitRefused
  BY <1>1, <1>t DEF StartTask, LoadRequest, Execute, Yields, Returns, Raises, EmitItem, EmitLast,
     EmitRefused, clientVars, chanVars, End, Early
<1>2. CASE CloseTask \/ TaskLost \/ MethodSwallows \/ ServerDies \/ LoseClient \/ LoseServer
           \/ CloseClient
  BY <1>2, <1>t DEF CloseTask, TaskLost, MethodSwallows, ServerDies, LoseClient, LoseServer,
     GivesUp, CloseClient, CloseChan, clientVars, chanVars, End, Early
<1>3. CASE BeginCall \/ SendRequest
  BY <1>3, <1>t DEF BeginCall, SendRequest, Abandon, End, Early, chanVars
<1>4. CASE Receive \/ CloseCall
  BY <1>4, <1>t DEF Receive, CloseCall, CloseChan, clientVars, End, Early
<1>5. CASE FirstReply \/ Unmatched \/ Expire
  <2>1. closeIf' = closeIf /\ UNCHANGED chan /\ \E how : Finish(how)
    BY <1>5 DEF FirstReply, Unmatched, Expire, FinishWith, chanVars
  <2> QED  BY <1>f, <2>1 DEF Gone
<1>6. CASE FirstOfStream
  BY <1>6 DEF FirstOfStream, Keeps, taskVars, Early
<1>7. CASE StartIterator \/ Pull
  <2>1. closeIf' = closeIf /\ UNCHANGED chan /\ \E answer : Consume(answer)
    BY <1>7 DEF StartIterator, Pull, chanVars
  <2> QED  BY <1>f, <2>1, Consumed DEF Early, Gone
<1>8. CASE Resume \/ Drop \/ CallerStruck
  <2>1. /\ closeIf' = closeIf /\ UNCHANGED chan
        /\ \/ \E how : Finish(how) \/ Abandon(how)
           \/ call' \in {"stuck", "pulling", call}
    BY <1>8 DEF Resume, Drop, CallerStruck, chanVars
  <2> QED  BY <1>f, <2>1 DEF Early, Gone
<1>9. CASE UNCHANGED vars
  BY <1>9 DEF vars, clientVars, chanVars, Early
<1> QED
  BY <1>1, <1>2, <1>3, <1>4, <1>5, <1>6, <1>7, <1>8, <1>9 DEF Next, TaskStep, ClientStep

LEMMA ClosesStep == Types /\ Closes /\ [Next]_vars => Closes'
<1> SUFFICES ASSUME Types, Closes, [Next]_vars PROVE Closes'
  OBVIOUS
<1>0. Len(inbox) \in Nat /\ Len(wire) \in Nat /\ credit \in Nat
  BY Lengths DEF Types, Queues
<1>l. /\ closeIf' = closeIf \/ (Keeps /\ closeIf')
      /\ Early' => Early
      /\ call # "idle" /\ chan["client"] = "closed" => chan'["client"] = "closed"
  BY Latches
<1>k. \/ Rests \/ Ends \/ EmitsItem \/ EmitsLast \/ Receives \/ Keeps
      \/ YieldsFirst \/ YieldsNext \/ AsksForMore
  BY Kinds
<1>1. ASSUME Early'
      PROVE  first'.name = "none" /\ ~closeIf' /\ Len(inbox') + Len(wire') + credit' <= 1
  <2>1. first.name = "none" /\ ~closeIf /\ Len(inbox) + Len(wire) + credit <= 1
    BY <1>1, <1>l DEF Closes
  <2>2. ~Ends /\ ~Keeps /\ ~YieldsFirst /\ ~YieldsNext /\ ~AsksForMore
    BY <1>1 DEF Ends, Keeps, YieldsFirst, YieldsNext, AsksForMore, Early, Gone
  <2>3. first' = first /\ closeIf' = closeIf
    BY <1>l, <1>k, <2>2 DEF Rests, EmitsItem, EmitsLast, Receives
  <2>4. Len(inbox') + Len(wire') + credit' <= 1
    <3>1. CASE Rests
      BY <2>1, <3>1 DEF Rests
    <3>2. CASE EmitsItem \/ EmitsLast
      <4>1. \E answer \in Answer : Emit(answer)
        <5>1. CASE EmitsItem
          <6>1. produced + 1 \in 1..MaxItems
            BY <5>1, Numbers DEF EmitsItem, Types, Scalars
          <6> QED  BY <5>1, <6>1, Answers DEF EmitsItem
        <5>2. CASE EmitsLast
          BY <5>2, Answers DEF EmitsLast
        <5> QED  BY <3>2, <5>1, <5>2
      <4>2. /\ credit' = credit - 1 /\ credit' \in Nat /\ wire' \in Seq(Answer)
            /\ Len(wire') <= Len(wire) + 1
        BY <4>1, Emitting DEF Types
      <4>3. Len(wire') \in Nat /\ inbox' = inbox
        BY <3>2, <4>2, LenProperties DEF EmitsItem, EmitsLast
      <4> QED  BY <1>0, <2>1, <4>2, <4>3
    <3>3. CASE Receives
      <4>1. Len(wire') = Len(wire) - 1 /\ Head(wire) \in Answer
        BY <3>3, Taken DEF Receives, Types, Queues
      <4>2. Len(inbox') = Len(inbox) + 1 /\ credit' = credit
        BY <3>3, <4>1, Grown DEF Receives, Types, Queues
      <4> QED  BY <1>0, <2>1, <4>1, <4>2
    <3> QED  BY <1>k, <2>2, <3>1, <3>2, <3>3
  <2> QED  BY <2>1, <2>3, <2>4
<1>2. first'.name # "none" => closeIf'
  <2>1. first' = first \/ Keeps
    BY <1>k DEF Rests, Ends, EmitsItem, EmitsLast, Receives, YieldsFirst, YieldsNext, AsksForMore
  <2>2. Keeps => closeIf'
    <3> SUFFICES ASSUME Keeps PROVE closeIf'
      OBVIOUS
    <3>1. call = "waiting" /\ call' = "unstarted"
      BY DEF Keeps
    <3> QED  BY <3>1, Latches
  <2> QED  BY <1>l, <2>1, <2>2 DEF Closes
<1>3. ASSUME first'.name = "STREAM", NEW i \in 1..Len(inbox'), inbox'[i].name = "STREAM_DONE"
      PROVE  chan'["client"] = "closed"
  <2>t. ASSUME inbox # <<>>, inbox' = Tail(inbox)
        PROVE  /\ Len(inbox') = Len(inbox) - 1
               /\ i + 1 \in 1..Len(inbox) /\ inbox[i + 1].name = "STREAM_DONE"
    BY <1>3, <2>t, Taken DEF Types, Queues
  <2>1. ~Keeps
    <3> SUFFICES ASSUME Keeps PROVE FALSE
      OBVIOUS
    <3>1. Len(inbox) + Len(wire) + credit <= 1
      BY DEF Keeps, Closes, Early
    <3>2. Len(inbox') = Len(inbox) - 1 /\ i \in Nat /\ i >= 1 /\ i <= Len(inbox')
      BY <1>3, <2>t DEF Keeps
    <3> QED  BY <1>0, <3>1, <3>2
  <2>2. first' = first
    BY <1>k, <2>1 DEF Rests, Ends, EmitsItem, EmitsLast, Receives, YieldsFirst, YieldsNext,
       AsksForMore
  <2>3. closeIf /\ call # "idle" /\ first.name = "STREAM"
    BY <1>3, <2>2 DEF Closes, Early
  <2>4. ASSUME NEW j \in 1..Len(inbox), inbox[j].name = "STREAM_DONE"
        PROVE  chan'["client"] = "closed"
    BY <1>l, <2>3, <2>4 DEF Closes
  <2>5. CASE inbox' = inbox
    BY <1>3, <2>4, <2>5
  <2>6. CASE inbox # <<>> /\ inbox' = Tail(inbox)
    BY <2>t, <2>4, <2>6
  <2>7. CASE Receives
    <3>1. /\ Head(wire) \in Answer /\ inbox' = Append(inbox, Head(wire))
          /\ Head(wire).name = "STREAM_DONE" => CloseChan("client")
      BY <2>3, <2>7, Taken DEF Receives, Types, Queues
    <3>2. /\ Len(inbox') = Len(inbox) + 1 /\ \A j \in 1..Len(inbox) : inbox'[j] = inbox[j]
          /\ inbox'[Len(inbox) + 1] = Head(wire)
      BY <3>1, Grown DEF Types, Queues
    <3>3. i \in 1..Len(inbox) \/ i = Len(inbox) + 1
      BY <1>0, <1>3, <3>2
    <3>4. CASE i \in 1..Len(inbox)
      BY <1>3, <2>4, <3>2, <3>4
    <3>5. CASE i = Len(inbox) + 1
      <4>1. CloseChan("client") /\ chan \in [End -> ChanState]
        BY <1>3, <3>1, <3>2, <3>5 DEF Types, Scalars
      <4> QED  BY <4>1 DEF CloseChan, End
    <3> QED  BY <3>3, <3>4, <3>5
  <2> QED
    BY <1>k, <2>1, <2>5, <2>6, <2>7 DEF Rests, Ends, EmitsItem, EmitsLast, YieldsFirst,
       YieldsNext, AsksForMore
<1> QED  BY <1>1, <1>2, <1>3 DEF Closes

-----------------------------------------------------------------------------
(***************************************************************************)
(* The hooks.                                                              *)
(***************************************************************************)
HookTypes == hooks \in Seq(Hook)

LEMMA Calling ==
  ASSUME HookTypes, NEW names \in Seq(Hook), Called(names)
  PROVE  /\ hooks' \in Seq(Hook)
         /\ Len(hooks) \in Nat /\ Len(names) \in Nat /\ Len(hooks') = Len(hooks) + Len(names)
         /\ \A i \in 1..Len(hooks') :
              hooks'[i] = IF i <= Len(hooks) THEN hooks[i] ELSE names[i - Len(hooks)]
BY ConcatProperties, LenProperties DEF HookTypes, Called

\* One hook more.
LEMMA CallingOne ==
  ASSUME HookTypes, NEW hook \in Hook, Called(<<hook>>)
  PROVE  /\ hooks' \in Seq(Hook) /\ Len(hooks) \in Nat /\ Len(hooks') = Len(hooks) + 1
         /\ \A i \in 1..Len(hooks) : hooks'[i] = hooks[i]
         /\ hooks'[Len(hooks) + 1] = hook
<1>1. <<hook>> \in Seq(Hook) /\ Len(<<hook>>) = 1 /\ <<hook>>[1] = hook
  OBVIOUS
<1>2. /\ hooks' \in Seq(Hook) /\ Len(hooks) \in Nat /\ Len(hooks') = Len(hooks) + 1
      /\ \A i \in 1..Len(hooks') :
           hooks'[i] = IF i <= Len(hooks) THEN hooks[i] ELSE <<hook>>[i - Len(hooks)]
  BY <1>1, Calling
<1>3. (Len(hooks) + 1) - Len(hooks) = 1 /\ ~(Len(hooks) + 1 <= Len(hooks))
  BY <1>2
<1> QED  BY <1>1, <1>2, <1>3

After == "client_after_request"
Handle == "client_handle_remote_error"

\* The hooks at the end of an answered call.
LEMMA Endings ==
  ASSUME NEW answer
  PROVE  /\ answer.name # "ERR" => AnswerHooks(answer) = <<After>>
         /\ answer.name = "ERR" => AnswerHooks(answer) = <<Handle, After>>
<1> DEFINE H == {Handle, After}
<1>1. <<>> \in Seq(H) /\ <<Handle>> \in Seq(H) /\ <<After>> \in Seq(H)
  OBVIOUS
<1>2. <<>> \o <<After>> = <<After>>
  BY <1>1, ConcatEmptySeq
<1>3. <<Handle>> \o <<After>> = <<Handle, After>>
  <2>1. <<Handle>> \o <<After>> = Append(<<Handle>>, After)
    BY <1>1, AppendIsConcat
  <2>2. /\ Append(<<Handle>>, After) \in Seq(H) /\ Len(Append(<<Handle>>, After)) = 2
        /\ Append(<<Handle>>, After)[1] = Handle /\ Append(<<Handle>>, After)[2] = After
    BY <1>1, AppendProperties
  <2>3. ASSUME NEW s \in Seq(H), Len(s) = 2, s[1] = Handle, s[2] = After
        PROVE  s = <<Handle, After>>
    BY <2>3
  <2> QED  BY <2>1, <2>2, <2>3
<1> QED  BY <1>2, <1>3 DEF AnswerHooks, After, Handle

\* A call that ends calls all of the hooks of its end, or some of them.
LEMMA FinishHooks ==
  ASSUME NEW how, NEW answer, FinishWith(how, answer)
  PROVE  \E some \in Seq(Hook) :
           /\ Called(some) /\ \A i \in 1..Len(some) : some[i] = AnswerHooks(answer)[i]
           /\ Len(some) \in 1..Len(AnswerHooks(answer))
           /\ \/ Finish(how) /\ some = AnswerHooks(answer)
              \/ Finish("raised")
<1> DEFINE names == AnswerHooks(answer)
<1>0. After \in Hook /\ Handle \in Hook
  BY DEF After, Handle, Hook
<1>1. names \in Seq(Hook) /\ Len(names) \in {1, 2}
  <2>1. <<After>> \in Seq(Hook) /\ <<Handle, After>> \in Seq(Hook)
    BY <1>0
  <2>2. names = <<After>> \/ names = <<Handle, After>>
    BY Endings
  <2> QED  BY <2>1, <2>2
<1>d. \/ Finish(how) /\ Called(names)
      \/ \E n \in 1..Len(names) : Finish("raised") /\ Called(SubSeq(names, 1, n))
  BY DEF FinishWith
<1> HIDE DEF names
<1>2. CASE Finish(how) /\ Called(names)
  <2>1. Len(names) \in 1..Len(names)
    BY <1>1
  <2> QED  BY <1>1, <1>2, <2>1 DEF names
<1>3. ASSUME NEW n \in 1..Len(names), Finish("raised"), Called(SubSeq(names, 1, n))
      PROVE  \E some \in Seq(Hook) :
               /\ Called(some) /\ \A i \in 1..Len(some) : some[i] = names[i]
               /\ Len(some) \in 1..Len(names) /\ Finish("raised")
  <2> DEFINE some == SubSeq(names, 1, n)
  <2>1. n \in Nat /\ Len(names) \in Nat /\ n >= 1 /\ n <= Len(names)
    BY <1>1
  <2>2. /\ some \in Seq(Hook) /\ Len(some) = n
        /\ \A i \in 1..n : some[i] = names[i]
    BY <1>1, <2>1, SubSeqProperties
  <2>3. Called(some) /\ Finish("raised")
    BY <1>3
  <2> HIDE DEF some
  <2> QED  BY <2>1, <2>2, <2>3
<1> QED  BY <1>2, <1>3, <1>d DEF names

LEMMA HooksTyped == HookTypes /\ [Next]_vars => HookTypes'
<1> SUFFICES ASSUME HookTypes, [Next]_vars PROVE hooks' \in Seq(Hook)
  BY DEF HookTypes
<1>1. ASSUME NEW hook \in Hook, Called(<<hook>>) PROVE hooks' \in Seq(Hook)
  BY <1>1, CallingOne
<1>2. ASSUME NEW how, NEW answer, FinishWith(how, answer) PROVE hooks' \in Seq(Hook)
  BY <1>2, FinishHooks, Calling
<1>3. CASE hooks' = hooks
  BY <1>3 DEF HookTypes
<1>4. CASE LoadRequest \/ Execute \/ Returns \/ Raises \/ BeginCall
  <2>1. \E hook \in Hook : Called(<<hook>>)
    BY <1>4 DEF LoadRequest, Execute, Returns, Raises, BeginCall, Hook
  <2> QED  BY <1>1, <2>1
<1>5. CASE FirstReply \/ StartIterator \/ Pull
  <2>1. \/ hooks' = hooks
        \/ \E how, answer : FinishWith(how, answer)
    BY <1>5 DEF FirstReply, StartIterator, Pull, Consume
  <2> QED  BY <1>2, <1>3, <2>1
<1>6. CASE CloseCall
  <2>1. hooks' = hooks \/ \E hook \in Hook : Called(<<hook>>)
    BY <1>6 DEF CloseCall, Hook
  <2> QED  BY <1>1, <1>3, <2>1
<1>7. CASE StartTask \/ Yields \/ EmitItem \/ EmitLast \/ EmitRefused \/ CloseTask \/ TaskLost
           \/ MethodSwallows \/ ServerDies \/ LoseClient \/ SendRequest \/ Receive
           \/ FirstOfStream \/ Unmatched \/ Expire \/ Resume \/ Drop \/ CloseClient
           \/ LoseServer \/ CallerStruck \/ UNCHANGED vars
  <2>1. hooks' = hooks
    BY <1>7 DEF StartTask, Yields, EmitItem, EmitLast, EmitRefused, CloseTask, TaskLost,
       MethodSwallows, ServerDies, LoseClient, GivesUp, SendRequest, Receive, FirstOfStream,
       Unmatched, Expire, Resume, Drop, CloseClient, LoseServer, CallerStruck, vars
  <2> QED  BY <1>3, <2>1
<1> QED  BY <1>4, <1>5, <1>6, <1>7 DEF Next, TaskStep, ClientStep

-----------------------------------------------------------------------------
\* The hooks of a call that is answered, in order, but for those of its end.
Usual == <<"client_before_request", "load_task_context", "server_before_exec",
           "server_after_exec">>
Through(n) == Len(hooks) = n /\ \A i \in 1..n : hooks[i] = Usual[i]
Inspected ==
  \E n \in 2..4 : /\ Len(hooks) = n + 1 /\ \A i \in 1..n : hooks[i] = Usual[i]
                  /\ hooks[n + 1] = "server_inspect_exception"

\* A last answer comes after the hooks of the server.
Tells(answer) ==
  /\ answer.name \in {"OK", "STREAM_DONE"} => Through(4)
  /\ answer.name = "ERR" => Inspected

\* How far the hooks of the server are, while the call lasts.
Underway ==
  /\ call \in {"idle", "calling"} => inbox = <<>> /\ wire = <<>>
  /\ call = "idle" => hooks = <<>>
  /\ call # "idle" /\ ~Gone =>
       /\ task \in {"none", "queued", "starting"} => Through(1)
       /\ task = "loaded" => Through(2)
       /\ task \in {"running", "streaming", "emitting"} => Through(3)
       /\ task = "replying" => Through(4)
       /\ task = "erring" => Inspected
       /\ call = "unstarted" => Tells(first)
       /\ \A i \in 1..Len(inbox) : Tells(inbox[i])
       /\ \A i \in 1..Len(wire) : Tells(wire[i])

\* The hooks of a call that was answered, to its end.
Answered ==
  /\ Len(hooks) = 5 /\ \A i \in 1..4 : hooks[i] = Usual[i]
  /\ hooks[5] = After
Erred ==
  \E n \in 2..4 : /\ Len(hooks) = n + 3 /\ \A i \in 1..n : hooks[i] = Usual[i]
                  /\ hooks[n + 1] = "server_inspect_exception"
                  /\ hooks[n + 2] = Handle /\ hooks[n + 3] = After
Settled ==
  /\ outcome \in {"value", "exhausted"} => Ended /\ Answered
  /\ outcome = "error" => Ended /\ Erred

\* The last hook of the client is called once, at the end of the call: before close()
\* for an answer, after it for a call that has none.
Unheard == {"unmatched", "timeout"}
OnceAfter ==
  /\ \A i, j \in 1..Len(hooks) : hooks[i] = After /\ hooks[j] = After => i = j
  /\ outcome \in {"value", "exhausted", "error"} \/ (call = "over" /\ outcome \in Unheard) =>
       \E i \in 1..Len(hooks) : hooks[i] = After
  /\ outcome \in {"none", "refused", "dropped"} \/ (call = "closing" /\ outcome \in Unheard) =>
       \A i \in 1..Len(hooks) : hooks[i] # After

\* While the task streams, no last answer is on its way.
LEMMA NoneLast ==
  ASSUME Types, Ordered, ~Gone
  PROVE  /\ call = "unstarted" /\ first.name # "STREAM" => Ended
         /\ \A i \in 1..Len(inbox) : inbox[i].name # "STREAM" => Ended
         /\ \A i \in 1..Len(wire) : wire[i].name # "STREAM" => Ended
<1>1. /\ Len(yielded) \in Nat /\ produced \in Nat /\ BeforeInbox \in Nat /\ BeforeWire \in Nat
      /\ Len(yielded) + 1 \in Nat
  BY Lengths
<1>2. /\ \A i \in 1..Len(inbox) : BeforeInbox + i \in Nat /\ At(BeforeInbox + i, inbox[i])
      /\ \A i \in 1..Len(wire) : BeforeWire + i \in Nat /\ At(BeforeWire + i, wire[i])
      /\ call = "unstarted" => At(Len(yielded) + 1, first)
  BY <1>1 DEF Ordered
<1> QED  BY <1>1, <1>2, LastOfAll

\* A step of the task that calls a hook.
LEMMA NextHook ==
  ASSUME HookTypes, NEW hook \in Hook, Called(<<hook>>)
  PROVE  /\ \A n \in 0..3 : Through(n) /\ hook = Usual[n + 1] => Through(n + 1)'
         /\ \A n \in 2..4 : Through(n) /\ hook = "server_inspect_exception" => Inspected'
         /\ hook # After /\ OnceAfter /\ outcome' = outcome /\ (outcome \in Unheard => call' = call)
              => OnceAfter'
<1>1. /\ Len(hooks) \in Nat /\ Len(hooks') = Len(hooks) + 1
      /\ \A i \in 1..Len(hooks) : hooks'[i] = hooks[i]
      /\ hooks'[Len(hooks) + 1] = hook
  BY CallingOne
<1>2. ASSUME NEW n \in 0..3, Through(n), hook = Usual[n + 1] PROVE Through(n + 1)'
  <2>1. Len(hooks') = n + 1 /\ \A i \in 1..n : hooks'[i] = Usual[i]
    BY <1>1, <1>2 DEF Through
  <2>2. \A i \in 1..(n + 1) : i \in 1..n \/ i = n + 1
    OBVIOUS
  <2>3. hooks'[n + 1] = Usual[n + 1]
    BY <1>1, <1>2 DEF Through
  <2> QED  BY <2>1, <2>2, <2>3 DEF Through
<1>3. ASSUME NEW n \in 2..4, Through(n), hook = "server_inspect_exception" PROVE Inspected'
  BY <1>1, <1>3 DEF Through, Inspected
<1>4. ASSUME hook # After, OnceAfter, outcome' = outcome, outcome \in Unheard => call' = call
      PROVE  OnceAfter'
  <2>1. \A i \in 1..Len(hooks') : i \in 1..Len(hooks) \/ i = Len(hooks) + 1
    BY <1>1
  <2>2. \A i \in 1..Len(hooks') : hooks'[i] = After => i \in 1..Len(hooks) /\ hooks[i] = After
    BY <1>1, <1>4, <2>1
  <2>3. \A i \in 1..Len(hooks) : i \in 1..Len(hooks') /\ hooks'[i] = hooks[i]
    BY <1>1
  <2> QED  BY <1>4, <2>2, <2>3 DEF OnceAfter
<1> QED  BY <1>2, <1>3, <1>4

LEMMA UnderwayStep ==
  Types /\ Ordered /\ Listens /\ HookTypes /\ Underway /\ [Next]_vars => Underway'
<1> SUFFICES ASSUME Types, Ordered, Listens, HookTypes, Underway, [Next]_vars, ~Gone'
             PROVE  Underway'
  <2>1. Gone' => (call' \notin {"idle", "calling"})
    BY DEF Gone
  <2> QED  BY <2>1 DEF Underway
<1> USE DEF Gone, Ended
<1>t. call \in CallState /\ task \in TaskState
  BY DEF Types, Scalars
<1>c. ~Gone
  BY Kinds DEF Rests, Ends, EmitsItem, EmitsLast, Receives, Keeps, YieldsFirst,
     YieldsNext, AsksForMore
<1>w. call \in {"idle", "calling"} => task \in {"none", "over"}
  BY DEF Listens
<1>i. ASSUME inbox # <<>>
      PROVE  /\ Head(inbox) = inbox[1] /\ 1 \in 1..Len(inbox)
             /\ \A i \in 1..Len(Tail(inbox)) :
                  i + 1 \in 1..Len(inbox) /\ Tail(inbox)[i] = inbox[i + 1]
  BY <1>i, Taken DEF Types, Queues
<1>u. ASSUME UNCHANGED <<hooks, first, inbox, wire, call>>,
             \/ task' = task \/ task' \in {"closing", "over", "aborted"}
             \/ task = "queued" /\ task' = "starting"
             \/ task = "streaming" /\ task' = "emitting"
      PROVE  Underway'
  BY <1>u DEF Underway, Through, Inspected, Tells
<1>1. CASE StartTask \/ Yields \/ EmitRefused \/ CloseTask \/ TaskLost \/ MethodSwallows
           \/ ServerDies \/ LoseClient \/ LoseServer \/ CloseClient \/ UNCHANGED vars
  <2>1. UNCHANGED <<hooks, first, inbox, wire, call>>
    BY <1>1 DEF StartTask, Yields, EmitRefused, CloseTask, TaskLost, MethodSwallows, ServerDies,
       LoseClient, LoseServer, GivesUp, CloseClient, vars, clientVars
  <2>2. \/ task' = task \/ task' \in {"closing", "over", "aborted"}
        \/ task = "queued" /\ task' = "starting"
        \/ task = "streaming" /\ task' = "emitting"
    BY <1>1 DEF StartTask, Yields, EmitRefused, CloseTask, TaskLost, MethodSwallows, ServerDies,
       LoseClient, LoseServer, GivesUp, CloseClient, vars, taskVars, session
  <2> QED  BY <1>u, <2>1, <2>2
<1>2. CASE LoadRequest \/ Execute \/ Returns \/ Raises
  <2>1. /\ UNCHANGED <<first, inbox, wire, call>>
        /\ task \notin {"none", "queued", "closing", "over", "aborted"}
    BY <1>2 DEF LoadRequest, Execute, Returns, Raises, clientVars
  <2>2. call \notin {"idle", "calling"}
    BY <1>w, <2>1
  <2>3. /\ call = "unstarted" => first.name = "STREAM"
        /\ \A i \in 1..Len(inbox) : inbox[i].name = "STREAM"
        /\ \A i \in 1..Len(wire) : wire[i].name = "STREAM"
    BY <1>c, <2>1, NoneLast
  <2>4. /\ call' = "unstarted" => Tells(first)'
        /\ (\A i \in 1..Len(inbox) : Tells(inbox[i]))'
        /\ (\A i \in 1..Len(wire) : Tells(wire[i]))'
    BY <2>1, <2>3 DEF Tells
  <2>h. ASSUME NEW hook \in Hook, Called(<<hook>>)
        PROVE  /\ \A n \in 0..3 : Through(n) /\ hook = Usual[n + 1] => Through(n + 1)'
               /\ \A n \in 2..4 : Through(n) /\ hook = "server_inspect_exception" => Inspected'
    BY <2>h, NextHook
  <2>5. CASE LoadRequest
    <3>1. Through(1) /\ task' = "loaded" /\ Called(<<"load_task_context">>)
      BY <1>c, <2>2, <2>5 DEF LoadRequest, Underway
    <3>2. Through(2)'
      BY <2>h, <3>1 DEF Usual, Hook
    <3> QED  BY <2>1, <2>2, <2>4, <3>1, <3>2 DEF Underway
  <2>6. CASE Execute
    <3>1. /\ Through(2) /\ task' \in {"streaming", "running"}
          /\ Called(<<"server_before_exec">>)
      BY <1>c, <2>2, <2>6 DEF Execute, Underway
    <3>2. Through(3)'
      BY <2>h, <3>1 DEF Usual, Hook
    <3> QED  BY <2>1, <2>2, <2>4, <3>1, <3>2 DEF Underway
  <2>7. CASE Returns
    <3>1. Through(3) /\ task' = "replying" /\ Called(<<"server_after_exec">>)
      BY <1>c, <2>2, <2>7 DEF Returns, Underway
    <3>2. Through(4)'
      BY <2>h, <3>1 DEF Usual, Hook
    <3> QED  BY <2>1, <2>2, <2>4, <3>1, <3>2 DEF Underway
  <2>8. CASE Raises
    <3>1. /\ Through(2) \/ Through(3) \/ Through(4)
          /\ task' \in {"erring", "closing"} /\ Called(<<"server_inspect_exception">>)
      BY <1>c, <2>2, <2>8 DEF Raises, Underway
    <3>2. Inspected'
      BY <2>h, <3>1 DEF Hook
    <3> QED  BY <2>1, <2>2, <2>4, <3>1, <3>2 DEF Underway
  <2> QED  BY <1>2, <2>5, <2>6, <2>7, <2>8
<1>3. CASE EmitItem \/ EmitLast
  <2>1. /\ UNCHANGED <<hooks, call, first, inbox>>
        /\ \/ task = "emitting" /\ task' = "streaming"
           \/ task \in {"replying", "erring"} /\ task' = "closing"
    BY <1>3 DEF EmitItem, EmitLast, clientVars
  <2>2. call \notin {"idle", "calling"}
    BY <1>w, <2>1
  <2>3. \E answer \in Answer : Tells(answer) /\ wire' \in {wire, Append(wire, answer)}
    <3>1. CASE EmitItem
      <4>1. produced + 1 \in 1..MaxItems /\ produced \in Nat
        BY <3>1, Numbers DEF EmitItem, Types, Scalars
      <4>2. Item(produced + 1) \in Answer /\ Tells(Item(produced + 1))
        BY <4>1, Answers DEF Tells, Item
      <4> QED  BY <3>1, <4>2 DEF EmitItem, Emit
    <3>2. CASE EmitLast
      <4>1. \/ task = "replying" /\ \E name \in {"STREAM_DONE", "OK"} : Emit(Final(name))
            \/ task = "erring" /\ Emit(Final("ERR"))
        BY <3>2 DEF EmitLast
      <4>2. /\ task = "replying" => Through(4)
            /\ task = "erring" => Inspected
        BY <1>c, <2>2 DEF Underway
      <4>3. \A name \in {"STREAM_DONE", "OK", "ERR"} :
              Final(name) \in Answer /\ Final(name).name = name
        BY DEF Final, Answer
      <4> QED  BY <4>1, <4>2, <4>3 DEF Tells, Emit
    <3> QED  BY <1>3, <3>1, <3>2
  <2>4. \A i \in 1..Len(wire') : Tells(wire'[i])
    <3>1. PICK answer \in Answer : Tells(answer) /\ wire' \in {wire, Append(wire, answer)}
      BY <2>3
    <3>2. \A i \in 1..Len(wire) : Tells(wire[i])
      BY <1>c, <2>2 DEF Underway
    <3>3. /\ Len(wire) \in Nat /\ Len(Append(wire, answer)) = Len(wire) + 1
          /\ \A i \in 1..Len(wire) : Append(wire, answer)[i] = wire[i]
          /\ Append(wire, answer)[Len(wire) + 1] = answer
      BY Grown DEF Types, Queues
    <3>4. \A i \in 1..(Len(wire) + 1) : i \in 1..Len(wire) \/ i = Len(wire) + 1
      BY <3>3
    <3> QED  BY <3>1, <3>2, <3>3, <3>4
  <2> QED  BY <1>c, <2>1, <2>2, <2>4 DEF Underway, Through, Inspected, Tells
<1>4. CASE BeginCall
  <2>1. /\ call = "idle" /\ call' = "calling" /\ UNCHANGED <<task, inbox, wire>>
        /\ Called(<<"client_before_request">>)
    BY <1>4 DEF BeginCall, taskVars
  <2>2. Through(0) /\ inbox = <<>> /\ wire = <<>>
    BY <2>1 DEF Underway, Through
  <2>3. Through(1)'
    BY <2>1, <2>2, NextHook DEF Usual, Hook
  <2>4. task' \in {"none", "over"}
    BY <1>w, <2>1
  <2> QED  BY <2>1, <2>2, <2>3, <2>4 DEF Underway
<1>5. CASE SendRequest
  <2>1. /\ call = "calling" /\ call' \in {"waiting", "stuck"} /\ UNCHANGED <<inbox, wire, hooks>>
        /\ task' = task \/ (task = "none" /\ task' = "queued")
    BY <1>5 DEF SendRequest, Abandon
  <2> QED  BY <2>1, <1>w DEF Underway, Through, Inspected, Tells
<1>6. CASE Receive
  <2>1. /\ UNCHANGED <<hooks, call, first, task>> /\ wire # <<>>
        /\ wire' = Tail(wire) /\ inbox' = Append(inbox, Head(wire))
    BY <1>6 DEF Receive, Queued, clientVars, taskVars
  <2>2. call \notin {"idle", "calling"}
    BY <2>1 DEF Underway
  <2>3. /\ Head(wire) = wire[1] /\ 1 \in 1..Len(wire) /\ Head(wire) \in Answer
        /\ \A i \in 1..Len(wire') : i + 1 \in 1..Len(wire) /\ wire'[i] = wire[i + 1]
    BY <2>1, Taken DEF Types, Queues
  <2>4. /\ Len(inbox) \in Nat /\ Len(inbox') = Len(inbox) + 1
        /\ \A i \in 1..Len(inbox) : inbox'[i] = inbox[i]
        /\ inbox'[Len(inbox) + 1] = wire[1]
    BY <2>1, <2>3, Grown DEF Types, Queues
  <2>5. /\ \A i \in 1..Len(wire') : Tells(wire'[i])
        /\ \A i \in 1..Len(inbox) : Tells(inbox'[i])
        /\ Tells(wire[1])
    BY <1>c, <2>2, <2>3, <2>4 DEF Underway
  <2>6. \A i \in 1..Len(inbox') : Tells(inbox'[i])
    <3>1. \A i \in 1..Len(inbox') : i \in 1..Len(inbox) \/ i = Len(inbox) + 1
      BY <2>4
    <3> QED  BY <2>4, <2>5, <3>1
  <2> QED  BY <1>c, <2>1, <2>2, <2>5, <2>6 DEF Underway, Through, Inspected, Tells
<1>7. CASE FirstReply \/ Unmatched \/ Expire \/ CloseCall
  BY <1>7 DEF FirstReply, Unmatched, Expire, CloseCall, FinishWith, Finish
<1>8. CASE FirstOfStream
  <2>1. /\ call = "waiting" /\ call' = "unstarted" /\ inbox # <<>> /\ inbox' = Tail(inbox)
        /\ first' = Head(inbox) /\ UNCHANGED <<hooks, wire, task>>
    BY <1>8 DEF FirstOfStream, taskVars
  <2> QED  BY <1>i, <2>1 DEF Underway, Through, Inspected, Tells
<1>9. CASE StartIterator \/ Pull
  <2>1. /\ call \in {"unstarted", "pulling"} /\ UNCHANGED task
        /\ inbox' = inbox \/ (inbox # <<>> /\ inbox' = Tail(inbox))
        /\ \E answer : Consume(answer)
    BY <1>9 DEF StartIterator, Pull, taskVars
  <2>2. call' = "suspended" /\ UNCHANGED <<hooks, wire>>
    BY <1>9, <2>1, Consumed DEF Finish, StartIterator, Pull
  <2>3. \A i \in 1..Len(inbox') : Tells(inbox'[i])
    BY <1>i, <2>1 DEF Underway
  <2> QED  BY <2>1, <2>2, <2>3 DEF Underway, Through, Inspected, Tells
<1>10. CASE Resume
  <2>1. /\ call = "suspended" /\ call' \in {"stuck", "pulling"}
        /\ UNCHANGED <<hooks, inbox, wire, task>>
    BY <1>10 DEF Resume, Finish, taskVars
  <2> QED  BY <2>1 DEF Underway, Through, Inspected, Tells
<1>11. CASE Drop
  BY <1>11 DEF Drop, Finish, Abandon
<1>12. CASE CallerStruck
  <2>1. UNCHANGED <<hooks, first, inbox, wire, call, task>>
    BY <1>12 DEF CallerStruck, Abandon, Finish, taskVars
  <2> QED  BY <1>u, <2>1
<1> QED
  BY <1>1, <1>2, <1>3, <1>4, <1>5, <1>6, <1>7, <1>8, <1>9, <1>10, <1>11, <1>12
  DEF Next, TaskStep, ClientStep

\* An answer that is the last one, and what a call that takes it comes to.
Concludes(answer) ==
  /\ answer.name # "STREAM" /\ Ended /\ task' = task /\ Tells(answer)
  /\ \E how \in {"value", "exhausted", "error"} :
       /\ how = "error" <=> answer.name = "ERR"
       /\ FinishWith(how, answer)

\* What the steps do to the hooks and to the outcome.
Goes ==
  /\ UNCHANGED <<outcome, hooks>> /\ (Ended => Ended')
  /\ outcome \in Unheard => call' = call
Hooks ==
  /\ outcome' = outcome /\ (outcome = "none" \/ ~Ended)
  /\ outcome \in Unheard => call' = call
  /\ \E hook \in Hook \ {After, Handle} : Called(<<hook>>)
Stops ==
  /\ UNCHANGED <<hooks>>
  /\ \/ outcome = "none" /\ outcome' \in {"refused", "lost", "dropped"}
     \/ outcome = "none" /\ outcome' \in Unheard /\ call' = "closing"
     \/ outcome' = "cut"
ClosesUnheard ==
  /\ call = "closing" /\ call' = "over" /\ outcome \in Unheard /\ outcome' \in {outcome, "raised"}
  /\ Called(<<After>>)
Concluding == outcome = "none" /\ \E answer \in Answer : Concludes(answer)

LEMMA Outcomes ==
  ASSUME Types, Ordered, Listens, Underway, [Next]_vars
  PROVE  Goes \/ Hooks \/ Stops \/ ClosesUnheard \/ Concluding
<1>n. ~Gone <=> outcome = "none"
  BY DEF Listens
<1>h. outcome \in Unheard => Gone
  BY <1>n DEF Unheard
<1>t. call \in CallState
  BY DEF Types, Scalars
<1>1. CASE StartTask \/ Yields \/ EmitItem \/ EmitLast \/ EmitRefused \/ CloseTask \/ TaskLost
           \/ MethodSwallows \/ ServerDies \/ LoseClient \/ LoseServer \/ CloseClient
           \/ Receive \/ UNCHANGED vars
  <2>1. UNCHANGED <<outcome, hooks, call>>
    BY <1>1 DEF StartTask, Yields, EmitItem, EmitLast, EmitRefused, CloseTask, TaskLost,
       MethodSwallows, ServerDies, LoseClient, LoseServer, GivesUp, CloseClient, Receive, vars,
       clientVars
  <2>2. Ended => Ended'
    BY <1>1 DEF StartTask, Yields, EmitItem, EmitLast, EmitRefused, CloseTask, TaskLost,
       MethodSwallows, ServerDies, LoseClient, LoseServer, GivesUp, CloseClient, Receive, vars,
       taskVars, session, Ended
  <2> QED  BY <2>1, <2>2 DEF Goes
<1>2. CASE LoadRequest \/ Execute \/ Returns \/ Raises
  <2>1. /\ UNCHANGED <<outcome, call>> /\ ~Ended
        /\ \E hook \in Hook \ {After, Handle} : Called(<<hook>>)
    BY <1>2 DEF LoadRequest, Execute, Returns, Raises, clientVars, Hook, After, Handle, Ended
  <2> QED  BY <2>1 DEF Hooks
<1>3. CASE BeginCall
  <2>1. /\ outcome' = outcome /\ ~Gone /\ Called(<<"client_before_request">>)
    BY <1>3 DEF BeginCall, Gone
  <2> QED  BY <1>n, <1>h, <2>1 DEF Hooks, Hook, After, Handle
<1>4. CASE SendRequest \/ FirstOfStream \/ Resume \/ Drop
  <2>1. /\ hooks' = hooks /\ (Ended => Ended') /\ ~Gone
        /\ outcome' \in {outcome, "refused", "lost", "dropped"}
    BY <1>4 DEF SendRequest, FirstOfStream, Resume, Drop, Finish, Abandon, taskVars, Gone, Ended
  <2> QED  BY <1>n, <1>h, <2>1 DEF Goes, Stops
<1>5. CASE Unmatched \/ Expire
  <2>1. hooks' = hooks /\ ~Gone /\ call' = "closing" /\ outcome' \in Unheard
    BY <1>5 DEF Unmatched, Expire, Finish, Gone, Unheard
  <2> QED  BY <1>n, <2>1 DEF Stops
<1>9. CASE CloseCall
  <2>1. CASE outcome \in Unheard
    BY <1>9, <2>1 DEF CloseCall, ClosesUnheard, Unheard, After
  <2>2. CASE outcome \notin Unheard
    BY <1>9, <2>2 DEF CloseCall, Goes, Unheard, taskVars, Ended
  <2> QED  BY <2>1, <2>2
<1>10. CASE CallerStruck
  <2>1. /\ hooks' = hooks /\ task' = task
        /\ \/ ~Gone /\ outcome' = "lost"
           \/ outcome' = "cut"
           \/ UNCHANGED <<call, outcome>>
    BY <1>10 DEF CallerStruck, InCall, Abandon, Finish, taskVars, Gone
  <2> QED  BY <1>n, <2>1 DEF Goes, Stops, Ended
\* The answer the client takes next.
<1>i. ASSUME inbox # <<>>, call \in {"waiting", "pulling"}
      PROVE  /\ Head(inbox) \in Answer /\ Tells(Head(inbox))
             /\ Head(inbox).name # "STREAM" => Ended
  <2>1. Head(inbox) = inbox[1] /\ 1 \in 1..Len(inbox) /\ Head(inbox) \in Answer
    BY <1>i, Taken DEF Types, Queues
  <2>2. Tells(inbox[1])
    BY <1>i, <2>1 DEF Underway, Gone
  <2>3. inbox[1].name # "STREAM" => Ended
    BY <1>i, <2>1, NoneLast DEF Gone
  <2> QED  BY <2>1, <2>2, <2>3
<1>6. CASE FirstReply
  <2>1. /\ call = "waiting" /\ inbox # <<>> /\ Head(inbox).name \in {"OK", "ERR"}
        /\ task' = task
        /\ FinishWith(IF Head(inbox).name = "OK" THEN "value" ELSE "error", Head(inbox))
    BY <1>6 DEF FirstReply, taskVars
  <2>2. Concludes(Head(inbox))
    BY <1>i, <2>1 DEF Concludes
  <2> QED  BY <1>i, <1>n, <2>1, <2>2 DEF Concluding, Gone
\* The iterator takes it.
<1>c. ASSUME NEW answer \in Answer, Consume(answer), Tells(answer), task' = task,
             answer.name # "STREAM" => Ended, ~Gone
      PROVE  Goes \/ Concludes(answer)
  BY <1>c, <1>h DEF Consume, Goes, Concludes, Ended
<1>7. CASE StartIterator
  <2>1. call = "unstarted" /\ task' = task /\ Consume(first)
    BY <1>7 DEF StartIterator, taskVars
  <2>2. Tells(first) /\ (first.name # "STREAM" => Ended)
    BY <2>1, NoneLast DEF Underway, Gone
  <2>3. first \in Answer
    <3>1. At(Len(yielded) + 1, first)
      BY <2>1 DEF Ordered, Gone
    <3>2. Len(yielded) + 1 <= produced => Len(yielded) + 1 \in 1..MaxItems
      BY Lengths, Numbers
    <3> QED  BY <3>1, <3>2, Answers DEF At
  <2>4. Goes \/ Concludes(first)
    BY <1>c, <2>1, <2>2, <2>3 DEF Gone
  <2> QED  BY <1>n, <2>1, <2>3, <2>4 DEF Concluding, Gone
<1>8. CASE Pull
  <2>1. call = "pulling" /\ inbox # <<>> /\ task' = task /\ Consume(Head(inbox))
    BY <1>8 DEF Pull, taskVars
  <2>2. Goes \/ Concludes(Head(inbox))
    BY <1>c, <1>i, <2>1 DEF Gone
  <2> QED  BY <1>i, <1>n, <2>1, <2>2 DEF Concluding, Gone
<1> QED
  BY <1>1, <1>2, <1>3, <1>4, <1>5, <1>6, <1>7, <1>8, <1>9, <1>10 DEF Next, TaskStep, ClientStep

\* The hooks of a call whose last answer was taken and whose hooks did not raise.
LEMMA Concluded ==
  ASSUME HookTypes, NEW names \in Seq(Hook), Called(names)
  PROVE  /\ Through(4) /\ names = <<After>> => Answered'
         /\ Inspected /\ names = <<Handle, After>> => Erred'
<1>1. /\ Len(hooks) \in Nat /\ Len(names) \in Nat /\ Len(hooks') = Len(hooks) + Len(names)
      /\ \A i \in 1..Len(hooks') :
           hooks'[i] = IF i <= Len(hooks) THEN hooks[i] ELSE names[i - Len(hooks)]
  BY Calling
<1>2. ASSUME Through(4), names = <<After>> PROVE Answered'
  <2>1. Len(hooks) = 4 /\ Len(names) = 1 /\ names[1] = After
    BY <1>2 DEF Through
  <2>2. Len(hooks') = 5 /\ hooks'[5] = After /\ \A i \in 1..4 : hooks'[i] = hooks[i]
    BY <1>1, <2>1
  <2> QED  BY <1>2, <2>2 DEF Through, Answered
<1>3. ASSUME Inspected, names = <<Handle, After>> PROVE Erred'
  <2>1. Len(names) = 2 /\ names[1] = Handle /\ names[2] = After
    BY <1>3
  <2>2. PICK n \in 2..4 : /\ Len(hooks) = n + 1 /\ \A i \in 1..n : hooks[i] = Usual[i]
                          /\ hooks[n + 1] = "server_inspect_exception"
    BY <1>3 DEF Inspected
  <2>3. /\ Len(hooks') = n + 3 /\ \A i \in 1..(n + 1) : hooks'[i] = hooks[i]
        /\ hooks'[n + 2] = Handle /\ hooks'[n + 3] = After
    <3>1. Len(hooks') = n + 3
      BY <1>1, <2>1, <2>2
    <3>2. (n + 2) - (n + 1) = 1 /\ (n + 3) - (n + 1) = 2
      OBVIOUS
    <3>3. hooks'[n + 2] = Handle /\ hooks'[n + 3] = After
      BY <1>1, <2>1, <2>2, <3>1, <3>2
    <3> QED  BY <1>1, <2>2, <3>1, <3>3
  <2>4. \A i \in 1..n : hooks'[i] = Usual[i]
    BY <2>2, <2>3
  <2>5. hooks'[n + 1] = "server_inspect_exception"
    BY <2>2, <2>3
  <2> QED  BY <2>3, <2>4, <2>5 DEF Erred
<1> QED  BY <1>2, <1>3

LEMMA SettledStep ==
  Types /\ Ordered /\ Listens /\ HookTypes /\ Underway /\ Settled /\ [Next]_vars => Settled'
<1> SUFFICES ASSUME Types, Ordered, Listens, HookTypes, Underway, Settled, [Next]_vars
             PROVE  Settled'
  OBVIOUS
<1>1. CASE Goes
  BY <1>1 DEF Goes, Settled, Answered, Erred
<1>2. CASE Hooks
  BY <1>2 DEF Hooks, Settled
<1>3. CASE Stops
  BY <1>3 DEF Stops, Settled, Unheard
<1>4. CASE ClosesUnheard
  BY <1>4 DEF ClosesUnheard, Settled, Unheard
<1>5. CASE Concluding
  <2>1. PICK answer \in Answer : Concludes(answer)
    BY <1>5 DEF Concluding
  <2>2. PICK how \in {"value", "exhausted", "error"} :
          /\ how = "error" <=> answer.name = "ERR"
          /\ FinishWith(how, answer)
    BY <2>1 DEF Concludes
  <2>4. PICK some \in Seq(Hook) :
          /\ Called(some)
          /\ \/ Finish(how) /\ some = AnswerHooks(answer)
             \/ Finish("raised")
    BY <2>2, FinishHooks
  <2>5. CASE Finish("raised")
    BY <2>5 DEF Finish, Settled
  <2>6. CASE Finish(how) /\ some = AnswerHooks(answer)
    <3>1. outcome' = how /\ Ended'
      BY <2>1, <2>6 DEF Finish, Concludes, Ended
    <3>2. CASE how = "error"
      <4>1. some = <<Handle, After>> /\ Inspected
        BY <2>1, <2>2, <2>6, <3>2, Endings DEF Concludes, Tells
      <4>2. Erred'
        BY <2>4, <4>1, Concluded
      <4> QED  BY <3>1, <3>2, <4>2 DEF Settled
    <3>3. CASE how # "error"
      <4>1. answer.name \in {"OK", "STREAM_DONE"}
        BY <2>1, <2>2, <3>3, Answers DEF Concludes, FinalName
      <4>2. some = <<After>> /\ Through(4)
        BY <2>1, <2>6, <4>1, Endings DEF Concludes, Tells
      <4>3. Answered'
        BY <2>4, <4>2, Concluded
      <4> QED  BY <3>1, <3>3, <4>3 DEF Settled
    <3> QED  BY <3>2, <3>3
  <2> QED  BY <2>4, <2>5, <2>6
<1> QED  BY <1>1, <1>2, <1>3, <1>4, <1>5, Outcomes

LEMMA OnceAfterStep ==
  Types /\ Ordered /\ Listens /\ HookTypes /\ Underway /\ OnceAfter /\ [Next]_vars => OnceAfter'
<1> SUFFICES ASSUME Types, Ordered, Listens, HookTypes, Underway, OnceAfter, [Next]_vars
             PROVE  OnceAfter'
  OBVIOUS
<1>1. CASE Goes
  BY <1>1 DEF Goes, OnceAfter
<1>2. CASE Hooks
  <2>1. /\ outcome' = outcome /\ (outcome \in Unheard => call' = call)
        /\ \E hook \in Hook \ {After, Handle} : Called(<<hook>>)
    BY <1>2 DEF Hooks
  <2> QED  BY <2>1, NextHook
<1>3. CASE Stops
  BY <1>3 DEF Stops, OnceAfter, Unheard
<1>5. CASE ClosesUnheard
  <2>1. \A i \in 1..Len(hooks) : hooks[i] # After
    BY <1>5 DEF ClosesUnheard, OnceAfter
  <2>2. /\ Len(hooks) \in Nat /\ Len(hooks') = Len(hooks) + 1
        /\ \A i \in 1..Len(hooks) : hooks'[i] = hooks[i]
        /\ hooks'[Len(hooks) + 1] = After
    <3>1. Called(<<After>>) /\ After \in Hook
      BY <1>5 DEF ClosesUnheard, After, Hook
    <3> QED  BY <3>1, CallingOne
  <2>3. \A i \in 1..Len(hooks') : hooks'[i] = After => i = Len(hooks) + 1
    BY <2>1, <2>2
  <2>4. \E i \in 1..Len(hooks') : hooks'[i] = After
    BY <2>2
  <2>5. outcome' \in {"unmatched", "timeout", "raised"} /\ call' = "over"
    BY <1>5 DEF ClosesUnheard, Unheard
  <2> QED  BY <2>3, <2>4, <2>5 DEF OnceAfter
<1>4. CASE Concluding
  <2>1. PICK answer \in Answer, how \in {"value", "exhausted", "error"} : FinishWith(how, answer)
    BY <1>4 DEF Concluding, Concludes
  <2> DEFINE names == AnswerHooks(answer)
  <2>3. PICK some \in Seq(Hook) :
          /\ Called(some) /\ \A i \in 1..Len(some) : some[i] = names[i]
          /\ Len(some) \in 1..Len(names)
          /\ \/ Finish(how) /\ some = names
             \/ Finish("raised")
    BY <2>1, FinishHooks
  <2>n. names = <<After>> \/ names = <<Handle, After>>
    BY Endings
  <2> HIDE DEF names
  <2>4. /\ Len(hooks) \in Nat /\ Len(some) \in Nat /\ Len(hooks') = Len(hooks) + Len(some)
        /\ \A i \in 1..Len(hooks') :
             hooks'[i] = IF i <= Len(hooks) THEN hooks[i] ELSE some[i - Len(hooks)]
    BY <2>3, Calling
  <2>5. \A i \in 1..Len(hooks) : hooks[i] # After
    BY <1>4 DEF OnceAfter, Concluding
  <2>6. /\ Len(names) \in Nat /\ names[Len(names)] = After /\ Len(names) \in {1, 2}
        /\ \A i \in 1..Len(names) : names[i] = After => i = Len(names)
    <3>1. CASE names = <<After>>
      BY <3>1
    <3>2. CASE names = <<Handle, After>>
      BY <3>2 DEF Handle, After
    <3> QED  BY <2>n, <3>1, <3>2
  <2>7. \A i \in 1..Len(hooks') : hooks'[i] = After => i = Len(hooks) + Len(names)
    <3> SUFFICES ASSUME NEW i \in 1..Len(hooks'), hooks'[i] = After
                 PROVE  i = Len(hooks) + Len(names)
      OBVIOUS
    <3>1. ~(i <= Len(hooks)) /\ i \in Nat
      BY <2>4, <2>5
    <3>2. i - Len(hooks) \in 1..Len(some) /\ some[i - Len(hooks)] = After
      BY <2>4, <3>1
    <3>3. i - Len(hooks) \in 1..Len(names) /\ names[i - Len(hooks)] = After
      BY <2>3, <2>4, <2>6, <3>2
    <3>4. i - Len(hooks) = Len(names)
      BY <2>6, <3>3
    <3> QED  BY <2>4, <2>6, <3>1, <3>4
  <2>8. outcome' = "raised" \/ outcome' = how
    BY <2>3 DEF Finish
  <2>9. outcome' = how /\ some = names => \E i \in 1..Len(hooks') : hooks'[i] = After
    <3> SUFFICES ASSUME some = names PROVE \E i \in 1..Len(hooks') : hooks'[i] = After
      OBVIOUS
    <3>s. Len(some) = Len(names)
      OBVIOUS
    <3>g. Len(names) >= 1
      <4>1. Len(names) \in 1..2
        BY <2>n
      <4> QED  BY <4>1
    <3>0. Len(hooks') = Len(hooks) + Len(names) /\ Len(names) >= 1
      BY <2>4, <3>s, <3>g
    <3>h. Len(hooks) \in Nat /\ Len(names) \in Nat
      BY <2>4, <2>6
    <3>1. /\ Len(hooks) + Len(names) \in 1..Len(hooks')
          /\ ~(Len(hooks) + Len(names) <= Len(hooks))
          /\ (Len(hooks) + Len(names)) - Len(hooks) = Len(names)
      BY <3>0, <3>h
    <3>2. hooks'[Len(hooks) + Len(names)] = After
      BY <2>4, <2>6, <3>1
    <3> QED  BY <3>1, <3>2
  <2>10. outcome' = "raised" \/ (outcome' = how /\ some = names)
    BY <2>3 DEF Finish
  <2> QED  BY <2>7, <2>9, <2>10 DEF OnceAfter, Unheard
<1> QED  BY <1>1, <1>2, <1>3, <1>4, <1>5, Outcomes

-----------------------------------------------------------------------------
(***************************************************************************)
(* The inductive invariant.                                                *)
(***************************************************************************)
IInv == /\ Types /\ HookTypes /\ Listens /\ Ordered /\ Complete /\ Closes
        /\ Underway /\ Settled /\ OnceAfter

LEMMA InitIInv == Init => IInv
<1> SUFFICES ASSUME Init PROVE IInv
  OBVIOUS
<1>1. /\ call = "idle" /\ outcome = "none" /\ yielded = <<>> /\ first = Final("none")
      /\ closeIf = FALSE /\ receiving = FALSE /\ hooks = <<>>
      /\ kind \in [stream : BOOLEAN, async : BOOLEAN] /\ shut = FALSE
      /\ task = "none" /\ produced = 0
      /\ chan = [e \in End |-> "none"] /\ lost = [e \in End |-> FALSE]
      /\ pending = [e \in End |-> FALSE]
      /\ wire = <<>> /\ inbox = <<>> /\ credit = 1
  BY DEF Init, InitialCredit
<1>2. Len(wire) = 0 /\ Len(inbox) = 0 /\ Len(yielded) = 0 /\ Len(hooks) = 0
  BY <1>1
<1>3. Types
  <2>1. Scalars
    <3>1. produced \in 0..MaxItems /\ (task = "emitting" => produced < MaxItems)
      BY <1>1, Numbers
    <3>2. chan \in [End -> ChanState] /\ lost \in [End -> BOOLEAN] /\ pending \in [End -> BOOLEAN]
      BY <1>1 DEF ChanState
    <3>3. call \in CallState /\ outcome \in Outcome /\ task \in TaskState
      BY <1>1 DEF CallState, Outcome, TaskState
    <3> QED  BY <1>1, <3>1, <3>2, <3>3 DEF Scalars
  <2>2. Queues
    BY <1>1, <1>2, Numbers DEF Queues
  <2> QED  BY <2>1, <2>2 DEF Types
<1>4. HookTypes
  BY <1>1 DEF HookTypes
<1>5. Listens
  BY <1>1 DEF Listens, ReleasedAtTheEnd, End, Gone
<1>6. Ordered
  BY <1>1, <1>2 DEF Ordered, BeforeInbox, BeforeWire, Kept
<1>7. Complete /\ Settled
  BY <1>1 DEF Complete, Settled
<1>8. Closes
  BY <1>1, <1>2 DEF Closes, Early, Final
<1>9. Underway /\ OnceAfter
  BY <1>1, <1>2 DEF Underway, OnceAfter, Unheard
<1> QED  BY <1>3, <1>4, <1>5, <1>6, <1>7, <1>8, <1>9 DEF IInv

LEMMA StepIInv == IInv /\ [Next]_vars => IInv'
<1> SUFFICES ASSUME Types, HookTypes, Listens, Ordered, Complete, Closes, Underway, Settled,
                    OnceAfter, [Next]_vars
             PROVE  IInv'
  BY DEF IInv
<1>1. Types'
  BY ScalarsStep, QueuesStep DEF Types
<1>2. HookTypes' /\ Listens'
  BY HooksTyped, ListensStep
<1>3. Ordered' /\ Complete'
  BY <1>1, OrderedStep, CompleteStep
<1>4. Closes'
  BY ClosesStep
<1>5. Underway' /\ Settled' /\ OnceAfter'
  BY UnderwayStep, SettledStep, OnceAfterStep
<1> QED  BY <1>1, <1>2, <1>3, <1>4, <1>5 DEF IInv

LEMMA Invariance == Spec => []IInv
BY InitIInv, StepIInv, PTL DEF Spec

-----------------------------------------------------------------------------
(***************************************************************************)
(* The theorems.                                                           *)
(***************************************************************************)
\* Every variable has its type; the answers unread and under way, and those the task
\* may still emit, never exceed the window the client granted.
THEOREM TypeCorrect == Spec => []TypeOK
<1>1. Types /\ HookTypes => TypeOK
  BY DEF Types, Scalars, Queues, HookTypes, CallState, Outcome, TaskState, ChanState, TypeOK
<1> QED  BY <1>1, Invariance, PTL DEF IInv

\* From positions to sequences.
LEMMA InOrder == Types /\ Ordered => AnswersInOrder
<1> SUFFICES ASSUME Types, Ordered, ~Gone
             PROVE  \/ Items(yielded) \o Held \o inbox \o wire = [i \in 1..produced |-> Item(i)]
                    \/ /\ Ended
                       /\ \E name \in {"OK", "ERR", "STREAM_DONE"} :
                            Items(yielded) \o Held \o inbox \o wire =
                              Append([i \in 1..produced |-> Item(i)], Final(name))
  BY DEF AnswersInOrder, Gone, Ended
<1> DEFINE items == [i \in 1..produced |-> Item(i)]
           read == Items(yielded)
           kept == read \o Held
           queued == kept \o inbox
           answers == queued \o wire
<1>0. /\ Len(yielded) \in Nat /\ Len(inbox) \in Nat /\ Len(wire) \in Nat
      /\ produced \in Nat /\ produced <= MaxItems /\ BeforeInbox \in Nat /\ BeforeWire \in Nat
  BY Lengths
<1>1. items \in Seq(Answer) /\ Len(items) = produced /\ \A i \in 1..produced : items[i] = Item(i)
  <2>1. \A i \in 1..produced : Item(i) \in Answer
    BY <1>0, Numbers, Answers
  <2> QED  BY <1>0, <2>1, IsASeq
<1>2. /\ read \in Seq(Answer) /\ Len(read) = Len(yielded)
      /\ \A i \in 1..Len(yielded) : At(i, read[i])
  <2>1. \A i \in 1..Len(yielded) : i <= produced /\ yielded[i] = i /\ i \in 1..MaxItems
    BY <1>0, Numbers DEF Ordered
  <2>2. \A i \in 1..Len(yielded) : Item(yielded[i]) \in Answer
    BY <2>1, Answers
  <2>3. /\ read \in Seq(Answer) /\ Len(read) = Len(yielded)
        /\ \A i \in 1..Len(yielded) : read[i] = Item(yielded[i])
    BY <1>0, <2>2, IsASeq DEF Items
  <2> QED  BY <2>1, <2>3 DEF At
<1>3. /\ Held \in Seq(Answer) /\ Len(Held) = Kept
      /\ \A i \in 1..Kept : At(Len(yielded) + i, Held[i])
  <2>1. CASE call = "unstarted"
    <3>1. At(Len(yielded) + 1, first)
      BY <2>1 DEF Ordered
    <3>2. first \in Answer
      <4>1. Len(yielded) + 1 <= produced => Len(yielded) + 1 \in 1..MaxItems
        BY <1>0, Numbers
      <4> QED  BY <3>1, <4>1, Answers DEF At
    <3>3. Held = <<first>> /\ Kept = 1
      BY <2>1 DEF Held, Kept
    <3>4. <<first>> \in Seq(Answer) /\ Len(<<first>>) = 1 /\ <<first>>[1] = first
      BY <3>2
    <3> QED  BY <3>1, <3>3, <3>4
  <2>2. CASE call # "unstarted"
    BY <2>2 DEF Held, Kept
  <2> QED  BY <2>1, <2>2
\* A sequence in order, then the next one.
<1>5. ASSUME NEW s \in Seq(Answer), NEW t \in Seq(Answer),
             \A k \in 1..Len(s) : At(k, s[k]), \A i \in 1..Len(t) : At(Len(s) + i, t[i])
      PROVE  /\ s \o t \in Seq(Answer) /\ Len(s \o t) = Len(s) + Len(t)
             /\ \A k \in 1..Len(s \o t) : At(k, (s \o t)[k])
  <2> DEFINE n == Len(s)
             m == Len(t)
  <2>0. n \in Nat /\ m \in Nat
    BY LenProperties
  <2>1. /\ s \o t \in Seq(Answer) /\ Len(s \o t) = n + m
        /\ \A k \in 1..(n + m) : (s \o t)[k] = IF k <= n THEN s[k] ELSE t[k - n]
    BY <1>5, ConcatProperties
  <2>a. \A k \in 1..n : At(k, s[k])
    BY <1>5
  <2>b. \A i \in 1..m : At(n + i, t[i])
    BY <1>5
  <2> HIDE DEF n, m
  <2>2. ASSUME NEW k \in 1..(n + m) PROVE At(k, (s \o t)[k])
    <3>1. CASE k <= n
      <4>1. k \in 1..n
        BY <2>0, <3>1
      <4> QED  BY <2>a, <2>1, <3>1, <4>1
    <3>2. CASE ~(k <= n)
      <4>1. k - n \in 1..m /\ n + (k - n) = k
        BY <2>0, <3>2
      <4>2. At(n + (k - n), t[k - n])
        BY <2>b, <4>1
      <4> QED  BY <2>1, <3>2, <4>1, <4>2
    <3> QED  BY <3>1, <3>2
  <2> QED  BY <2>1, <2>2 DEF n, m
<1>6. inbox \in Seq(Answer) /\ wire \in Seq(Answer)
  BY DEF Types, Queues
<1> HIDE DEF items, read
<1>4. /\ kept \in Seq(Answer) /\ Len(kept) = BeforeInbox
      /\ \A k \in 1..Len(kept) : At(k, kept[k])
  <2>1. \A k \in 1..Len(read) : At(k, read[k])
    BY <1>2
  <2>2. \A i \in 1..Len(Held) : At(Len(read) + i, Held[i])
    BY <1>2, <1>3
  <2>3. /\ read \o Held \in Seq(Answer) /\ Len(read \o Held) = Len(read) + Len(Held)
        /\ \A k \in 1..Len(read \o Held) : At(k, (read \o Held)[k])
    BY <1>2, <1>3, <1>5, <2>1, <2>2
  <2> QED  BY <1>2, <1>3, <2>3 DEF BeforeInbox
<1> HIDE DEF kept
<1>7. /\ queued \in Seq(Answer) /\ Len(queued) = BeforeWire
      /\ \A k \in 1..Len(queued) : At(k, queued[k])
  <2>1. \A i \in 1..Len(inbox) : At(Len(kept) + i, inbox[i])
    BY <1>4 DEF Ordered
  <2>2. /\ kept \o inbox \in Seq(Answer) /\ Len(kept \o inbox) = Len(kept) + Len(inbox)
        /\ \A k \in 1..Len(kept \o inbox) : At(k, (kept \o inbox)[k])
    BY <1>4, <1>5, <1>6, <2>1
  <2> QED  BY <1>4, <2>2 DEF BeforeWire
<1> HIDE DEF queued
<1>8. /\ answers \in Seq(Answer) /\ Len(answers) = BeforeWire + Len(wire)
      /\ \A k \in 1..(BeforeWire + Len(wire)) : At(k, answers[k])
  <2>1. \A i \in 1..Len(wire) : At(Len(queued) + i, wire[i])
    BY <1>7 DEF Ordered
  <2>2. /\ queued \o wire \in Seq(Answer) /\ Len(queued \o wire) = Len(queued) + Len(wire)
        /\ \A k \in 1..Len(queued \o wire) : At(k, (queued \o wire)[k])
    BY <1>5, <1>6, <1>7, <2>1
  <2> QED  BY <1>7, <2>2
<1> HIDE DEF answers
<1>9. CASE BeforeWire + Len(wire) = produced
  <2>1. \A k \in 1..Len(answers) : answers[k] = items[k]
    BY <1>0, <1>1, <1>8, <1>9 DEF At
  <2>2. answers = items
    BY <1>1, <1>8, <1>9, <2>1, SeqEqual
  <2> QED  BY <2>2 DEF answers, items, queued, kept, read
<1>10. CASE BeforeWire + Len(wire) = produced + 1 /\ Ended
  <2>1. answers[produced + 1] \in Finals
    BY <1>0, <1>8, <1>10 DEF At
  <2>2. PICK name \in {"OK", "ERR", "STREAM_DONE"} : answers[produced + 1] = Final(name)
    BY <2>1 DEF Finals, FinalName
  <2>3. /\ Append(items, Final(name)) \in Seq(Answer)
        /\ Len(Append(items, Final(name))) = produced + 1
        /\ \A k \in 1..produced : Append(items, Final(name))[k] = items[k]
        /\ Append(items, Final(name))[produced + 1] = Final(name)
    BY <1>1, <2>1, <2>2, Answers, Grown
  <2>4. \A k \in 1..(produced + 1) : k = produced + 1 \/ (k \in 1..produced /\ k <= produced)
    BY <1>0
  <2>5. \A k \in 1..produced : k <= produced => answers[k] = items[k]
    BY <1>0, <1>1, <1>8, <1>10 DEF At
  <2>6. \A k \in 1..(produced + 1) : answers[k] = Append(items, Final(name))[k]
    BY <2>2, <2>3, <2>4, <2>5
  <2>7. answers = Append(items, Final(name))
    BY <1>8, <1>10, <2>3, <2>6, SeqEqual
  <2> QED  BY <1>10, <2>7 DEF answers, items, queued, kept, read
<1> QED  BY <1>9, <1>10 DEF Ordered

\* What the application read and what is still to be read are the items the task
\* streamed, each once and in order, then at most one last answer of a task that
\* streams no more.
THEOREM OrderCorrect == Spec => []AnswersInOrder
BY Invariance, InOrder, PTL DEF IInv

\* An iterator that ends normally gave every item of the stream, though the channel may
\* be closed, or its remote lost, before the last ones are read.
THEOREM ExhaustedCorrect == Spec => []ExhaustedIsComplete
<1>1. Types /\ Complete => ExhaustedIsComplete
  <2> SUFFICES ASSUME Types, Complete, outcome = "exhausted"
               PROVE  yielded = [i \in 1..produced |-> i]
    BY DEF ExhaustedIsComplete
  <2>1. /\ Len(yielded) = produced /\ \A i \in 1..produced : yielded[i] = i
        /\ yielded \in Seq(1..MaxItems)
    BY DEF Complete, Types, Queues
  <2> QED  BY <2>1
<1> QED  BY <1>1, Invariance, PTL DEF IInv

\* A call that is over has closed its channel, but for LostRemote outside the iterator or
\* in close() itself, a call refused before its request, and an iterator dropped before its
\* start; so has a task, unless LostRemote took it before its request or in close().
THEOREM ReleasedCorrect == Spec => []ReleasedAtTheEnd
<1>1. Listens => ReleasedAtTheEnd
  BY DEF Listens
<1> QED  BY <1>1, Invariance, PTL DEF IInv

\* The end of a stream that has items closes the channel as soon as the client has
\* received it, whether or not its iterator was ever started.
THEOREM DoneCorrect == Spec => []DoneReleases
<1>1. Types /\ Closes => DoneReleases
  <2> SUFFICES ASSUME Types, Closes, StreamDone, first.name = "STREAM"
               PROVE  chan["client"] = "closed"
    BY DEF DoneReleases
  <2>1. PICK answer \in Range(Held \o inbox) : answer.name = "STREAM_DONE"
    BY DEF StreamDone
  <2>2. inbox \in Seq(Answer) /\ first \in Answer
    BY DEF Types, Queues, Final
  <2>3. Held \in Seq(Answer) /\ \A i \in 1..Len(Held) : Held[i] = first
    BY <2>2 DEF Held
  <2>4. Range(Held \o inbox) = {Held[i] : i \in 1..Len(Held)} \cup {inbox[i] : i \in 1..Len(inbox)}
    BY <2>2, <2>3, RangeConcatenation, RangeEquality
  <2>5. \E i \in 1..Len(inbox) : inbox[i].name = "STREAM_DONE"
    BY <2>1, <2>3, <2>4
  <2> QED  BY <2>5 DEF Closes
<1> QED  BY <1>1, Invariance, PTL DEF IInv

\* Three tuples of hooks, one after the other.
LEMMA Joined ==
  ASSUME NEW s \in Seq(Hook), NEW t \in Seq(Hook), NEW u \in Seq(Hook), HookTypes,
         Len(hooks) = Len(s) + Len(t) + Len(u),
         \A i \in 1..Len(s) : hooks[i] = s[i],
         \A i \in 1..Len(t) : hooks[Len(s) + i] = t[i],
         \A i \in 1..Len(u) : hooks[Len(s) + Len(t) + i] = u[i]
  PROVE  hooks = s \o t \o u
<1> DEFINE st == s \o t
           stu == st \o u
<1>1. Len(s) \in Nat /\ Len(t) \in Nat /\ Len(u) \in Nat
  BY LenProperties
<1>2. /\ st \in Seq(Hook) /\ Len(st) = Len(s) + Len(t)
      /\ \A i \in 1..(Len(s) + Len(t)) : st[i] = IF i <= Len(s) THEN s[i] ELSE t[i - Len(s)]
  BY ConcatProperties
<1> HIDE DEF st
<1>3. /\ stu \in Seq(Hook) /\ Len(stu) = Len(st) + Len(u)
      /\ \A i \in 1..(Len(st) + Len(u)) :
           stu[i] = IF i <= Len(st) THEN st[i] ELSE u[i - Len(st)]
  BY <1>2, ConcatProperties
<1> HIDE DEF stu
<1>4. ASSUME NEW i \in 1..Len(hooks) PROVE hooks[i] = stu[i]
  <2>1. i \in 1..(Len(st) + Len(u)) /\ i \in Nat /\ i >= 1
    BY <1>1, <1>2
  <2>2. CASE i <= Len(s)
    <3>1. i \in 1..Len(s) /\ i <= Len(st) /\ i \in 1..(Len(s) + Len(t))
      BY <1>1, <1>2, <2>1, <2>2
    <3> QED  BY <1>2, <1>3, <2>1, <2>2, <3>1
  <2>3. CASE ~(i <= Len(s)) /\ i <= Len(st)
    <3>1. /\ i - Len(s) \in 1..Len(t) /\ i \in 1..(Len(s) + Len(t))
          /\ Len(s) + (i - Len(s)) = i
      BY <1>1, <1>2, <2>1, <2>3
    <3>2. hooks[Len(s) + (i - Len(s))] = t[i - Len(s)]
      BY <3>1
    <3> QED  BY <1>2, <1>3, <2>1, <2>3, <3>1, <3>2
  <2>4. CASE ~(i <= Len(st))
    <3>1. /\ i - Len(st) \in 1..Len(u) /\ Len(s) + Len(t) + (i - Len(st)) = i
      BY <1>1, <1>2, <2>1, <2>4
    <3>2. hooks[Len(s) + Len(t) + (i - Len(st))] = u[i - Len(st)]
      BY <3>1
    <3> QED  BY <1>3, <2>1, <2>4, <3>1, <3>2
  <2> QED  BY <2>2, <2>3, <2>4
<1>5. Len(hooks) = Len(stu)
  BY <1>2, <1>3
<1>6. hooks = stu
  BY <1>3, <1>4, <1>5, SeqEqual DEF HookTypes
<1> QED  BY <1>6 DEF stu, st

LEMMA Nests == HookTypes /\ Settled /\ OnceAfter => HooksNest
<1> SUFFICES ASSUME HookTypes, Settled, OnceAfter PROVE HooksNest
  OBVIOUS
<1> DEFINE begun == <<"client_before_request", "load_task_context">>
           exec  == <<"server_before_exec", "server_after_exec">>
           last  == <<"client_after_request">>
           failed == <<"server_inspect_exception", "client_handle_remote_error",
                       "client_after_request">>
           afters == {i \in 1..Len(hooks) : hooks[i] = "client_after_request"}
<1>1. /\ begun \in Seq(Hook) /\ Len(begun) = 2 /\ begun[1] = Usual[1] /\ begun[2] = Usual[2]
      /\ exec \in Seq(Hook) /\ Len(exec) = 2 /\ exec[1] = Usual[3] /\ exec[2] = Usual[4]
      /\ last \in Seq(Hook) /\ Len(last) = 1 /\ last[1] = After
  BY DEF Hook, Usual, After
<1>2. /\ failed \in Seq(Hook) /\ Len(failed) = 3 /\ failed[1] = "server_inspect_exception"
      /\ failed[2] = Handle /\ failed[3] = After
  BY DEF Hook, After, Handle
<1> HIDE DEF begun, exec, last, failed
<1>3. Answered => hooks = begun \o exec \o last
  <2> SUFFICES ASSUME Answered PROVE hooks = begun \o exec \o last
    OBVIOUS
  <2>1. /\ Len(hooks) = 5 /\ \A i \in 1..4 : hooks[i] = Usual[i]
        /\ hooks[5] = After
    BY DEF Answered
  <2>2. Len(hooks) = Len(begun) + Len(exec) + Len(last)
    BY <1>1, <2>1
  <2>3. \A i \in 1..Len(begun) : hooks[i] = begun[i]
    BY <1>1, <2>1
  <2>4. \A i \in 1..Len(exec) : hooks[Len(begun) + i] = exec[i]
    BY <1>1, <2>1
  <2>5. \A i \in 1..Len(last) : hooks[Len(begun) + Len(exec) + i] = last[i]
    BY <1>1, <2>1
  <2> QED  BY <1>1, <2>2, <2>3, <2>4, <2>5, Joined
<1>4. Erred => \E n \in 0..2 : hooks = begun \o SubSeq(exec, 1, n) \o failed
  <2> SUFFICES ASSUME Erred PROVE \E n \in 0..2 : hooks = begun \o SubSeq(exec, 1, n) \o failed
    OBVIOUS
  <2>1. PICK m \in 2..4 : /\ Len(hooks) = m + 3 /\ \A i \in 1..m : hooks[i] = Usual[i]
                          /\ hooks[m + 1] = "server_inspect_exception"
                          /\ hooks[m + 2] = Handle /\ hooks[m + 3] = After
    BY DEF Erred
  <2> DEFINE n == m - 2
             some == SubSeq(exec, 1, n)
  <2>2. n \in 0..2 /\ m = 2 + n
    OBVIOUS
  <2> HIDE DEF n
  <2>3. some \in Seq(Hook) /\ Len(some) = n /\ \A i \in 1..n : some[i] = exec[i]
    <3>0. \A i \in 1..n : i \in 1..Len(exec)
      BY <1>1, <2>2
    <3>1. \A i \in 1..n : exec[i] \in Hook
      BY <1>1, <3>0, ElementOfSeq
    <3>2. /\ some \in Seq(Hook) /\ Len(some) = (IF 1 <= n THEN n - 1 + 1 ELSE 0)
          /\ \A i \in 1..(n - 1 + 1) : some[i] = exec[1 + i - 1]
      BY <2>2, <3>1, SubSeqProperties
    <3>3. n - 1 + 1 = n /\ \A i \in 1..n : 1 + i - 1 = i
      BY <2>2
    <3> HIDE DEF some
    <3> QED  BY <2>2, <3>2, <3>3
  <2> HIDE DEF some
  <2>4. Len(hooks) = Len(begun) + Len(some) + Len(failed)
    BY <1>1, <1>2, <2>1, <2>2, <2>3
  <2>5. \A i \in 1..Len(begun) : hooks[i] = begun[i]
    BY <1>1, <2>1, <2>2
  <2>6. \A i \in 1..Len(some) : hooks[Len(begun) + i] = some[i]
    <3> SUFFICES ASSUME NEW i \in 1..n PROVE hooks[2 + i] = exec[i]
      BY <1>1, <2>3
    <3>1. 2 + i \in 1..m /\ i \in {1, 2}
      BY <2>2
    <3>2. hooks[2 + i] = Usual[2 + i]
      BY <2>1, <3>1
    <3> QED  BY <1>1, <3>1, <3>2
  <2>7. \A i \in 1..Len(failed) : hooks[Len(begun) + Len(some) + i] = failed[i]
    <3> SUFFICES ASSUME NEW i \in 1..3 PROVE hooks[m + i] = failed[i]
      BY <1>1, <1>2, <2>2, <2>3
    <3>1. i = 1 \/ i = 2 \/ i = 3
      OBVIOUS
    <3> QED  BY <1>2, <2>1, <3>1
  <2>8. hooks = begun \o some \o failed
    BY <1>1, <1>2, <2>3, <2>4, <2>5, <2>6, <2>7, Joined
  <2> QED  BY <2>2, <2>8 DEF some
<1>5. /\ outcome \in {"value", "exhausted"} => hooks = begun \o exec \o last
      /\ outcome = "error" => \E n \in 0..2 : hooks = begun \o SubSeq(exec, 1, n) \o failed
  BY <1>3, <1>4 DEF Settled
<1>6. /\ call = "over" /\ outcome \in {"unmatched", "timeout"} => afters # {}
      /\ outcome \in {"none", "refused", "dropped"} => afters = {}
      /\ \A i, j \in afters : i = j
  BY DEF OnceAfter, After, Unheard
<1> QED  BY <1>5, <1>6 DEF HooksNest, begun, exec, last, failed

\* The hooks of the two ends nest: an answered call called each of its hooks once and
\* in order, an erring one was inspected by the server before the client handled it;
\* the last hook of the client comes once at most, and for a call without an answer
\* once its channel is closed.
THEOREM HooksCorrect == Spec => []HooksNest
BY Invariance, Nests, PTL DEF IInv

===============================================================================
