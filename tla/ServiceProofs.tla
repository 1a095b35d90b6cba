----------------------------- MODULE ServiceProofs -----------------------------
(***************************************************************************)
(* The safety of a server and of a puller, for any number of requests and  *)
(* of runs and every size of the pool: the types, the account of the       *)
(* requests, and that the loop can be stopped.                             *)
(***************************************************************************)
EXTENDS Service, FiniteSetTheorems, SequenceTheorems, TLAPS

\* A loop holds a request when it says so, each kill is of a loop that run()
\* started, and nothing of a puller goes through a queue or a task.
Shape ==
  /\ loop = "holding" <=> held # 0
  /\ stops <= runs /\ (Looping => stops < runs)
  /\ kind = "puller" =>
       /\ dispatcher = 0 /\ broadcast = <<>>
       /\ \A r \in Request : task[r] \in {"none", "over"}
       /\ \A i \in 1..Len(inbound) : inbound[i].name = "request"

-----------------------------------------------------------------------------
(***************************************************************************)
(* What an event at the end, or at the head, of the socket adds.           *)
(***************************************************************************)
OfRequest(event) == IF event.name = "request" THEN {event.of} ELSE {}

\* An event that arrives comes after all the others.
LEMMA EventArrives ==
  ASSUME NEW events \in Seq(Event), NEW event \in Event, InOrder(events),
         Before(RequestsOf(events), OfRequest(event))
  PROVE  LET longer == Append(events, event) IN
         /\ longer \in Seq(Event) /\ InOrder(longer)
         /\ RequestsOf(longer) = RequestsOf(events) \cup OfRequest(event)
<1> DEFINE n == Len(events)
           longer == Append(events, event)
<1>1. /\ longer \in Seq(Event) /\ Len(longer) = n + 1 /\ n \in Nat
      /\ longer[n + 1] = event /\ \A i \in 1..n : longer[i] = events[i]
  BY AppendProperties
<1>2. \A r : r \in RequestsOf(longer) <=> r \in RequestsOf(events) \/ r \in OfRequest(event)
  <2>1. ASSUME NEW r, r \in RequestsOf(longer)
        PROVE  r \in RequestsOf(events) \/ r \in OfRequest(event)
    <3>1. PICK i \in 1..n + 1 : longer[i].name = "request" /\ longer[i].of = r
      BY <1>1, <2>1 DEF RequestsOf
    <3>2. CASE i = n + 1
      BY <1>1, <3>1, <3>2 DEF OfRequest
    <3>3. CASE i \in 1..n
      BY <1>1, <3>1, <3>3 DEF RequestsOf
    <3> QED  BY <1>1, <3>2, <3>3
  <2>2. ASSUME NEW r, r \in RequestsOf(events)  PROVE r \in RequestsOf(longer)
    <3>1. PICK i \in 1..n : events[i].name = "request" /\ events[i].of = r
      BY <2>2 DEF RequestsOf
    <3>2. i \in 1..Len(longer) /\ longer[i] = events[i]
      BY <1>1
    <3> HIDE DEF longer
    <3> QED  BY <3>1, <3>2 DEF RequestsOf
  <2>3. ASSUME NEW r, r \in OfRequest(event)  PROVE r \in RequestsOf(longer)
    <3>1. event.name = "request" /\ r = event.of /\ n + 1 \in 1..Len(longer)
      BY <1>1, <2>3 DEF OfRequest
    <3> HIDE DEF longer
    <3> QED  BY <1>1, <3>1 DEF RequestsOf
  <2> QED  BY <2>1, <2>2, <2>3
<1>3. InOrder(longer)
  <2> SUFFICES ASSUME NEW i \in 1..n + 1, NEW j \in 1..n + 1, i < j,
                      longer[i].name = "request", longer[j].name = "request"
               PROVE  longer[i].of < longer[j].of
    BY <1>1 DEF InOrder
  <2>1. i \in 1..n /\ longer[i] = events[i]
    BY <1>1
  <2>2. CASE j \in 1..n
    BY <1>1, <2>1, <2>2 DEF InOrder
  <2>3. CASE j = n + 1
    <3>1. events[i].of \in RequestsOf(events) /\ event.of \in OfRequest(event)
      BY <1>1, <2>1, <2>3 DEF RequestsOf, OfRequest
    <3> QED  BY <1>1, <2>1, <2>3, <3>1 DEF Before
  <2> QED  BY <1>1, <2>2, <2>3
<1> QED  BY <1>1, <1>2, <1>3

\* The event at the head comes before all the others.
LEMMA EventLeaves ==
  ASSUME NEW events \in Seq(Event), events # <<>>, InOrder(events)
  PROVE  LET event == Head(events)
             rest  == Tail(events)
         IN  /\ event \in Event /\ event = events[1] /\ 1 \in 1..Len(events)
             /\ rest \in Seq(Event) /\ InOrder(rest)
             /\ \A i \in 1..Len(rest) : i + 1 \in 1..Len(events) /\ rest[i] = events[i + 1]
             /\ RequestsOf(events) = OfRequest(event) \cup RequestsOf(rest)
             /\ Before(OfRequest(event), RequestsOf(rest))
<1> DEFINE n == Len(events)
           event == Head(events)
           rest == Tail(events)
<1>1. /\ event \in Event /\ event = events[1] /\ n \in Nat /\ n > 0 /\ 1 \in 1..n
      /\ rest \in Seq(Event) /\ Len(rest) = n - 1
      /\ \A i \in 1..Len(rest) : i + 1 \in 1..n /\ rest[i] = events[i + 1]
  BY HeadTailProperties
<1> HIDE DEF event, rest
<1>2. InOrder(rest)
  <2> SUFFICES ASSUME NEW i \in 1..Len(rest), NEW j \in 1..Len(rest), i < j,
                      rest[i].name = "request", rest[j].name = "request"
               PROVE  rest[i].of < rest[j].of
    BY DEF InOrder
  <2>1. i + 1 \in 1..n /\ j + 1 \in 1..n /\ i + 1 < j + 1
    BY <1>1
  <2> QED  BY <1>1, <2>1 DEF InOrder
<1>3. \A r : r \in RequestsOf(events) <=> r \in OfRequest(event) \/ r \in RequestsOf(rest)
  <2>1. ASSUME NEW r, r \in RequestsOf(events)
        PROVE  r \in OfRequest(event) \/ r \in RequestsOf(rest)
    <3>1. PICK i \in 1..n : events[i].name = "request" /\ events[i].of = r
      BY <2>1 DEF RequestsOf
    <3>2. CASE i = 1
      BY <1>1, <3>1, <3>2 DEF OfRequest
    <3>3. CASE i # 1
      <4>1. i - 1 \in 1..Len(rest) /\ (i - 1) + 1 = i
        BY <1>1, <3>3
      <4>2. rest[i - 1] = events[i]
        BY <1>1, <4>1
      <4> QED  BY <3>1, <4>1, <4>2 DEF RequestsOf
    <3> QED  BY <3>2, <3>3
  <2>2. ASSUME NEW r, r \in RequestsOf(rest)  PROVE r \in RequestsOf(events)
    <3>1. PICK i \in 1..Len(rest) : rest[i].name = "request" /\ rest[i].of = r
      BY <2>2 DEF RequestsOf
    <3> QED  BY <1>1, <3>1 DEF RequestsOf
  <2>3. ASSUME NEW r, r \in OfRequest(event)  PROVE r \in RequestsOf(events)
    BY <1>1, <2>3 DEF OfRequest, RequestsOf
  <2> QED  BY <2>1, <2>2, <2>3
<1>4. Before(OfRequest(event), RequestsOf(rest))
  <2> SUFFICES ASSUME NEW q \in OfRequest(event), NEW r \in RequestsOf(rest) PROVE q < r
    BY DEF Before
  <2>1. events[1].name = "request" /\ q = events[1].of
    BY <1>1 DEF OfRequest
  <2>2. PICK i \in 1..Len(rest) : rest[i].name = "request" /\ rest[i].of = r
    BY DEF RequestsOf
  <2>3. i + 1 \in 1..n /\ 1 < i + 1 /\ events[i + 1] = rest[i]
    BY <1>1
  <2> QED  BY <1>1, <2>1, <2>2, <2>3 DEF InOrder
<1> QED  BY <1>1, <1>2, <1>3, <1>4 DEF event, rest

-----------------------------------------------------------------------------
(***************************************************************************)
(* Types and shape.                                                        *)
(***************************************************************************)
\* The broadcast queue is empty or holds one request.
LEMMA BroadcastOfOne ==
  ASSUME TypeOK, broadcast # <<>>
  PROVE  /\ broadcast = <<Head(broadcast)>> /\ Head(broadcast) \in Request
         /\ Queued = {Head(broadcast)}
<1>0. broadcast \in Seq(Request) /\ Len(broadcast) <= 1
  BY DEF TypeOK
<1>a. Len(broadcast) \in Nat \ {0}
  BY <1>0, EmptySeq
<1>1. broadcast \in Seq(Request) /\ Len(broadcast) = 1
  <2>1. \A n \in Nat \ {0} : n <= 1 => n = 1
    OBVIOUS
  <2> QED  BY <1>0, <1>a, <2>1
<1>2. Head(broadcast) = broadcast[1] /\ broadcast[1] \in Request
  BY <1>1
<1>3. broadcast = <<broadcast[1]>>
  BY <1>1
<1> QED  BY <1>1, <1>2, <1>3 DEF Queued

LEMMA TypeInit == Init => TypeOK /\ Shape
<1> SUFFICES ASSUME Init PROVE TypeOK /\ Shape
  OBVIOUS
<1>1. /\ 0 \in 0..MaxRuns /\ <<>> \in Seq(Event) /\ <<>> \in Seq(Request) /\ Len(<<>>) = 0
      /\ FALSE \in BOOLEAN
  BY ServiceAssumption
<1>2. task \in [Request -> {"none", "running", "starved", "emitting", "over"}]
  BY DEF Init
<1>3. handle \in BOOLEAN /\ kill \in BOOLEAN
  BY DEF Init
<1>5. inbound \in Seq(Event) /\ broadcast \in Seq(Request) /\ Len(broadcast) <= 1
  BY <1>1 DEF Init
<1>6. TypeOK
  BY <1>1, <1>2, <1>3, <1>5 DEF Init, TypeOK
<1>4. Shape
  BY DEF Init, Shape, Looping
<1> QED  BY <1>4, <1>6

LEMMA TypeNext == TypeOK /\ Shape /\ [Next]_vars => TypeOK' /\ Shape'
<1> SUFFICES ASSUME TypeOK, Shape, [Next]_vars PROVE TypeOK' /\ Shape'
  OBVIOUS
<1> DEFINE TaskState == {"none", "running", "starved", "emitting", "over"}
<1> USE DEF lifeVars, queueVars
<1>a. kind \in {"server", "puller"}
  BY ServiceAssumption DEF TypeOK
<1>b. inbound # <<>> =>
        /\ Head(inbound) \in Event /\ Tail(inbound) \in Seq(Event)
        /\ Head(inbound) = inbound[1] /\ 1 \in 1..Len(inbound)
        /\ \A i \in 1..Len(Tail(inbound)) :
             i + 1 \in 1..Len(inbound) /\ Tail(inbound)[i] = inbound[i + 1]
  BY HeadTailProperties DEF TypeOK
<1>c. \A e \in Event : e.of \in Request /\ e.name \in {"request", "more"}
  BY DEF Event
<1>d. ASSUME NEW r \in Request, NEW state \in TaskState, SetTask(r, state)
      PROVE  /\ task' \in [Request -> TaskState] /\ task'[r] = state
             /\ \A q \in Request : q # r => task'[q] = task[q]
  BY <1>d DEF SetTask, TypeOK
<1>e. /\ arrived \in Nat /\ runs \in Nat /\ stops \in Nat /\ MaxRuns \in Nat
      /\ runs <= MaxRuns /\ stops <= MaxRuns /\ MaxRequests \in Nat
  BY ServiceAssumption DEF TypeOK, Request
<1>1. CASE Arrive
  <2> DEFINE event == [name |-> "request", of |-> arrived + 1]
  <2>1. event \in Event /\ arrived + 1 \in Request /\ inbound' = Append(inbound, event)
    BY <1>1 DEF Arrive, Event
  <2>2. /\ inbound' \in Seq(Event) /\ Len(inbound') = Len(inbound) + 1
        /\ inbound'[Len(inbound) + 1] = event
        /\ \A i \in 1..Len(inbound) : inbound'[i] = inbound[i]
    BY <2>1, AppendProperties DEF TypeOK
  <2>3. TypeOK'
    BY <1>1, <2>1, <2>2 DEF Arrive, TypeOK
  <2>4. (\A i \in 1..Len(inbound) : inbound[i].name = "request")
          => \A i \in 1..Len(inbound') : inbound'[i].name = "request"
    BY <2>2 DEF TypeOK
  <2>5. Shape'
    BY <1>1, <2>4 DEF Arrive, Shape, Looping
  <2> QED  BY <2>3, <2>5
<1>2. CASE Dispatch
  <2>1. /\ kind = "server" /\ inbound # <<>> /\ inbound' = Tail(inbound)
        /\ UNCHANGED <<kind, lifeVars, arrived, loop, held, stops, dropped>>
    BY <1>2 DEF Dispatch
  <2>2. Head(inbound).of \in Request /\ inbound' \in Seq(Event)
    BY <1>b, <1>c, <2>1
  <2>3. CASE Head(inbound).name = "request" /\ Put(Head(inbound).of) /\ UNCHANGED task
    <3>1. /\ broadcast' \in Seq(Request) /\ Len(broadcast') <= 1
          /\ dispatcher' \in Request \cup {0}
      <4> DEFINE r == Head(inbound).of
      <4>1. CASE broadcast' = <<r>> /\ UNCHANGED dispatcher
        BY <2>2, <4>1 DEF TypeOK
      <4>2. CASE dispatcher' = r /\ UNCHANGED broadcast
        BY <2>2, <4>2 DEF TypeOK
      <4> QED  BY <2>3, <4>1, <4>2 DEF Put
    <3>2. TypeOK'
      BY <2>1, <2>2, <2>3, <3>1 DEF TypeOK
    <3> QED  BY <2>1, <3>2 DEF Shape, Looping
  <2>4. CASE /\ Head(inbound).name = "more"
             /\ SetTask(Head(inbound).of,
                        IF task[Head(inbound).of] = "starved" THEN "emitting"
                                                              ELSE task[Head(inbound).of])
             /\ UNCHANGED <<dispatcher, broadcast>>
    <3>1. task' \in [Request -> TaskState]
      BY <2>2, <2>4 DEF TypeOK, SetTask
    <3>2. TypeOK'
      BY <2>1, <2>2, <2>4, <3>1 DEF TypeOK
    <3> QED  BY <2>1, <3>2 DEF Shape, Looping
  <2> QED  BY <1>2, <2>3, <2>4 DEF Dispatch
<1>3. CASE Unblock
  <2>1. dispatcher \in Request /\ broadcast' = <<dispatcher>>
    BY <1>3 DEF Unblock, TypeOK
  <2>2. broadcast' \in Seq(Request) /\ Len(broadcast') <= 1
    BY <2>1
  <2>3. TypeOK'
    BY <1>3, <2>2 DEF Unblock, TypeOK
  <2> QED  BY <1>3, <2>3 DEF Unblock, Shape, Looping
<1>4. CASE Receive
  <2>1. /\ loop = "receiving" /\ loop' = "holding"
        /\ UNCHANGED <<kind, lifeVars, dispatcher, arrived, task, stops, dropped>>
    BY <1>4 DEF Receive, Hold
  <2>2. CASE kind = "server" /\ broadcast # <<>> /\ held' = Head(broadcast)
             /\ broadcast' = <<>> /\ UNCHANGED inbound
    <3>1. held' \in Request /\ broadcast' \in Seq(Request) /\ Len(broadcast') <= 1
      BY <2>2, BroadcastOfOne
    <3>2. TypeOK'
      BY <2>1, <2>2, <3>1 DEF TypeOK
    <3> QED  BY <2>1, <2>2, <3>1, <3>2 DEF Shape, Looping, Request
  <2>3. CASE kind = "puller" /\ inbound # <<>> /\ held' = Head(inbound).of
             /\ inbound' = Tail(inbound) /\ UNCHANGED broadcast
    <3>1. held' \in Request /\ inbound' \in Seq(Event)
      BY <1>b, <1>c, <2>3
    <3>2. TypeOK'
      BY <2>1, <2>3, <3>1 DEF TypeOK
    <3>3. \A i \in 1..Len(inbound') : inbound'[i].name = "request"
      BY <1>b, <2>3 DEF Shape
    <3> QED  BY <2>1, <2>3, <3>1, <3>2, <3>3 DEF Shape, Looping, Request
  <2> QED  BY <1>4, <2>2, <2>3 DEF Receive, Hold
<1>5. CASE Spawn \/ Execute
  <2>1. /\ loop = "holding" /\ held \in Request /\ loop' = "receiving" /\ held' = 0
        /\ UNCHANGED <<kind, lifeVars, queueVars, stops, dropped>>
    BY <1>5 DEF Spawn, Execute, LetGo, Shape, TypeOK
  <2>2. /\ task' \in [Request -> TaskState]
        /\ kind = "puller" => \A r \in Request : task'[r] \in {"none", "over"}
    <3>1. CASE Spawn
      <4>1. kind = "server" /\ SetTask(held, "running")
        BY <3>1 DEF Spawn
      <4> QED  BY <1>d, <2>1, <4>1
    <3>2. CASE Execute
      <4>1. kind = "puller" /\ SetTask(held, "over")
        BY <3>2 DEF Execute
      <4> QED  BY <1>d, <2>1, <4>1 DEF Shape
    <3> QED  BY <1>5, <3>1, <3>2
  <2>3. TypeOK'
    BY <2>1, <2>2 DEF TypeOK
  <2> QED  BY <2>1, <2>2, <2>3 DEF Shape, Looping
<1>6. CASE LoopKilled
  <2>1. /\ loop' = "dead" /\ held' = 0 /\ kill' = FALSE /\ stops' = stops + 1
        /\ UNCHANGED <<kind, runner, stopper, handle, socket, runs, queueVars, task>>
    BY <1>6 DEF LoopKilled
  <2>2. dropped' \subseteq Request
    BY <1>6 DEF LoopKilled, TypeOK
  <2>3. stops < runs
    BY <1>6 DEF LoopKilled, Shape
  <2>4. stops + 1 \in 0..MaxRuns
    BY <1>e, <2>3
  <2>5. TypeOK'
    BY <2>1, <2>2, <2>4 DEF TypeOK
  <2> QED  BY <1>e, <2>1, <2>3, <2>5 DEF Shape, Looping
<1>7. CASE Run
  <2>1. TypeOK'
    BY <1>7, <1>e DEF Run, TypeOK
  <2> QED  BY <1>7, <1>e, <2>1 DEF Run, Shape, Looping
<1>8. CASE LoopEnds \/ Interrupt \/ Joined
  <2>1. TypeOK'
    BY <1>8 DEF LoopEnds, Interrupt, Joined, TypeOK
  <2> QED  BY <1>8, <2>1 DEF LoopEnds, Interrupt, Joined, Shape, Looping
<1>9. CASE Stop \/ CloseReturns
  <2>1. kill' \in BOOLEAN
    BY <1>9 DEF Stop, CloseReturns, TypeOK
  <2>2. TypeOK'
    BY <1>9, <2>1 DEF Stop, CloseReturns, TypeOK
  <2> QED  BY <1>9, <2>2 DEF Stop, CloseReturns, Shape, Looping
<1>10. CASE StopReturns
  <2>1. dispatcher' \in {0, dispatcher} /\ dropped' \subseteq Request
    BY <1>10 DEF StopReturns, TypeOK
  <2>2. handle' \in BOOLEAN
    BY <1>10 DEF StopReturns, TypeOK
  <2>3. TypeOK'
    BY <1>10, <2>1, <2>2 DEF StopReturns, TypeOK
  <2> QED  BY <1>10, <2>1, <2>3 DEF StopReturns, Shape, Looping
<1>11. ASSUME NEW r \in Request, Grant(r) PROVE TypeOK' /\ Shape'
  <2> DEFINE event == [name |-> "more", of |-> r]
  <2>1. event \in Event /\ task[r] = "starved" /\ inbound' = Append(inbound, event)
    BY <1>11 DEF Grant, Event
  <2>2. inbound' \in Seq(Event)
    BY <2>1 DEF TypeOK
  <2>3. kind # "puller"
    BY <2>1 DEF Shape
  <2>4. TypeOK'
    BY <1>11, <2>2 DEF Grant, TypeOK
  <2> QED  BY <1>11, <2>3, <2>4 DEF Grant, Shape, Looping
<1>12. ASSUME NEW r \in Request, Proceed(r) \/ Emit(r) \/ LoseClient(r)
       PROVE  TypeOK' /\ Shape'
  <2>1. /\ task[r] \in {"running", "starved", "emitting"}
        /\ \E state \in TaskState : SetTask(r, state)
        /\ UNCHANGED <<kind, lifeVars, queueVars, loop, held, stops, dropped>>
    BY <1>12 DEF Proceed, Emit, LoseClient, Active
  <2>2. task' \in [Request -> TaskState]
    BY <1>d, <2>1
  <2>3. kind # "puller"
    BY <2>1 DEF Shape
  <2>4. TypeOK'
    BY <2>1, <2>2 DEF TypeOK
  <2> QED  BY <2>1, <2>3, <2>4 DEF Shape, Looping
<1>13. CASE UNCHANGED vars
  BY <1>13 DEF vars, TypeOK, Shape, Looping
<1> QED
  BY <1>1, <1>2, <1>3, <1>4, <1>5, <1>6, <1>7, <1>8, <1>9, <1>10, <1>11, <1>12, <1>13
  DEF Next, LoopStep, RunStep, StopStep, TaskStep

-----------------------------------------------------------------------------
(***************************************************************************)
(* The account.                                                            *)
(***************************************************************************)
\* The requests that arrived and were neither begun nor forgotten.
NotBegun == {r \in 1..arrived : task[r] = "none" /\ r \notin dropped}

\* The four places where such a request may be, the next one first.
InPlaces(H, Q, B, A, waiting) ==
  /\ H \cup Q \cup B \cup A = waiting
  /\ Before(H, Q \cup B \cup A) /\ Before(Q, B \cup A) /\ Before(B, A)

\* The clauses of RequestsAccounted, and that nothing is known of a request that
\* did not arrive.
Accounted == InPlaces(Held, Queued, Blocked, Arriving, NotBegun) /\ InOrder(inbound)
Forgotten == Cardinality(dropped) <= stops + (IF socket = "open" THEN 0 ELSE 1)
Unborn    == \A r \in Request : r > arrived => task[r] = "none" /\ r \notin dropped

LEMMA AccountParts == TypeOK => (RequestsAccounted <=> Accounted /\ Forgotten)
<1> SUFFICES ASSUME TypeOK PROVE RequestsAccounted <=> Accounted /\ Forgotten
  OBVIOUS
<1>1. \A i, j \in 1..Len(broadcast) : i < j => broadcast[i] < broadcast[j]
  BY DEF TypeOK
<1> QED  BY <1>1 DEF RequestsAccounted, Accounted, Forgotten, NotBegun, InPlaces

LEMMA RequestNumbers ==
  ASSUME TypeOK
  PROVE  /\ arrived \in Nat /\ \A r \in 1..arrived : r \in Request
         /\ \A r \in Request : r \in Nat /\ r # 0
  BY ServiceAssumption DEF TypeOK, Request

\* A step that moves no request, begins none and forgets none.
LEMMA AccountKept ==
  ASSUME TypeOK, Accounted, Unborn, UNCHANGED <<held, queueVars, dropped>>,
         \A r \in Request : task'[r] = "none" <=> task[r] = "none"
  PROVE  Accounted' /\ Unborn'
<1>1. NotBegun' = NotBegun
  BY RequestNumbers DEF NotBegun, queueVars
<1>2. Unborn'
  BY DEF Unborn, queueVars
<1> QED  BY <1>1, <1>2 DEF Accounted, Held, Queued, Blocked, Arriving, queueVars

\* A request that arrives is behind all the others.
LEMMA AccountArrive ==
  ASSUME TypeOK, Accounted, Unborn, Arrive
  PROVE  Accounted' /\ Unborn'
<1> DEFINE event == [name |-> "request", of |-> arrived + 1]
<1>a. Held \cup Queued \cup Blocked \cup Arriving = NotBegun /\ NotBegun \subseteq 1..arrived
  BY DEF Accounted, InPlaces, NotBegun
<1>1. /\ event \in Event /\ inbound' = Append(inbound, event) /\ arrived' = arrived + 1
      /\ UNCHANGED <<dispatcher, broadcast, held, task, dropped>>
      /\ arrived + 1 \in Request
  BY DEF Arrive, Event
<1>2. OfRequest(event) = {arrived + 1}
  BY DEF OfRequest
<1>3. Before(NotBegun, {arrived + 1})
  BY <1>a, RequestNumbers DEF Before
<1>4. Before(Arriving, OfRequest(event))
  BY <1>a, <1>2, <1>3 DEF Before
<1>5. inbound \in Seq(Event) /\ InOrder(inbound)
  BY DEF TypeOK, Accounted
<1>6. InOrder(inbound') /\ Arriving' = Arriving \cup {arrived + 1}
  BY <1>1, <1>2, <1>4, <1>5, EventArrives DEF Arriving
<1>7. NotBegun' = NotBegun \cup {arrived + 1}
  <2>1. task[arrived + 1] = "none" /\ arrived + 1 \notin dropped
    BY <1>1, RequestNumbers DEF Unborn
  <2>2. 1..(arrived + 1) = (1..arrived) \cup {arrived + 1}
    BY RequestNumbers
  <2> QED  BY <1>1, <2>1, <2>2 DEF NotBegun
<1>8. Held' = Held /\ Queued' = Queued /\ Blocked' = Blocked
  BY <1>1 DEF Held, Queued, Blocked
<1>9. InPlaces(Held, Queued, Blocked, Arriving \cup {arrived + 1}, NotBegun \cup {arrived + 1})
  BY <1>a, <1>3 DEF Accounted, InPlaces, Before
<1>10. Unborn'
  BY <1>1, RequestNumbers DEF Unborn
<1> QED  BY <1>6, <1>7, <1>8, <1>9, <1>10 DEF Accounted

\* The dispatcher routes the first event, a request into the broadcast queue or
\* into its own hands.
LEMMA AccountDispatch ==
  ASSUME TypeOK, Accounted, Unborn, Dispatch
  PROVE  Accounted' /\ Unborn'
<1> DEFINE event == Head(inbound)
           rest == Tail(inbound)
<1> USE DEF lifeVars
<1>1. /\ inbound # <<>> /\ inbound' = rest /\ dispatcher = 0
      /\ UNCHANGED <<held, arrived, dropped>>
  BY DEF Dispatch
<1>2. /\ event \in Event /\ InOrder(rest)
      /\ Arriving = OfRequest(event) \cup RequestsOf(rest)
      /\ Before(OfRequest(event), RequestsOf(rest))
  BY <1>1, EventLeaves DEF TypeOK, Accounted, Arriving
<1>3. InOrder(inbound') /\ Arriving' = RequestsOf(rest) /\ Held' = Held
  BY <1>1, <1>2 DEF Arriving, Held
<1>4. event.of \in Request
  BY <1>2 DEF Event
<1>5. CASE event.name = "request" /\ Put(event.of) /\ UNCHANGED task
  <2>1. NotBegun' = NotBegun /\ Unborn'
    BY <1>1, <1>5 DEF NotBegun, Unborn
  <2>2. OfRequest(event) = {event.of} /\ event.of # 0 /\ Blocked = {}
    BY <1>1, <1>4, <1>5, RequestNumbers DEF OfRequest, Blocked
  <2>3. CASE broadcast = <<>> /\ broadcast' = <<event.of>> /\ UNCHANGED dispatcher
    <3>1. Queued = {} /\ Queued' = {event.of} /\ Blocked' = {}
      BY <1>1, <2>2, <2>3 DEF Queued, Blocked
    <3>2. InPlaces(Held, {event.of}, {}, RequestsOf(rest), NotBegun)
      BY <1>2, <2>2, <3>1 DEF Accounted, InPlaces, Before
    <3> QED  BY <1>3, <2>1, <3>1, <3>2 DEF Accounted
  <2>4. CASE broadcast # <<>> /\ dispatcher' = event.of /\ UNCHANGED broadcast
    <3>1. Queued' = Queued /\ Blocked' = {event.of}
      BY <2>2, <2>4 DEF Queued, Blocked
    <3>2. InPlaces(Held, Queued, {event.of}, RequestsOf(rest), NotBegun)
      BY <1>2, <2>2 DEF Accounted, InPlaces, Before
    <3> QED  BY <1>3, <2>1, <3>1, <3>2 DEF Accounted
  <2> QED  BY <1>5, <2>3, <2>4 DEF Put
<1>6. CASE /\ event.name = "more"
           /\ SetTask(event.of,
                      IF task[event.of] = "starved" THEN "emitting" ELSE task[event.of])
           /\ UNCHANGED <<dispatcher, broadcast>>
  <2>1. \A r \in Request : task'[r] = "none" <=> task[r] = "none"
    BY <1>4, <1>6 DEF SetTask, TypeOK
  <2>2. NotBegun' = NotBegun /\ Unborn'
    BY <1>1, <2>1, RequestNumbers DEF NotBegun, Unborn
  <2>3. OfRequest(event) = {}
    BY <1>6 DEF OfRequest
  <2>4. Arriving' = Arriving /\ Queued' = Queued /\ Blocked' = Blocked
    BY <1>2, <1>3, <1>6, <2>3 DEF Queued, Blocked
  <2> QED  BY <1>3, <2>2, <2>4 DEF Accounted
<1> QED  BY <1>5, <1>6 DEF Dispatch

\* The dispatcher finds room in the broadcast queue.
LEMMA AccountUnblock ==
  ASSUME TypeOK, Accounted, Unborn, Unblock
  PROVE  Accounted' /\ Unborn'
<1>1. /\ dispatcher # 0 /\ broadcast = <<>> /\ broadcast' = <<dispatcher>> /\ dispatcher' = 0
      /\ UNCHANGED <<inbound, arrived, held, task, dropped>>
  BY DEF Unblock, lifeVars
<1>2. /\ Queued = {} /\ Queued' = {dispatcher} /\ Blocked = {dispatcher} /\ Blocked' = {}
      /\ Held' = Held /\ Arriving' = Arriving
  BY <1>1 DEF Queued, Blocked, Held, Arriving
<1>3. NotBegun' = NotBegun /\ Unborn'
  BY <1>1 DEF NotBegun, Unborn
<1>4. InPlaces(Held, {dispatcher}, {}, Arriving, NotBegun)
  BY <1>2 DEF Accounted, InPlaces, Before
<1> QED  BY <1>1, <1>2, <1>3, <1>4 DEF Accounted

\* The loop takes the next request, which is the first of all.
LEMMA AccountReceive ==
  ASSUME TypeOK, Shape, Accounted, Unborn, Receive
  PROVE  Accounted' /\ Unborn'
<1>1. UNCHANGED <<dispatcher, arrived, task, dropped>> /\ held = 0
  BY DEF Receive, Shape, lifeVars
<1>2. NotBegun' = NotBegun /\ Unborn' /\ Blocked' = Blocked /\ Held = {}
  BY <1>1 DEF NotBegun, Unborn, Blocked, Held
<1>3. CASE broadcast # <<>> /\ held' = Head(broadcast) /\ broadcast' = <<>> /\ UNCHANGED inbound
  <2>1. Queued = {held'} /\ Queued' = {} /\ Held' = {held'} /\ Arriving' = Arriving
    BY <1>3, BroadcastOfOne, RequestNumbers DEF Queued, Held, Arriving
  <2>2. InPlaces({held'}, {}, Blocked, Arriving, NotBegun)
    BY <1>2, <2>1 DEF Accounted, InPlaces, Before
  <2> QED  BY <1>2, <1>3, <2>1, <2>2 DEF Accounted
<1>4. CASE /\ kind = "puller" /\ inbound # <<>> /\ held' = Head(inbound).of
           /\ inbound' = Tail(inbound) /\ UNCHANGED broadcast
  <2> DEFINE event == Head(inbound)
             rest == Tail(inbound)
  <2>1. /\ event \in Event /\ InOrder(rest) /\ event.name = "request"
        /\ Arriving = OfRequest(event) \cup RequestsOf(rest)
        /\ Before(OfRequest(event), RequestsOf(rest))
    BY <1>4, EventLeaves DEF TypeOK, Shape, Accounted, Arriving
  <2>2. Queued = {} /\ Queued' = {} /\ Blocked = {}
    BY <1>4 DEF Shape, Queued, Blocked
  <2>3. OfRequest(event) = {held'} /\ Held' = {held'} /\ Arriving' = RequestsOf(rest)
    BY <1>4, <2>1, RequestNumbers DEF OfRequest, Held, Arriving, Event
  <2>4. InPlaces({held'}, {}, {}, RequestsOf(rest), NotBegun)
    BY <1>2, <2>1, <2>2, <2>3 DEF Accounted, InPlaces, Before
  <2> QED  BY <1>2, <1>4, <2>1, <2>2, <2>3, <2>4 DEF Accounted
<1> QED  BY <1>3, <1>4 DEF Receive, Hold

\* A request leaves the account when it is begun, or forgotten.
LEMMA AccountHeldLeaves ==
  ASSUME TypeOK, Accounted, Unborn, held' = 0, UNCHANGED queueVars,
         NotBegun' = NotBegun \ Held
  PROVE  Accounted'
<1>1. /\ Held' = {} /\ Queued' = Queued /\ Blocked' = Blocked /\ Arriving' = Arriving
      /\ InOrder(inbound')
  BY DEF Held, Queued, Blocked, Arriving, queueVars, Accounted
<1>2. NotBegun \subseteq Nat
  BY RequestNumbers DEF NotBegun
<1>3. InPlaces({}, Queued, Blocked, Arriving, NotBegun \ Held)
  <2>1. \A r \in Held : r \notin Queued \cup Blocked \cup Arriving
    <3>1. \A r \in Nat : ~(r < r)
      OBVIOUS
    <3> QED  BY <1>2, <3>1 DEF Accounted, InPlaces, Before
  <2>2. Queued \cup Blocked \cup Arriving = NotBegun \ Held
    BY <2>1 DEF Accounted, InPlaces
  <2> QED  BY <2>2 DEF Accounted, InPlaces, Before
<1> QED  BY <1>1, <1>3 DEF Accounted

LEMMA AccountBegun ==
  ASSUME TypeOK, Shape, Accounted, Unborn, Spawn \/ Execute
  PROVE  Accounted' /\ Unborn'
<1>1. /\ held # 0 /\ held' = 0 /\ UNCHANGED <<queueVars, dropped>> /\ held \in Request
      /\ SetTask(held, "running") \/ SetTask(held, "over")
  BY DEF Spawn, Execute, LetGo, Shape, TypeOK
<1>2. /\ task'[held] # "none"
      /\ \A r \in Request : r # held => task'[r] = task[r]
  BY <1>1 DEF SetTask, TypeOK
<1>3. NotBegun' = NotBegun \ Held
  BY <1>1, <1>2, RequestNumbers DEF NotBegun, Held, queueVars
<1>4. held \in 1..arrived
  BY <1>1 DEF Accounted, InPlaces, Held, NotBegun
<1>5. Unborn'
  BY <1>1, <1>2, <1>4, RequestNumbers DEF Unborn, queueVars
<1> QED  BY <1>1, <1>3, <1>5, AccountHeldLeaves

LEMMA AccountKilled ==
  ASSUME TypeOK, Accounted, Unborn, LoopKilled
  PROVE  Accounted' /\ Unborn'
<1>1. /\ held' = 0 /\ UNCHANGED <<queueVars, task>> /\ dropped' = dropped \cup Held
  BY DEF LoopKilled, Held
<1>2. NotBegun' = NotBegun \ Held
  BY <1>1 DEF NotBegun, queueVars
<1>3. \A r \in Held : r \in 1..arrived
  BY DEF Accounted, InPlaces, NotBegun
<1>4. Unborn'
  BY <1>1, <1>3, RequestNumbers DEF Unborn, queueVars
<1> QED  BY <1>1, <1>2, <1>4, AccountHeldLeaves

\* close() forgets the request in the hands of the dispatcher.
LEMMA AccountStopped ==
  ASSUME TypeOK, Accounted, Unborn, StopReturns
  PROVE  Accounted' /\ Unborn'
<1>1. UNCHANGED <<inbound, broadcast, arrived, held, task>>
  BY DEF StopReturns
<1>2. CASE UNCHANGED <<dispatcher, dropped>>
  BY <1>1, <1>2, AccountKept DEF queueVars
<1>3. CASE dispatcher' = 0 /\ dropped' = dropped \cup ({dispatcher} \ {0})
  <2>1. /\ Held' = Held /\ Queued' = Queued /\ Blocked' = {} /\ Arriving' = Arriving
        /\ InOrder(inbound')
    BY <1>1, <1>3 DEF Held, Queued, Blocked, Arriving, Accounted
  <2>2. dropped' = dropped \cup Blocked
    BY <1>3 DEF Blocked
  <2>3. NotBegun' = NotBegun \ Blocked
    BY <1>1, <2>2 DEF NotBegun
  <2>4. NotBegun \subseteq Nat /\ \A r \in Blocked : r \in 1..arrived
    BY RequestNumbers DEF NotBegun, Accounted, InPlaces
  <2>5. InPlaces(Held, Queued, {}, Arriving, NotBegun \ Blocked)
    BY <2>4 DEF Accounted, InPlaces, Before
  <2>6. Unborn'
    BY <1>1, <2>2, <2>4, RequestNumbers DEF Unborn
  <2> QED  BY <2>1, <2>3, <2>5, <2>6 DEF Accounted
<1> QED  BY <1>2, <1>3 DEF StopReturns

LEMMA AccountNext ==
  ASSUME TypeOK, Shape, Accounted, Unborn, [Next]_vars
  PROVE  Accounted' /\ Unborn'
<1> USE DEF lifeVars, queueVars
<1>1. CASE LoopEnds \/ Run \/ Interrupt \/ Joined \/ Stop \/ CloseReturns \/ UNCHANGED vars
  <2>1. UNCHANGED <<held, queueVars, dropped, task>>
    BY <1>1 DEF LoopEnds, Run, Interrupt, Joined, Stop, CloseReturns, vars
  <2> QED  BY <2>1, AccountKept
<1>2. ASSUME NEW r \in Request, Grant(r) PROVE Accounted' /\ Unborn'
  <2> DEFINE event == [name |-> "more", of |-> r]
  <2>1. /\ event \in Event /\ inbound' = Append(inbound, event)
        /\ UNCHANGED <<dispatcher, broadcast, arrived, held, task, dropped>>
    BY <1>2 DEF Grant, Event
  <2>2. OfRequest(event) = {}
    BY DEF OfRequest
  <2>3. inbound \in Seq(Event) /\ InOrder(inbound) /\ Before(Arriving, OfRequest(event))
    BY <2>2 DEF TypeOK, Accounted, Before
  <2>4. InOrder(inbound') /\ Arriving' = Arriving
    BY <2>1, <2>2, <2>3, EventArrives DEF Arriving
  <2>5. /\ Held' = Held /\ Queued' = Queued /\ Blocked' = Blocked /\ NotBegun' = NotBegun
        /\ Unborn'
    BY <2>1 DEF Held, Queued, Blocked, NotBegun, Unborn
  <2> QED  BY <2>4, <2>5 DEF Accounted
<1>3. ASSUME NEW r \in Request, Proceed(r) \/ Emit(r) \/ LoseClient(r)
      PROVE  Accounted' /\ Unborn'
  <2>1. /\ task[r] # "none" /\ UNCHANGED <<held, queueVars, dropped>>
        /\ \E state \in {"emitting", "starved", "over"} : SetTask(r, state)
    BY <1>3 DEF Proceed, Emit, LoseClient, Active
  <2>2. \A q \in Request : task'[q] = "none" <=> task[q] = "none"
    BY <2>1 DEF SetTask, TypeOK
  <2> QED  BY <2>1, <2>2, AccountKept
<1> QED
  BY <1>1, <1>2, <1>3, AccountArrive, AccountDispatch, AccountUnblock, AccountReceive,
     AccountBegun, AccountKilled, AccountStopped
  DEF Next, LoopStep, RunStep, StopStep, TaskStep

\* Each kill of the loop forgets one request at most, and close() one more.
LEMMA ForgottenNext ==
  ASSUME TypeOK, TypeOK', Forgotten, [Next]_vars
  PROVE  Forgotten'
<1> USE DEF lifeVars, queueVars
<1>1. IsFiniteSet(dropped) /\ Cardinality(dropped) \in Nat /\ stops \in Nat
  <2>1. IsFiniteSet(Request)
    BY ServiceAssumption, FS_Interval DEF Request
  <2> QED  BY <2>1, FS_Subset, FS_CardinalityType DEF TypeOK
<1>2. \A r : Cardinality(dropped \cup {r}) <= Cardinality(dropped) + 1
  <2> SUFFICES ASSUME NEW r PROVE Cardinality(dropped \cup {r}) <= Cardinality(dropped) + 1
    OBVIOUS
  <2>1. CASE r \in dropped
    <3>1. dropped \cup {r} = dropped
      BY <2>1
    <3> QED  BY <1>1, <3>1
  <2>2. CASE r \notin dropped
    BY <1>1, <2>2, FS_AddElement
  <2> QED  BY <2>1, <2>2
<1>3. CASE LoopKilled
  <2>1. stops' = stops + 1 /\ socket' = socket /\ dropped' \in {dropped, dropped \cup {held}}
    BY <1>3 DEF LoopKilled
  <2>2. Cardinality(dropped') <= Cardinality(dropped) + 1
    <3>1. CASE dropped' = dropped  BY <1>1, <3>1
    <3>2. CASE dropped' = dropped \cup {held}  BY <1>2, <3>2
    <3> QED  BY <2>1, <3>1, <3>2
  <2>3. Cardinality(dropped') \in Nat
    BY <1>1, <2>1, FS_AddElement, FS_CardinalityType
  <2> QED  BY <1>1, <2>1, <2>2, <2>3 DEF Forgotten
<1>4. CASE StopReturns
  <2>1. CASE UNCHANGED <<socket, dropped, stops>>
    BY <2>1 DEF Forgotten
  <2>2. CASE /\ socket = "open" /\ socket' = "undispatched" /\ UNCHANGED stops
             /\ dropped' = dropped \cup ({dispatcher} \ {0})
    <3>1. dropped' \in {dropped, dropped \cup {dispatcher}}
      BY <2>2
    <3>2. Cardinality(dropped') <= Cardinality(dropped) + 1
      <4>1. CASE dropped' = dropped  BY <1>1, <4>1
      <4>2. CASE dropped' = dropped \cup {dispatcher}  BY <1>2, <4>2
      <4> QED  BY <3>1, <4>1, <4>2
    <3>3. Cardinality(dropped') \in Nat
      BY <1>1, <3>1, FS_AddElement, FS_CardinalityType
    <3> QED  BY <1>1, <2>2, <3>2, <3>3 DEF Forgotten
  <2> QED  BY <1>4, <2>1, <2>2 DEF StopReturns
<1>5. CASE CloseReturns
  BY <1>5 DEF CloseReturns, Forgotten
<1>6. CASE UNCHANGED <<socket, dropped, stops>>
  BY <1>6 DEF Forgotten
<1> QED
  BY <1>3, <1>4, <1>5, <1>6
  DEF Next, vars, Arrive, Dispatch, Unblock, LoopStep, Receive, Spawn, Execute, RunStep, Run,
      LoopEnds, Interrupt, Joined, StopStep, Stop, TaskStep, Grant, Proceed, Emit, LoseClient

-----------------------------------------------------------------------------
IInv == TypeOK /\ Shape /\ Accounted /\ Unborn /\ Forgotten

LEMMA Invariant == Spec => []IInv
<1>1. Init => IInv
  <2> SUFFICES ASSUME Init PROVE Accounted /\ Unborn /\ Forgotten
    BY TypeInit DEF IInv
  <2>1. /\ Held = {} /\ Queued = {} /\ Blocked = {} /\ Arriving = {} /\ NotBegun = {}
        /\ InOrder(inbound)
    BY DEF Init, Held, Queued, Blocked, Arriving, RequestsOf, NotBegun, InOrder
  <2>2. Accounted
    BY <2>1 DEF Accounted, InPlaces, Before
  <2>3. Unborn
    BY DEF Init, Unborn
  <2>4. Forgotten
    BY FS_EmptySet DEF Init, Forgotten
  <2> QED  BY <2>2, <2>3, <2>4
<1>2. IInv /\ [Next]_vars => IInv'
  BY TypeNext, AccountNext, ForgottenNext DEF IInv
<1> QED  BY <1>1, <1>2, PTL DEF Spec

\* The type invariant: the broadcast queue holds one request.
THEOREM TypeCorrect == Spec => []TypeOK
<1>1. IInv => TypeOK
  BY DEF IInv
<1> QED  BY <1>1, Invariant, PTL

\* No request is lost or doubled, and requests are begun in the order in which
\* they arrive, whenever run(), stop() and close() are called and whatever is
\* interrupted; each stop() forgets at most the request the loop has taken, and
\* close() the one the dispatcher has.
THEOREM AccountCorrect == Spec => []RequestsAccounted
<1>1. IInv => RequestsAccounted
  BY AccountParts DEF IInv
<1> QED  BY <1>1, Invariant, PTL

\* A loop that runs can be stopped, unless an exception reached the run() of a
\* Puller: then its receiver is forgotten and still runs.
THEOREM StoppableCorrect ==
  ASSUME "puller" \notin Hasty
  PROVE  Spec => []LoopIsStoppable
<1> USE DEF Looping, lifeVars, queueVars
<1>1. Init => LoopIsStoppable
  BY DEF Init, LoopIsStoppable
<1>2. TypeOK /\ LoopIsStoppable /\ [Next]_vars => LoopIsStoppable'
  <2> SUFFICES ASSUME TypeOK, LoopIsStoppable, [Next]_vars PROVE LoopIsStoppable'
    OBVIOUS
  <2>1. kind \in {"server", "puller"}
    BY ServiceAssumption DEF TypeOK
  <2>2. CASE StopReturns
    BY <2>1, <2>2 DEF StopReturns, KillWaits, LoopIsStoppable
  <2>3. CASE Interrupt
    BY <2>1, <2>3 DEF Interrupt, LoopIsStoppable
  <2>4. CASE LoopStep \/ Run \/ LoopEnds
    BY <2>4 DEF LoopStep, Receive, Hold, Spawn, Execute, LetGo, LoopKilled, Run, LoopEnds,
                LoopIsStoppable
  <2>5. CASE UNCHANGED <<loop, handle>>
    BY <2>5 DEF LoopIsStoppable
  <2> QED
    BY <2>2, <2>3, <2>4, <2>5
    DEF Next, vars, Arrive, Dispatch, Unblock, RunStep, Joined, StopStep, Stop, CloseReturns,
        TaskStep, Grant, Proceed, Emit, LoseClient
<1> QED  BY <1>1, <1>2, TypeCorrect, PTL DEF Spec
===============================================================================
