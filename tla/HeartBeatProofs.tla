---------------------------- MODULE HeartBeatProofs ----------------------------
(***************************************************************************)
(* The safety of HeartBeat for every interval, delay and lateness.         *)
(***************************************************************************)
EXTENDS HeartBeat, SequenceTheorems, TLAPS

-----------------------------------------------------------------------------
(***************************************************************************)
(* The inductive invariant.                                                *)
(***************************************************************************)
TaskState == {"off", "sleeping", "blocked", "ended"}
Beating(x) == up[x] /\ task[x] = "sleeping"

\* The type invariant but for the lengths of the wires.
Types ==
  /\ parent  \in [End -> ParentState]
  /\ task    \in [End -> TaskState]
  /\ timer   \in [End -> -Slack..Freq]
  /\ age     \in [End -> Never..2 * Freq + 1]
  /\ lost    \in [End -> BOOLEAN] /\ closed \in [End -> BOOLEAN]
  /\ pending \in [End -> BOOLEAN] /\ up \in [End -> BOOLEAN]
  /\ wire    \in [End -> Seq(Event)]
  /\ silence \in [End -> 0..Bound + 1]

\* How far the parent has come, the state of the heartbeat task, and whether the
\* request is still under way go together.
Shape(x) ==
  /\ parent[x] = "none" => task[x] = "off" /\ age[x] = Never
  /\ parent[x] \in {"none", "busy", "killingBuf"} => ~closed[x]
  /\ parent[x] \in {"killingBeat", "killingRecv", "closed"} => closed[x]
  /\ parent[x] \in {"killingRecv", "closed"} => ~Alive(x)
  /\ parent[x] = "aborted" => task[x] = "ended"
  /\ pending[x] => lost[x]
  /\ lost[x] => task[x] = "ended"
  /\ \A i \in 1..Len(wire[x]) : wire[x][i].name = "request" => i = 1 /\ parent[x] = "none"
  /\ up[x] /\ parent[x] = "none" => Len(wire[x]) > 0 /\ wire[x][1].name = "request"
  /\ \A i \in 1..Len(wire[x]) : wire[x][i].name = "hb" => task[Peer(x)] # "off"

\* The time between a heartbeat and the k-th after it.
Gap(k) == k * Freq

\* Heartbeats are Freq apart, and the next one will be.
Spaced(x) ==
  \A i \in 1..Len(wire[x]) :
    /\ wire[x][i].age >= Gap(Len(wire[x]) - i)
    /\ Beating(Peer(x)) =>
         wire[x][i].age >= Gap(Len(wire[x]) - i) + Freq - timer[Peer(x)]

\* How old the last heartbeat an end heard may be: its peer was heard since it last
\* beat, or a heartbeat is under way, or none was ever heard, or that of the end
\* itself is under way and will make a passive peer begin.
HeardOf(x) == task[Peer(x)] = "sleeping" /\ age[x] <= Freq - timer[Peer(x)] + Delay
OnItsWay(x) ==
  /\ task[Peer(x)] = "sleeping"
  /\ \E i \in 1..Len(wire[x]) : /\ wire[x][i].name = "hb"
                               /\ age[x] <= wire[x][i].age + Freq + Slack + Delay
Unheard(x) == task[Peer(x)] = "off" /\ age[x] = Never
Prompting(x) ==
  /\ task[Peer(x)] = "off"
  /\ \E i \in 1..Len(wire[Peer(x)]) : /\ wire[Peer(x)][i].name = "hb"
                                     /\ age[x] <= wire[Peer(x)][i].age
Fresh(x) ==
  Beating(x) /\ ~Stopped(Peer(x)) =>
    HeardOf(x) \/ OnItsWay(x) \/ Unheard(x) \/ Prompting(x)

\* How long the peer may have been silent: no time before it stopped, not longer
\* than any heartbeat is under way, and not much longer than the last one is old.
Silent(x) ==
  /\ silence[x] <= Bound
  /\ task[x] = "off" => silence[x] = 0
  /\ ~Stopped(Peer(x)) \/ Beating(Peer(x)) => silence[x] = 0
  /\ \A i \in 1..Len(wire[x]) : wire[x][i].name = "hb" => silence[x] <= wire[x][i].age
  /\ Beating(x) => /\ age[x] = Never => silence[x] <= Freq - timer[x]
                   /\ age[x] \in 0..2 * Freq => silence[x] <= age[x] + Freq + Slack
                   /\ silence[x] <= 4 * Freq + Slack - timer[x]

-----------------------------------------------------------------------------
(***************************************************************************)
(* The two ends and their wires.                                           *)
(***************************************************************************)
\* The end p is the peer of the end a.
Pair(a, p) ==
  /\ a \in End /\ p \in End /\ a # p
  /\ Peer(a) = p /\ Peer(p) = a
  /\ \A x \in End : x = a \/ x = p

LEMMA TwoEnds == \A a \in End : Pair(a, Peer(a))
BY DEF End, Peer, Pair

LEMMA EventParts ==
  \A e \in Event : e.name \in {"request", "hb"} /\ e.age \in Nat /\ e.age <= Delay
BY HeartBeatAssumption DEF Event

\* The heartbeat that is emitted.
Heartbeat == [name |-> "hb", age |-> 0]

LEMMA Emitted ==
  ASSUME NEW s \in Seq(Event)
  PROVE  LET t == Append(s, Heartbeat) IN
         /\ t \in Seq(Event) /\ Len(t) = Len(s) + 1
         /\ \A i \in 1..Len(s) : t[i] = s[i]
         /\ t[Len(s) + 1].name = "hb" /\ t[Len(s) + 1].age = 0
<1>1. Heartbeat \in Event /\ Heartbeat.name = "hb" /\ Heartbeat.age = 0
  BY HeartBeatAssumption DEF Heartbeat, Event
<1> QED  BY <1>1, AppendProperties

LEMMA Taken ==
  ASSUME NEW s \in Seq(Event), s # <<>>
  PROVE  /\ Len(s) \in Nat /\ Len(s) > 0 /\ Head(s) = s[1] /\ 1 \in 1..Len(s)
         /\ Tail(s) \in Seq(Event) /\ Len(Tail(s)) = Len(s) - 1
         /\ \A i \in 1..Len(Tail(s)) : i + 1 \in 1..Len(s) /\ Tail(s)[i] = s[i + 1]
<1>1. /\ Tail(s) \in Seq(Event) /\ Len(Tail(s)) = Len(s) - 1
      /\ \A i \in 1..Len(Tail(s)) : Tail(s)[i] = s[i + 1]
  BY HeadTailProperties
<1>2. Len(s) \in Nat /\ Len(s) > 0 /\ Head(s) = s[1]
  BY EmptySeq, HeadTailProperties, LenProperties
<1> QED  BY <1>1, <1>2

\* The wire of an end that runs, a unit of time later.
LEMMA OlderWire ==
  ASSUME NEW s \in Seq(Event), \A i \in 1..Len(s) : s[i].age < Delay
  PROVE  LET t == [i \in 1..Len(s) |-> [s[i] EXCEPT !.age = @ + 1]] IN
         /\ t \in Seq(Event) /\ Len(t) = Len(s)
         /\ \A i \in 1..Len(s) : t[i].name = s[i].name /\ t[i].age = s[i].age + 1
<1> DEFINE t == [i \in 1..Len(s) |-> [s[i] EXCEPT !.age = @ + 1]]
<1>1. ASSUME NEW e \in Event, e.age < Delay
      PROVE  LET f == [e EXCEPT !.age = @ + 1] IN
             f \in Event /\ f.name = e.name /\ f.age = e.age + 1
  BY <1>1, HeartBeatAssumption DEF Event
<1>2. \A i \in 1..Len(s) : s[i] \in Event
  BY ElementOfSeq
<1>3. \A i \in 1..Len(s) : t[i] \in Event /\ t[i].name = s[i].name /\ t[i].age = s[i].age + 1
  BY <1>1, <1>2
<1>4. Len(s) \in Nat
  BY LenProperties
<1>5. t \in [1..Len(s) -> Event]
  BY <1>3
<1>6. t \in Seq(Event) /\ Len(t) = Len(s)
  BY <1>4, <1>5
<1> QED  BY <1>3, <1>6

-----------------------------------------------------------------------------
(***************************************************************************)
(* What a step of one end does to the two of them.                         *)
(***************************************************************************)
\* A step of the other end leaves x as it is, but for its wire.
Same(x) ==
  /\ parent'[x] = parent[x] /\ task'[x] = task[x] /\ timer'[x] = timer[x]
  /\ age'[x] = age[x] /\ (lost'[x] <=> lost[x]) /\ (closed'[x] <=> closed[x])
  /\ (pending'[x] <=> pending[x]) /\ (up'[x] <=> up[x]) /\ silence'[x] = silence[x]

\* The heartbeat task of x stays as it is, or it begins.
TaskStays(x) == task'[x] = task[x] /\ timer'[x] = timer[x]
TaskBegins(x) ==
  task[x] = "off" /\ ~closed[x] /\ task'[x] = "sleeping" /\ timer'[x] = Freq

LEMMA BeatDoes ==
  ASSUME Types, NEW a, NEW p, Pair(a, p), Beat(a)
  PROVE  /\ Beating(a) /\ timer[a] <= 0 /\ Same(p) /\ wire'[a] = wire[a]
         /\ parent'[a] = parent[a] /\ (closed'[a] <=> closed[a]) /\ (up'[a] <=> up[a])
         /\ silence'[a] = silence[a] /\ age'[a] = Baseline(a)
         /\ \/ /\ TooOld(Baseline(a)) /\ lost'[a] /\ task'[a] = "ended"
               /\ timer'[a] = timer[a] /\ wire'[p] = wire[p]
               /\ (pending'[a] <=> ~closed[a])
            \/ /\ ~TooOld(Baseline(a)) /\ wire'[p] = Append(wire[p], Heartbeat)
               /\ timer'[a] = Freq /\ task'[a] = task[a]
               /\ (lost'[a] <=> lost[a]) /\ (pending'[a] <=> pending[a])
            \/ /\ task'[a] = "blocked" /\ timer'[a] = timer[a] /\ wire'[p] = wire[p]
               /\ (lost'[a] <=> lost[a]) /\ (pending'[a] <=> pending[a])
<1> USE DEF Pair
<1>1. /\ Beating(a) /\ timer[a] <= 0 /\ age' = [age EXCEPT ![a] = Baseline(a)]
      /\ parent' = parent /\ closed' = closed /\ up' = up /\ silence' = silence
  BY DEF Beat, Beating
<1>2. age'[a] = Baseline(a) /\ age'[p] = age[p]
  BY <1>1 DEF Types
<1>3. CASE /\ TooOld(Baseline(a))
           /\ lost' = [lost EXCEPT ![a] = TRUE]
           /\ pending' = [pending EXCEPT ![a] = ~closed[a]]
           /\ task' = [task EXCEPT ![a] = "ended"]
           /\ UNCHANGED <<timer, wire>>
  <2>1. lost'[a] /\ (lost'[p] <=> lost[p]) /\ task'[a] = "ended" /\ task'[p] = task[p]
    BY <1>3 DEF Types
  <2>2. (pending'[a] <=> ~closed[a]) /\ (pending'[p] <=> pending[p])
    BY <1>3 DEF Types
  <2> QED  BY <1>1, <1>2, <1>3, <2>1, <2>2 DEF Same
<1>4. CASE /\ ~TooOld(Baseline(a))
           /\ wire' = [wire EXCEPT ![Peer(a)] = Append(@, [name |-> "hb", age |-> 0])]
           /\ Sleep(a)
           /\ UNCHANGED <<lost, pending, task>>
  <2>1. wire'[p] = Append(wire[p], Heartbeat) /\ wire'[a] = wire[a]
    BY <1>4 DEF Types, Heartbeat
  <2>2. timer'[a] = Freq /\ timer'[p] = timer[p]
    BY <1>4 DEF Types, Sleep
  <2> QED  BY <1>1, <1>2, <1>4, <2>1, <2>2 DEF Same
<1>5. CASE /\ ~TooOld(Baseline(a)) /\ a \in Stallers
           /\ task' = [task EXCEPT ![a] = "blocked"]
           /\ UNCHANGED <<lost, pending, timer, wire>>
  <2>1. task'[a] = "blocked" /\ task'[p] = task[p]
    BY <1>5 DEF Types
  <2> QED  BY <1>1, <1>2, <1>5, <2>1 DEF Same
<1> QED  BY <1>3, <1>4, <1>5 DEF Beat

LEMMA StartBeatDoes ==
  ASSUME Types, NEW a, NEW p, Pair(a, p), StartBeat(a)
  PROVE  /\ TaskStays(p)
         /\ TaskBegins(a) \/ (TaskStays(a) /\ ~(task[a] = "off" /\ ~closed[a]))
<1> USE DEF Pair
<1>1. CASE task[a] = "off" /\ ~closed[a]
  <2>1. task' = [task EXCEPT ![a] = "sleeping"] /\ timer' = [timer EXCEPT ![a] = Freq]
    BY <1>1 DEF StartBeat, Sleep
  <2>2. task'[a] = "sleeping" /\ task'[p] = task[p]
    BY <2>1 DEF Types
  <2>3. timer'[a] = Freq /\ timer'[p] = timer[p]
    BY <2>1 DEF Types
  <2>4. TaskBegins(a)
    BY <1>1, <2>2, <2>3 DEF TaskBegins
  <2>5. TaskStays(p)
    BY <2>2, <2>3 DEF TaskStays
  <2> QED  BY <2>4, <2>5
<1>2. CASE ~(task[a] = "off" /\ ~closed[a])
  BY <1>2 DEF StartBeat, TaskStays
<1> QED  BY <1>1, <1>2

LEMMA HearDoes ==
  ASSUME Types, NEW a, NEW p, Pair(a, p), Hear(a)
  PROVE  /\ up[a] /\ wire[a] # <<>> /\ wire'[a] = Tail(wire[a])
         /\ Same(p) /\ wire'[p] = wire[p]
         /\ (lost'[a] <=> lost[a]) /\ (closed'[a] <=> closed[a])
         /\ (pending'[a] <=> pending[a]) /\ (up'[a] <=> up[a]) /\ silence'[a] = silence[a]
         /\ TaskStays(a) \/ TaskBegins(a)
         /\ \/ /\ Head(wire[a]).name = "request"
               /\ parent'[a] = "busy" /\ age'[a] = age[a]
            \/ /\ Head(wire[a]).name = "hb" /\ Receiving(a)
               /\ parent'[a] = parent[a] /\ age'[a] = 0
               /\ task[a] = "off" /\ ~closed[a] => TaskBegins(a)
            \/ /\ Head(wire[a]).name = "hb" /\ ~Receiving(a)
               /\ parent'[a] = parent[a] /\ age'[a] = age[a] /\ TaskStays(a)
<1> USE DEF Pair
<1>1. /\ up[a] /\ wire[a] # <<>> /\ wire' = [wire EXCEPT ![a] = Tail(@)]
      /\ lost' = lost /\ closed' = closed /\ pending' = pending /\ up' = up
      /\ silence' = silence
  BY DEF Hear
<1>2. wire'[a] = Tail(wire[a]) /\ wire'[p] = wire[p]
  BY <1>1 DEF Types
<1>3. CASE /\ Head(wire[a]).name = "request"
           /\ parent' = [parent EXCEPT ![a] = "busy"]
           /\ StartBeat(a) \/ (a \in Passive /\ UNCHANGED <<task, timer>>)
           /\ UNCHANGED age
  <2>1. parent'[a] = "busy" /\ parent'[p] = parent[p]
    BY <1>3 DEF Types
  <2>2. TaskStays(p) /\ (TaskStays(a) \/ TaskBegins(a))
    BY <1>3, StartBeatDoes DEF TaskStays
  <2> QED  BY <1>1, <1>2, <1>3, <2>1, <2>2 DEF Same, TaskStays
<1>4. CASE /\ Head(wire[a]).name = "hb" /\ Receiving(a)
           /\ age' = [age EXCEPT ![a] = 0]
           /\ StartBeat(a)
           /\ UNCHANGED parent
  <2>1. age'[a] = 0 /\ age'[p] = age[p]
    BY <1>4 DEF Types
  <2>2. /\ TaskStays(p) /\ (TaskStays(a) \/ TaskBegins(a))
        /\ task[a] = "off" /\ ~closed[a] => TaskBegins(a)
    BY <1>4, StartBeatDoes
  <2> QED  BY <1>1, <1>2, <1>4, <2>1, <2>2 DEF Same, TaskStays
<1>5. CASE /\ Head(wire[a]).name = "hb" /\ ~Receiving(a)
           /\ UNCHANGED <<age, task, timer, parent>>
  BY <1>1, <1>2, <1>5 DEF Same, TaskStays
<1> QED  BY <1>3, <1>4, <1>5 DEF Hear

\* The steps of the parent and the crash: what of the end itself they may change.
LEMMA ParentDoes ==
  ASSUME Types, NEW a, NEW p, Pair(a, p),
         BeginClose(a) \/ BufKilled(a) \/ BeatKilled(a) \/ RecvKilled(a) \/ Throw(a) \/ Crash(a)
  PROVE  /\ Same(p) /\ wire' = wire
         /\ timer'[a] = timer[a] /\ age'[a] = age[a] /\ silence'[a] = silence[a]
         /\ (lost'[a] <=> lost[a]) /\ (closed[a] => closed'[a]) /\ (up'[a] => up[a])
         /\ task'[a] = task[a] \/ (task'[a] = "ended" /\ parent[a] = "killingBeat")
         /\ \/ /\ parent[a] = "busy" /\ parent'[a] = "killingBuf"
               /\ task'[a] = task[a] /\ (closed'[a] <=> closed[a])
               /\ (pending'[a] <=> pending[a]) /\ (up'[a] <=> up[a])
            \/ /\ parent[a] = "killingBuf" /\ closed'[a] /\ task'[a] = task[a]
               /\ parent'[a] = "killingBeat" \/ (parent'[a] = "killingRecv" /\ ~Alive(a))
               /\ (pending'[a] <=> pending[a]) /\ (up'[a] <=> up[a])
            \/ /\ parent[a] = "killingBeat" /\ parent'[a] = "killingRecv"
               /\ task'[a] = "ended" /\ (closed'[a] <=> closed[a])
               /\ (pending'[a] <=> pending[a]) /\ (up'[a] <=> up[a])
            \/ /\ parent[a] = "killingRecv" /\ parent'[a] = "closed"
               /\ task'[a] = task[a] /\ (closed'[a] <=> closed[a])
               /\ (pending'[a] <=> pending[a]) /\ (up'[a] <=> up[a])
            \/ /\ pending[a] /\ ~pending'[a] /\ task'[a] = task[a]
               /\ parent'[a] = parent[a] \/ (parent'[a] = "aborted" /\ Closing(a))
               /\ (closed'[a] <=> closed[a]) /\ (up'[a] <=> up[a])
            \/ /\ ~up'[a] /\ parent'[a] = parent[a] /\ task'[a] = task[a]
               /\ (closed'[a] <=> closed[a]) /\ (pending'[a] <=> pending[a])
<1> USE DEF Pair
<1>1. CASE BeginClose(a)
  <2>1. /\ parent[a] = "busy" /\ parent' = [parent EXCEPT ![a] = "killingBuf"]
        /\ UNCHANGED <<task, timer, age, lost, closed, pending, wire, up, silence>>
    BY <1>1 DEF BeginClose, Step
  <2>2. parent'[a] = "killingBuf" /\ parent'[p] = parent[p]
    BY <2>1 DEF Types
  <2> QED  BY <2>1, <2>2 DEF Same
<1>2. CASE BufKilled(a)
  <2>1. /\ parent[a] = "killingBuf"
        /\ parent' = [parent EXCEPT ![a] = IF Alive(a) THEN "killingBeat" ELSE "killingRecv"]
        /\ closed' = [closed EXCEPT ![a] = TRUE]
        /\ UNCHANGED <<task, timer, age, lost, pending, wire, up, silence>>
    BY <1>2 DEF BufKilled, Step
  <2>2. /\ parent'[a] = "killingBeat" \/ (parent'[a] = "killingRecv" /\ ~Alive(a))
        /\ parent'[p] = parent[p]
    <3>1. CASE Alive(a)
      <4>1. parent' = [parent EXCEPT ![a] = "killingBeat"]
        BY <2>1, <3>1
      <4> QED  BY <4>1 DEF Types
    <3>2. CASE ~Alive(a)
      <4>1. parent' = [parent EXCEPT ![a] = "killingRecv"]
        BY <2>1, <3>2
      <4> QED  BY <3>2, <4>1 DEF Types
    <3> QED  BY <3>1, <3>2
  <2>3. closed'[a] /\ (closed'[p] <=> closed[p])
    BY <2>1 DEF Types
  <2> QED  BY <2>1, <2>2, <2>3 DEF Same
<1>3. CASE BeatKilled(a)
  <2>1. /\ parent[a] = "killingBeat" /\ parent' = [parent EXCEPT ![a] = "killingRecv"]
        /\ task' = [task EXCEPT ![a] = "ended"]
        /\ UNCHANGED <<timer, age, lost, closed, pending, wire, up, silence>>
    BY <1>3 DEF BeatKilled, Step
  <2>2. /\ parent'[a] = "killingRecv" /\ parent'[p] = parent[p]
        /\ task'[a] = "ended" /\ task'[p] = task[p]
    BY <2>1 DEF Types
  <2> QED  BY <2>1, <2>2 DEF Same
<1>4. CASE RecvKilled(a)
  <2>1. /\ parent[a] = "killingRecv" /\ parent' = [parent EXCEPT ![a] = "closed"]
        /\ UNCHANGED <<task, timer, age, lost, closed, pending, wire, up, silence>>
    BY <1>4 DEF RecvKilled, Step
  <2>2. parent'[a] = "closed" /\ parent'[p] = parent[p]
    BY <2>1 DEF Types
  <2> QED  BY <2>1, <2>2 DEF Same
<1>5. CASE Throw(a)
  <2>1. /\ pending[a] /\ pending' = [pending EXCEPT ![a] = FALSE]
        /\ parent' = [parent EXCEPT ![a] = IF Closing(a) THEN "aborted" ELSE @]
        /\ UNCHANGED <<task, timer, age, lost, closed, wire, up, silence>>
    BY <1>5 DEF Throw
  <2>2. /\ parent'[a] = parent[a] \/ (parent'[a] = "aborted" /\ Closing(a))
        /\ parent'[p] = parent[p]
    <3>1. CASE Closing(a)
      <4>1. parent' = [parent EXCEPT ![a] = "aborted"]
        BY <2>1, <3>1
      <4> QED  BY <3>1, <4>1 DEF Types
    <3>2. CASE ~Closing(a)
      <4>1. parent' = [parent EXCEPT ![a] = parent[a]]
        BY <2>1, <3>2
      <4> QED  BY <4>1 DEF Types
    <3> QED  BY <3>1, <3>2
  <2>3. ~pending'[a] /\ (pending'[p] <=> pending[p])
    BY <2>1 DEF Types
  <2> QED  BY <2>1, <2>2, <2>3 DEF Same
<1>6. CASE Crash(a)
  <2>1. /\ up[a] /\ up' = [up EXCEPT ![a] = FALSE]
        /\ UNCHANGED <<parent, task, timer, age, lost, closed, pending, wire, silence>>
    BY <1>6 DEF Crash
  <2>2. ~up'[a] /\ (up'[p] <=> up[p])
    BY <2>1 DEF Types
  <2> QED  BY <2>1, <2>2 DEF Same
<1> QED  BY <1>1, <1>2, <1>3, <1>4, <1>5, <1>6

\* A unit of time, at one end.
LEMMA AdvanceDoes ==
  ASSUME Types, Advance, NEW x \in End
  PROVE  /\ parent'[x] = parent[x] /\ task'[x] = task[x]
         /\ (lost'[x] <=> lost[x]) /\ (closed'[x] <=> closed[x])
         /\ (pending'[x] <=> pending[x]) /\ (up'[x] <=> up[x])
         /\ age'[x] = Older(age[x])
         /\ IF Beating(x) THEN timer'[x] = timer[x] - 1 /\ timer[x] > -Slack
                          ELSE timer'[x] = timer[x]
         /\ up[x] => /\ ~Closing(x) /\ ~pending[x]
                     /\ wire'[x] \in Seq(Event) /\ Len(wire'[x]) = Len(wire[x])
                     /\ \A i \in 1..Len(wire[x]) :
                          /\ wire'[x][i].name = wire[x][i].name
                          /\ wire'[x][i].age = wire[x][i].age + 1
         /\ ~up[x] => wire'[x] = <<>>
         /\ IF Beating(x) /\ Stopped(Peer(x)) /\ silence[x] <= Bound
            THEN silence'[x] = silence[x] + 1 ELSE silence'[x] = silence[x]
<1>1. /\ Settled(x)
      /\ timer'[x] = IF up[x] /\ task[x] = "sleeping" THEN timer[x] - 1 ELSE timer[x]
      /\ age'[x] = Older(age[x])
      /\ silence'[x] = IF up[x] /\ task[x] = "sleeping" /\ Stopped(Peer(x)) /\ silence[x] <= Bound
                       THEN silence[x] + 1 ELSE silence[x]
      /\ wire'[x] = IF up[x] THEN [i \in 1..Len(wire[x]) |-> [wire[x][i] EXCEPT !.age = @ + 1]]
                             ELSE <<>>
      /\ UNCHANGED <<parent, task, lost, closed, pending, up>>
  BY DEF Advance
<1>2. ASSUME up[x]
      PROVE  /\ ~Closing(x) /\ ~pending[x]
             /\ wire'[x] \in Seq(Event) /\ Len(wire'[x]) = Len(wire[x])
             /\ \A i \in 1..Len(wire[x]) :
                   /\ wire'[x][i].name = wire[x][i].name
                   /\ wire'[x][i].age = wire[x][i].age + 1
  <2>1. /\ \A i \in 1..Len(wire[x]) : wire[x][i].age < Delay
        /\ ~Closing(x) /\ ~pending[x]
    BY <1>1, <1>2 DEF Settled
  <2>2. wire[x] \in Seq(Event)
    BY DEF Types
  <2>3. wire'[x] = [i \in 1..Len(wire[x]) |-> [wire[x][i] EXCEPT !.age = @ + 1]]
    BY <1>1, <1>2
  <2> QED  BY <2>1, <2>2, <2>3, OlderWire
<1>3. Beating(x) => timer[x] > -Slack
  BY <1>1 DEF Settled, Beating
<1> QED  BY <1>1, <1>2, <1>3 DEF Beating

-----------------------------------------------------------------------------
(***************************************************************************)
(* Types, and the shape of an end.                                         *)
(***************************************************************************)
LEMMA Numbers ==
  /\ Freq \in Nat /\ Freq > 0 /\ Delay \in Nat /\ Slack \in Nat
  /\ Bound = 4 * Freq + 2 * Slack /\ Bound \in Nat /\ Never = -1
BY HeartBeatAssumption DEF Bound, Never

\* The types of one end.
LEMMA TypesOf ==
  ASSUME Types, NEW x \in End
  PROVE  /\ parent[x] \in ParentState /\ task[x] \in TaskState
         /\ timer[x] \in -Slack..Freq /\ timer[x] \in Int /\ -Slack <= timer[x] /\ timer[x] <= Freq
         /\ age[x] \in Never..2 * Freq + 1
         /\ lost[x] \in BOOLEAN /\ closed[x] \in BOOLEAN
         /\ pending[x] \in BOOLEAN /\ up[x] \in BOOLEAN
         /\ wire[x] \in Seq(Event) /\ Len(wire[x]) \in Nat
         /\ \A i \in 1..Len(wire[x]) : /\ wire[x][i].name \in {"request", "hb"}
                                       /\ wire[x][i].age \in Nat /\ wire[x][i].age <= Delay
         /\ silence[x] \in Nat /\ silence[x] <= Bound + 1
<1>1. wire[x] \in Seq(Event)
  BY DEF Types
<1>2. \A i \in 1..Len(wire[x]) : wire[x][i] \in Event
  BY <1>1, ElementOfSeq
<1>3. Len(wire[x]) \in Nat
  BY <1>1, LenProperties
<1>4. timer[x] \in -Slack..Freq /\ silence[x] \in 0..Bound + 1
  BY DEF Types
<1> QED  BY <1>1, <1>2, <1>3, <1>4, EventParts, Numbers DEF Types

LEMMA TypesInit == Init => Types
<1> SUFFICES ASSUME Init PROVE Types
  OBVIOUS
<1>1. parent \in [End -> ParentState] /\ task \in [End -> TaskState]
  BY DEF Init, ParentState, TaskState
<1>2. timer \in [End -> -Slack..Freq] /\ age \in [End -> Never..2 * Freq + 1]
  BY Numbers DEF Init
<1>3. /\ lost \in [End -> BOOLEAN] /\ closed \in [End -> BOOLEAN]
      /\ pending \in [End -> BOOLEAN] /\ up \in [End -> BOOLEAN]
      /\ silence \in [End -> 0..Bound + 1]
  BY Numbers DEF Init
<1>4. wire \in [End -> Seq(Event)]
  <2>1. [name |-> "request", age |-> 0] \in Event
    BY Numbers DEF Event
  <2>2. <<[name |-> "request", age |-> 0]>> \in Seq(Event) /\ <<>> \in Seq(Event)
    BY <2>1
  <2> QED  BY <2>2 DEF Init
<1> QED  BY <1>1, <1>2, <1>3, <1>4 DEF Types

LEMMA TypesStep == Types /\ [Next]_vars => Types'
<1> SUFFICES ASSUME Types, [Next]_vars PROVE Types'
  OBVIOUS
<1>1. ASSUME NEW a \in End, Beat(a) PROVE Types'
  <2>1. /\ task[a] = "sleeping" /\ age' = [age EXCEPT ![a] = Baseline(a)]
        /\ UNCHANGED <<parent, closed, up, silence>>
    BY <1>1 DEF Beat
  <2>2. age' \in [End -> Never..2 * Freq + 1]
    <3>1. Baseline(a) \in Never..2 * Freq + 1
      BY TypesOf, Numbers DEF Baseline
    <3> QED  BY <2>1, <3>1 DEF Types
  <2>3. wire' \in [End -> Seq(Event)]
    <3>1. wire' = wire \/ wire' = [wire EXCEPT ![Peer(a)] = Append(@, Heartbeat)]
      BY <1>1 DEF Beat, Heartbeat
    <3>2. Append(wire[Peer(a)], Heartbeat) \in Seq(Event)
      BY TwoEnds, TypesOf, Emitted DEF Pair
    <3> QED  BY <3>1, <3>2 DEF Types
  <2>4. timer' \in [End -> -Slack..Freq]
    <3>1. timer' = timer \/ timer' = [timer EXCEPT ![a] = Freq]
      BY <1>1 DEF Beat, Sleep
    <3> QED  BY <3>1, Numbers DEF Types
  <2>5. task' \in [End -> TaskState]
    <3>1. task' = task \/ task' = [task EXCEPT ![a] = "ended"] \/ task' = [task EXCEPT ![a] = "blocked"]
      BY <1>1 DEF Beat
    <3> QED  BY <3>1 DEF Types, TaskState
  <2>6. lost' \in [End -> BOOLEAN]
    <3>1. lost' = lost \/ lost' = [lost EXCEPT ![a] = TRUE]
      BY <1>1 DEF Beat
    <3> QED  BY <3>1 DEF Types
  <2>7. pending' \in [End -> BOOLEAN]
    <3>1. pending' = pending \/ pending' = [pending EXCEPT ![a] = ~closed[a]]
      BY <1>1 DEF Beat
    <3> QED  BY <3>1 DEF Types
  <2> QED  BY <2>1, <2>2, <2>3, <2>4, <2>5, <2>6, <2>7 DEF Types
<1>2. ASSUME NEW a \in End, Hear(a) PROVE Types'
  <2>1. /\ wire[a] # <<>> /\ wire' = [wire EXCEPT ![a] = Tail(@)]
        /\ UNCHANGED <<lost, closed, pending, up, silence>>
    BY <1>2 DEF Hear
  <2>2. wire' \in [End -> Seq(Event)]
    <3>1. Tail(wire[a]) \in Seq(Event)
      BY <2>1, TypesOf, Taken
    <3> QED  BY <2>1, <3>1 DEF Types
  <2>3. parent' \in [End -> ParentState]
    <3>1. parent' = parent \/ parent' = [parent EXCEPT ![a] = "busy"]
      BY <1>2 DEF Hear
    <3> QED  BY <3>1 DEF Types, ParentState
  <2>4. age' \in [End -> Never..2 * Freq + 1]
    <3>1. age' = age \/ age' = [age EXCEPT ![a] = 0]
      BY <1>2 DEF Hear
    <3>2. 0 \in Never..2 * Freq + 1
      BY Numbers
    <3> QED  BY <3>1, <3>2 DEF Types
  <2>5. task' \in [End -> TaskState] /\ timer' \in [End -> -Slack..Freq]
    <3>1. \/ UNCHANGED <<task, timer>>
          \/ task' = [task EXCEPT ![a] = "sleeping"] /\ timer' = [timer EXCEPT ![a] = Freq]
      BY <1>2 DEF Hear, StartBeat, Sleep
    <3>2. Freq \in -Slack..Freq /\ "sleeping" \in TaskState
      BY Numbers DEF TaskState
    <3> QED  BY <3>1, <3>2 DEF Types
  <2> QED  BY <2>1, <2>2, <2>3, <2>4, <2>5 DEF Types
<1>3. ASSUME NEW a \in End, BeginClose(a) \/ RecvKilled(a) PROVE Types'
  <2>1. /\ UNCHANGED <<task, timer, age, lost, closed, pending, wire, up, silence>>
        /\ \/ parent' = [parent EXCEPT ![a] = "killingBuf"]
           \/ parent' = [parent EXCEPT ![a] = "closed"]
    BY <1>3 DEF BeginClose, RecvKilled, Step
  <2> QED  BY <2>1 DEF Types, ParentState
<1>4. ASSUME NEW a \in End, BufKilled(a) PROVE Types'
  <2>1. /\ UNCHANGED <<task, timer, age, lost, pending, wire, up, silence>>
        /\ closed' = [closed EXCEPT ![a] = TRUE]
        /\ \/ parent' = [parent EXCEPT ![a] = "killingBeat"]
           \/ parent' = [parent EXCEPT ![a] = "killingRecv"]
    BY <1>4 DEF BufKilled, Step
  <2> QED  BY <2>1 DEF Types, ParentState
<1>5. ASSUME NEW a \in End, BeatKilled(a) PROVE Types'
  <2>1. /\ UNCHANGED <<timer, age, lost, closed, pending, wire, up, silence>>
        /\ task' = [task EXCEPT ![a] = "ended"]
        /\ parent' = [parent EXCEPT ![a] = "killingRecv"]
    BY <1>5 DEF BeatKilled, Step
  <2> QED  BY <2>1 DEF Types, ParentState, TaskState
<1>6. ASSUME NEW a \in End, Throw(a) PROVE Types'
  <2>1. /\ UNCHANGED <<task, timer, age, lost, closed, wire, up, silence>>
        /\ pending' = [pending EXCEPT ![a] = FALSE]
        /\ \/ parent' = [parent EXCEPT ![a] = "aborted"]
           \/ parent' = [parent EXCEPT ![a] = parent[a]]
    BY <1>6 DEF Throw
  <2> QED  BY <2>1 DEF Types, ParentState
<1>7. ASSUME NEW a \in End, Crash(a) PROVE Types'
  <2>1. /\ UNCHANGED <<parent, task, timer, age, lost, closed, pending, wire, silence>>
        /\ up' = [up EXCEPT ![a] = FALSE]
    BY <1>7 DEF Crash
  <2> QED  BY <2>1 DEF Types
<1>8. ASSUME Advance PROVE Types'
  <2>1. /\ timer' \in [End -> -Slack..Freq] /\ age' \in [End -> Never..2 * Freq + 1]
        /\ silence' \in [End -> 0..Bound + 1] /\ wire' \in [End -> Seq(Event)]
    <3>1. ASSUME NEW x \in End
          PROVE  /\ timer'[x] \in -Slack..Freq /\ age'[x] \in Never..2 * Freq + 1
                 /\ silence'[x] \in 0..Bound + 1 /\ wire'[x] \in Seq(Event)
      <4>1. timer'[x] \in -Slack..Freq
        BY <1>8, AdvanceDoes, TypesOf, Numbers
      <4>2. age'[x] \in Never..2 * Freq + 1
        <5>1. age'[x] = Older(age[x]) /\ age[x] \in Never..2 * Freq + 1
          BY <1>8, AdvanceDoes, TypesOf
        <5> QED  BY <5>1, Numbers DEF Older
      <4>3. silence'[x] \in 0..Bound + 1
        BY <1>8, AdvanceDoes, TypesOf, Numbers
      <4>4. <<>> \in Seq(Event)
        OBVIOUS
      <4>5. wire'[x] \in Seq(Event)
        BY <1>8, <4>4, AdvanceDoes, TypesOf
      <4> QED  BY <4>1, <4>2, <4>3, <4>5
    <3>2. \A x \in End : /\ timer'[x] \in -Slack..Freq /\ age'[x] \in Never..2 * Freq + 1
                        /\ silence'[x] \in 0..Bound + 1 /\ wire'[x] \in Seq(Event)
      BY <3>1
    <3>3. /\ timer' = [x \in End |-> timer'[x]] /\ age' = [x \in End |-> age'[x]]
          /\ silence' = [x \in End |-> silence'[x]] /\ wire' = [x \in End |-> wire'[x]]
      BY <1>8 DEF Advance
    <3> QED  BY <3>2, <3>3
  <2>2. UNCHANGED <<parent, task, lost, closed, pending, up>>
    BY <1>8 DEF Advance
  <2> QED  BY <2>1, <2>2 DEF Types
<1>9. ASSUME UNCHANGED vars PROVE Types'
  BY <1>9 DEF vars, Types
<1> QED  BY <1>1, <1>2, <1>3, <1>4, <1>5, <1>6, <1>7, <1>8, <1>9 DEF Next, EndStep

-----------------------------------------------------------------------------
Shapes == \A x \in End : Shape(x)

LEMMA ShapeInit == Init => Shapes
<1> SUFFICES ASSUME Init, NEW x \in End PROVE Shape(x)
  BY DEF Shapes
<1>1. wire["server"] = <<[name |-> "request", age |-> 0]>> /\ wire["client"] = <<>>
  BY DEF Init, End
<1>2. x = "client" \/ x = "server"
  BY DEF End
<1>3. /\ parent[x] = IF x = "client" THEN "busy" ELSE "none"
      /\ x = "server" => task[x] = "off"
      /\ age[x] = Never /\ ~lost[x] /\ ~closed[x] /\ ~pending[x]
  BY <1>2 DEF Init, End
<1>4. CASE x = "client"
  BY <1>1, <1>3, <1>4 DEF Shape, Alive
<1>5. CASE x = "server"
  <2>1. Len(wire["server"]) = 1 /\ wire["server"][1].name = "request"
    BY <1>1
  <2> QED  BY <1>3, <1>5, <2>1 DEF Shape, Alive
<1> QED  BY <1>2, <1>4, <1>5

\* What a step of a leaves of the shape of its peer.
LEMMA ShapeOfPeer ==
  ASSUME Types, NEW a, NEW p, Pair(a, p), Shape(p), Same(p), wire'[p] = wire[p],
         task[a] # "off" => task'[a] # "off"
  PROVE  Shape(p)'
<1> QED  BY DEF Pair, Same, Shape, Alive

LEMMA ShapeStep == Types /\ Shapes /\ [Next]_vars => Shapes'
<1> SUFFICES ASSUME Types, Shapes, [Next]_vars PROVE \A x \in End : Shape(x)'
  BY DEF Shapes
<1>0. \A a, p : Pair(a, p) => Shape(a) /\ Shape(p) /\ a \in End /\ p \in End
  BY DEF Shapes, Pair
<1>1. ASSUME NEW a, NEW p, Pair(a, p), Beat(a) PROVE Shape(a)' /\ Shape(p)'
  <2>1. /\ Beating(a) /\ Same(p) /\ wire'[a] = wire[a] /\ task[a] = "sleeping"
        /\ parent'[a] = parent[a] /\ (closed'[a] <=> closed[a]) /\ (up'[a] <=> up[a])
    BY <1>1, BeatDoes DEF Beating
  <2>2. \/ lost'[a] /\ task'[a] = "ended"
        \/ /\ task'[a] = "sleeping" \/ task'[a] = "blocked"
           /\ (lost'[a] <=> lost[a]) /\ (pending'[a] <=> pending[a])
    BY <1>1, <2>1, BeatDoes
  <2>3. ~lost[a] /\ ~pending[a] /\ parent[a] \in {"busy", "killingBuf", "killingBeat"}
    BY <1>0, <1>1, <2>1, TypesOf DEF Shape, Alive, ParentState
  <2>4. Peer(a) = p /\ task'[p] = task[p] /\ Peer(p) = a
    BY <1>1, <2>1 DEF Same, Pair
  <2>5. /\ parent'[a] = "none" => task'[a] = "off" /\ age'[a] = Never
        /\ parent'[a] \in {"none", "busy", "killingBuf"} => ~closed'[a]
        /\ parent'[a] \in {"killingBeat", "killingRecv", "closed"} => closed'[a]
        /\ parent'[a] \in {"killingRecv", "closed"} => ~Alive(a)'
        /\ parent'[a] = "aborted" => task'[a] = "ended"
        /\ pending'[a] => lost'[a]
        /\ lost'[a] => task'[a] = "ended"
    BY <1>0, <1>1, <2>1, <2>2, <2>3 DEF Shape
  <2>6. Shape(a)'
    BY <1>0, <1>1, <2>1, <2>3, <2>4, <2>5 DEF Shape
  <2>7. CASE wire'[p] = wire[p]
    <3>1. task'[a] # "off" /\ Shape(p) /\ Same(p)
      BY <1>0, <1>1, <2>1, <2>2
    <3> QED  BY <1>1, <2>6, <2>7, <3>1, ShapeOfPeer
  <2>8. CASE wire'[p] = Append(wire[p], Heartbeat)
    <3>1. /\ Len(wire'[p]) = Len(wire[p]) + 1 /\ Len(wire[p]) \in Nat
          /\ \A i \in 1..Len(wire[p]) : wire'[p][i] = wire[p][i]
          /\ wire'[p][Len(wire[p]) + 1].name = "hb"
      BY <1>0, <1>1, <2>8, TypesOf, Emitted
    <3>2. task'[a] # "off"
      BY <2>2
    <3>3. \A i \in 1..Len(wire'[p]) :
            wire'[p][i].name = "request" => i = 1 /\ parent[p] = "none"
      BY <1>0, <1>1, <3>1 DEF Shape
    <3>4. up[p] /\ parent[p] = "none" => Len(wire'[p]) > 0 /\ wire'[p][1].name = "request"
      BY <1>0, <1>1, <3>1 DEF Shape
    <3>5. /\ parent'[p] = parent[p] /\ (up'[p] <=> up[p]) /\ age'[p] = age[p]
          /\ (lost'[p] <=> lost[p]) /\ (closed'[p] <=> closed[p])
          /\ (pending'[p] <=> pending[p])
      BY <2>1 DEF Same
    <3>6. Shape(p)
      BY <1>0, <1>1
    <3>7. Shape(p)'
      BY <2>4, <3>2, <3>3, <3>4, <3>5, <3>6 DEF Shape, Alive
    <3> QED  BY <2>6, <3>7
  <2> QED  BY <1>1, <2>6, <2>7, <2>8, BeatDoes
<1>2. ASSUME NEW a, NEW p, Pair(a, p), Hear(a) PROVE Shape(a)' /\ Shape(p)'
  <2>1. /\ up[a] /\ wire[a] # <<>> /\ wire'[a] = Tail(wire[a])
        /\ Same(p) /\ wire'[p] = wire[p]
        /\ (lost'[a] <=> lost[a]) /\ (closed'[a] <=> closed[a])
        /\ (pending'[a] <=> pending[a]) /\ (up'[a] <=> up[a])
        /\ task'[a] = task[a] \/ (task[a] = "off" /\ ~closed[a] /\ task'[a] = "sleeping")
    BY <1>2, HearDoes DEF TaskStays, TaskBegins
  <2>2. Shape(p)'
    BY <1>0, <1>2, <2>1, ShapeOfPeer
  <2>3. /\ Len(wire[a]) \in Nat /\ Len(wire[a]) > 0 /\ Head(wire[a]) = wire[a][1]
        /\ 1 \in 1..Len(wire[a]) /\ Len(wire'[a]) = Len(wire[a]) - 1
        /\ \A i \in 1..Len(wire'[a]) : i + 1 \in 1..Len(wire[a]) /\ wire'[a][i] = wire[a][i + 1]
    BY <1>0, <1>2, <2>1, TypesOf, Taken
  <2>4. \A i \in 1..Len(wire'[a]) : wire'[a][i].name # "request"
    BY <1>0, <1>2, <2>3 DEF Shape
  <2>5. \A i \in 1..Len(wire'[a]) : wire'[a][i].name = "hb" => task'[Peer(a)] # "off"
    BY <1>0, <1>2, <2>1, <2>3 DEF Shape, Same, Pair
  <2>6. parent'[a] # "none"
    BY <1>0, <1>2, <2>3, HearDoes DEF Shape
  <2>7. CASE Head(wire[a]).name = "request"
    <3>1. parent[a] = "none" /\ task[a] = "off" /\ ~closed[a] /\ ~lost[a] /\ ~pending[a]
      BY <1>0, <1>2, <2>3, <2>7 DEF Shape
    <3>2. parent'[a] = "busy"
      BY <1>2, <2>7, HearDoes
    <3> QED  BY <2>1, <2>2, <2>4, <2>5, <3>1, <3>2 DEF Shape
  <2>8. CASE Head(wire[a]).name # "request"
    <3>1. parent'[a] = parent[a]
      BY <1>2, <2>8, HearDoes
    <3>2. task[a] = "off" /\ ~closed[a] => parent[a] \in {"busy", "killingBuf"}
      BY <1>0, <1>2, <2>6, <3>1, TypesOf DEF Shape, ParentState
    <3>3. task[a] = "off" => ~lost[a] /\ ~pending[a]
      BY <1>0, <1>2 DEF Shape
    <3> QED  BY <1>0, <1>2, <2>1, <2>2, <2>4, <2>5, <2>6, <3>1, <3>2, <3>3 DEF Shape, Alive
  <2> QED  BY <2>7, <2>8
<1>3. ASSUME NEW a, NEW p, Pair(a, p),
             BeginClose(a) \/ BufKilled(a) \/ BeatKilled(a) \/ RecvKilled(a) \/ Throw(a) \/ Crash(a)
      PROVE  Shape(a)' /\ Shape(p)'
  <2>1. /\ Same(p) /\ wire' = wire /\ age'[a] = age[a]
        /\ (lost'[a] <=> lost[a]) /\ (closed[a] => closed'[a]) /\ (up'[a] => up[a])
        /\ task'[a] = task[a] \/ (task'[a] = "ended" /\ parent[a] = "killingBeat")
    BY <1>3, ParentDoes
  <2>2. Shape(p)'
    BY <1>0, <1>3, <2>1, ShapeOfPeer
  <2>3. Peer(a) = p /\ task'[p] = task[p]
    BY <1>3, <2>1 DEF Same, Pair
  <2>4. parent'[a] = "none" <=> parent[a] = "none"
    BY <1>3, ParentDoes DEF Closing
  <2>5. /\ \A i \in 1..Len(wire'[a]) : wire'[a][i].name = "request" => i = 1 /\ parent'[a] = "none"
        /\ up'[a] /\ parent'[a] = "none" => Len(wire'[a]) > 0 /\ wire'[a][1].name = "request"
        /\ \A i \in 1..Len(wire'[a]) : wire'[a][i].name = "hb" => task'[Peer(a)] # "off"
    BY <1>0, <1>3, <2>1, <2>3, <2>4 DEF Shape
  <2>6. /\ parent'[a] = "none" => task'[a] = "off" /\ age'[a] = Never
        /\ parent'[a] \in {"none", "busy", "killingBuf"} => ~closed'[a]
        /\ parent'[a] \in {"killingBeat", "killingRecv", "closed"} => closed'[a]
        /\ parent'[a] \in {"killingRecv", "closed"} => ~Alive(a)'
        /\ parent'[a] = "aborted" => task'[a] = "ended"
        /\ pending'[a] => lost'[a]
        /\ lost'[a] => task'[a] = "ended"
    BY <1>0, <1>3, <2>1, ParentDoes DEF Shape, Alive, Closing
  <2> QED  BY <2>2, <2>5, <2>6 DEF Shape
<1>4. ASSUME NEW x \in End, Advance PROVE Shape(x)'
  <2>1. Pair(x, Peer(x)) /\ Peer(x) \in End
    BY TwoEnds DEF Pair
  <2>2. /\ parent'[x] = parent[x] /\ task'[x] = task[x]
        /\ (lost'[x] <=> lost[x]) /\ (closed'[x] <=> closed[x])
        /\ (pending'[x] <=> pending[x]) /\ (up'[x] <=> up[x])
        /\ age[x] = Never => age'[x] = Never
    BY <1>4, AdvanceDoes DEF Older
  <2>3. task'[Peer(x)] = task[Peer(x)]
    BY <1>4, <2>1, AdvanceDoes
  <2>4. /\ \A i \in 1..Len(wire'[x]) :
             i \in 1..Len(wire[x]) /\ wire'[x][i].name = wire[x][i].name
        /\ up[x] => Len(wire'[x]) = Len(wire[x])
    <3>1. CASE up[x]
      BY <1>4, <3>1, AdvanceDoes
    <3>2. CASE ~up[x]
      BY <1>4, <3>2, AdvanceDoes
    <3> QED  BY <3>1, <3>2
  <2>5. Shape(x)
    BY <1>0, <2>1
  <2>6. up[x] /\ parent[x] = "none" => wire'[x][1].name = "request"
    BY <1>4, <2>4, <2>5, TypesOf DEF Shape
  <2> QED  BY <2>2, <2>3, <2>4, <2>5, <2>6 DEF Shape, Alive
<1>5. ASSUME UNCHANGED vars, NEW x \in End PROVE Shape(x)'
  BY <1>0, <1>5, TwoEnds DEF vars, Shape, Alive
<1>6. ASSUME NEW a \in End, EndStep(a) PROVE \A x \in End : Shape(x)'
  <2>1. Pair(a, Peer(a))
    BY TwoEnds
  <2>2. Shape(a)' /\ Shape(Peer(a))'
    BY <1>1, <1>2, <1>3, <1>6, <2>1 DEF EndStep
  <2> QED  BY <2>1, <2>2 DEF Pair
<1> QED  BY <1>4, <1>5, <1>6 DEF Next

-----------------------------------------------------------------------------
(***************************************************************************)
(* Heartbeats do not crowd the wires.                                      *)
(***************************************************************************)
LEMMA Gaps ==
  /\ Gap(0) = 0
  /\ \A k \in Int : Gap(k) \in Int /\ Gap(k + 1) = Gap(k) + Freq
<1>1. Freq \in Int
  BY Numbers
<1>2. \A k \in Int : k * Freq \in Int /\ (k + 1) * Freq = k * Freq + Freq
  BY <1>1
<1> QED  BY <1>1, <1>2 DEF Gap

SpacedAll == \A x \in End : Spaced(x)

LEMMA SpacedInit == Init => SpacedAll
<1> SUFFICES ASSUME Init, NEW x \in End PROVE Spaced(x)
  BY DEF SpacedAll
<1>1. wire["server"] = <<[name |-> "request", age |-> 0]>> /\ wire["client"] = <<>>
  BY DEF Init, End
<1>2. CASE x = "client"
  BY <1>1, <1>2 DEF Spaced
<1>3. CASE x = "server"
  <2>1. /\ Len(wire["server"]) = 1 /\ wire["server"][1].age = 0
        /\ Peer("server") = "client" /\ timer["client"] = Freq
    BY <1>1 DEF Init, Peer, End
  <2>2. \A i \in 1..1 : i = 1 /\ Gap(1 - i) = 0
    BY Gaps
  <2> QED  BY <1>3, <2>1, <2>2, Numbers DEF Spaced
<1> QED  BY <1>2, <1>3 DEF End

\* The wire of x stays, and so does the heartbeat task at the other end, or it begins
\* or ends.
LEMMA SpacedStays ==
  ASSUME Types, NEW x \in End, NEW y \in End, y = Peer(x), Spaced(x), wire'[x] = wire[x],
         Beating(y)' => timer'[y] = Freq \/ (Beating(y) /\ timer'[y] = timer[y])
  PROVE  Spaced(x)'
<1> SUFFICES ASSUME NEW i \in 1..Len(wire[x])
             PROVE  /\ wire[x][i].age >= Gap(Len(wire[x]) - i)
                    /\ Beating(y)' => wire[x][i].age >= Gap(Len(wire[x]) - i) + Freq - timer'[y]
  BY DEF Spaced
<1>1. /\ wire[x][i].age \in Nat /\ wire[x][i].age >= Gap(Len(wire[x]) - i)
      /\ Beating(y) => wire[x][i].age >= Gap(Len(wire[x]) - i) + Freq - timer[y]
      /\ Len(wire[x]) \in Nat
  BY TypesOf DEF Spaced
<1>2. Gap(Len(wire[x]) - i) \in Int
  BY <1>1, Gaps
<1> QED  BY <1>1, <1>2, Numbers

LEMMA SpacedStep == Types /\ Types' /\ SpacedAll /\ [Next]_vars => SpacedAll'
<1> SUFFICES ASSUME Types, Types', SpacedAll, [Next]_vars PROVE \A x \in End : Spaced(x)'
  BY DEF SpacedAll
<1>0. \A a, p : Pair(a, p) => /\ Spaced(a) /\ Spaced(p) /\ a \in End /\ p \in End
                              /\ p = Peer(a) /\ a = Peer(p)
  BY DEF SpacedAll, Pair
<1>1. ASSUME NEW a, NEW p, Pair(a, p), Beat(a) PROVE Spaced(a)' /\ Spaced(p)'
  <2>1. /\ Beating(a) /\ timer[a] <= 0 /\ Same(p) /\ wire'[a] = wire[a]
        /\ \/ wire'[p] = wire[p] /\ task'[a] \in {"ended", "blocked"}
           \/ wire'[p] = Append(wire[p], Heartbeat) /\ timer'[a] = Freq
    BY <1>1, BeatDoes
  <2>2. Beating(p)' => Beating(p) /\ timer'[p] = timer[p]
    BY <2>1 DEF Same, Beating
  <2>3. Spaced(a)'
    BY <1>0, <1>1, <2>1, <2>2, SpacedStays
  <2>4. CASE wire'[p] = wire[p] /\ task'[a] \in {"ended", "blocked"}
    <3>1. ~Beating(a)'
      BY <2>4 DEF Beating
    <3>2. Spaced(p)'
      BY <1>0, <1>1, <2>4, <3>1, SpacedStays
    <3> QED  BY <2>3, <3>2
  <2>5. CASE wire'[p] = Append(wire[p], Heartbeat) /\ timer'[a] = Freq
    <3> DEFINE n == Len(wire[p])
               older == wire[p]
               newer == wire'[p]
    <3>1. /\ n \in Nat /\ Len(newer) = n + 1
          /\ \A i \in 1..n : newer[i] = older[i]
          /\ newer[n + 1].age = 0
      BY <1>0, <1>1, <2>5, TypesOf, Emitted
    <3>2. ASSUME NEW i \in 1..n + 1 PROVE newer[i].age \in Int /\ newer[i].age >= Gap(n + 1 - i)
      <4>1. CASE i = n + 1
        <5>1. Gap(n + 1 - i) = 0
          BY <3>1, <4>1, Gaps
        <5> QED  BY <3>1, <4>1, <5>1
      <4>2. CASE i \in 1..n
        <5>1. /\ older[i].age \in Nat /\ timer[a] \in Int
              /\ older[i].age >= Gap(n - i) + Freq - timer[a]
          BY <1>0, <1>1, <2>1, <4>2, TypesOf DEF Spaced
        <5>2. n - i \in Int /\ n + 1 - i = (n - i) + 1
          BY <3>1
        <5>3. Gap(n + 1 - i) = Gap(n - i) + Freq /\ Gap(n - i) \in Int
          BY <5>2, Gaps
        <5>4. newer[i] = older[i]
          BY <3>1, <4>2
        <5> HIDE DEF n, older, newer
        <5> QED  BY <2>1, <5>1, <5>3, <5>4, Numbers
      <4> QED  BY <3>1, <4>1, <4>2
    <3>3. ASSUME NEW i \in 1..n + 1 PROVE Gap(n + 1 - i) \in Int
      <4>1. n + 1 - i \in Int
        BY <3>1
      <4> QED  BY <4>1, Gaps
    <3>4. ASSUME NEW i \in 1..n + 1
          PROVE  newer[i].age >= Gap(n + 1 - i) + Freq - timer'[a]
      <4>1. Gap(n + 1 - i) + Freq - timer'[a] = Gap(n + 1 - i)
        BY <2>5, <3>3, Numbers
      <4> QED  BY <3>2, <4>1
    <3>5. Spaced(p)'
      <4>1. \A i \in 1..Len(wire'[p]) :
              /\ wire'[p][i].age >= Gap(Len(wire'[p]) - i)
              /\ wire'[p][i].age >= Gap(Len(wire'[p]) - i) + Freq - timer'[Peer(p)]
        BY <1>0, <1>1, <3>1, <3>2, <3>4
      <4> QED  BY <4>1 DEF Spaced
    <3> QED  BY <2>3, <3>5
  <2> QED  BY <2>1, <2>4, <2>5
<1>2. ASSUME NEW a, NEW p, Pair(a, p), Hear(a) PROVE Spaced(a)' /\ Spaced(p)'
  <2>1. /\ wire[a] # <<>> /\ wire'[a] = Tail(wire[a]) /\ Same(p) /\ wire'[p] = wire[p]
        /\ TaskStays(a) \/ TaskBegins(a)
        /\ up'[a] <=> up[a]
    BY <1>2, HearDoes
  <2>2. Beating(a)' => timer'[a] = Freq \/ (Beating(a) /\ timer'[a] = timer[a])
    BY <2>1 DEF Beating, TaskStays, TaskBegins
  <2>3. Spaced(p)'
    BY <1>0, <1>2, <2>1, <2>2, SpacedStays
  <2>4. /\ Len(wire[a]) \in Nat /\ Len(wire'[a]) = Len(wire[a]) - 1
        /\ \A i \in 1..Len(wire'[a]) : i + 1 \in 1..Len(wire[a]) /\ wire'[a][i] = wire[a][i + 1]
    BY <1>0, <1>2, <2>1, TypesOf, Taken
  <2>5. Beating(p)' => Beating(p) /\ timer'[p] = timer[p]
    BY <2>1 DEF Same, Beating
  <2>6. \A i \in 1..Len(wire'[a]) : Len(wire'[a]) - i = Len(wire[a]) - (i + 1)
    BY <2>4
  <2>7. \A i \in 1..Len(wire'[a]) :
          /\ wire'[a][i].age >= Gap(Len(wire'[a]) - i)
          /\ Beating(p) => wire'[a][i].age >= Gap(Len(wire'[a]) - i) + Freq - timer[p]
    BY <1>0, <1>2, <2>4, <2>6 DEF Spaced
  <2>8. Spaced(a)'
    BY <1>0, <1>2, <2>5, <2>7 DEF Spaced
  <2> QED  BY <2>3, <2>8
<1>3. ASSUME NEW a, NEW p, Pair(a, p),
             BeginClose(a) \/ BufKilled(a) \/ BeatKilled(a) \/ RecvKilled(a) \/ Throw(a) \/ Crash(a)
      PROVE  Spaced(a)' /\ Spaced(p)'
  <2>1. /\ Same(p) /\ wire' = wire /\ timer'[a] = timer[a] /\ (up'[a] => up[a])
        /\ task'[a] = task[a] \/ task'[a] = "ended"
    BY <1>3, ParentDoes
  <2>2. /\ Beating(p)' => Beating(p) /\ timer'[p] = timer[p]
        /\ Beating(a)' => Beating(a) /\ timer'[a] = timer[a]
    BY <2>1 DEF Same, Beating
  <2> QED  BY <1>0, <1>3, <2>1, <2>2, SpacedStays
<1>4. ASSUME NEW x \in End, Advance PROVE Spaced(x)'
  <2>1. CASE ~up[x]
    BY <1>4, <2>1, AdvanceDoes DEF Spaced
  <2>2. CASE up[x]
    <3>1. /\ Len(wire'[x]) = Len(wire[x])
          /\ \A i \in 1..Len(wire[x]) : wire'[x][i].age = wire[x][i].age + 1
      BY <1>4, <2>2, AdvanceDoes
    <3>2. Peer(x) \in End
      BY TwoEnds DEF Pair
    <3>3. Beating(Peer(x))' => Beating(Peer(x)) /\ timer'[Peer(x)] = timer[Peer(x)] - 1
      BY <1>4, <3>2, AdvanceDoes DEF Beating
    <3>4. Len(wire[x]) \in Nat /\ \A i \in 1..Len(wire[x]) : wire[x][i].age \in Nat
      BY TypesOf
    <3>5. ASSUME NEW i \in 1..Len(wire[x]) PROVE Gap(Len(wire[x]) - i) \in Int
      <4>1. Len(wire[x]) - i \in Int
        BY <3>4
      <4> QED  BY <4>1, Gaps
    <3>6. timer[Peer(x)] \in Int
      BY <3>2, TypesOf
    <3>7. Spaced(x)
      BY DEF SpacedAll
    <3>8. ASSUME NEW i \in 1..Len(wire[x])
          PROVE  /\ wire'[x][i].age >= Gap(Len(wire[x]) - i)
                 /\ Beating(Peer(x))' =>
                      wire'[x][i].age >= Gap(Len(wire[x]) - i) + Freq - timer'[Peer(x)]
      <4>1. /\ wire[x][i].age >= Gap(Len(wire[x]) - i)
            /\ Beating(Peer(x)) => wire[x][i].age >= Gap(Len(wire[x]) - i) + Freq - timer[Peer(x)]
        BY <3>7 DEF Spaced
      <4>2. /\ wire'[x][i].age = wire[x][i].age + 1 /\ wire[x][i].age \in Nat
            /\ Gap(Len(wire[x]) - i) \in Int
        BY <3>1, <3>4, <3>5
      <4>3. wire'[x][i].age >= Gap(Len(wire[x]) - i)
        BY <4>1, <4>2
      <4>4. ASSUME Beating(Peer(x))'
            PROVE  wire'[x][i].age >= Gap(Len(wire[x]) - i) + Freq - timer'[Peer(x)]
        <5>1. /\ wire[x][i].age >= Gap(Len(wire[x]) - i) + Freq - timer[Peer(x)]
              /\ timer'[Peer(x)] = timer[Peer(x)] - 1
          BY <3>3, <4>1, <4>4
        <5> QED  BY <3>6, <4>2, <5>1, Numbers
      <4> QED  BY <4>3, <4>4
    <3> QED  BY <3>1, <3>8 DEF Spaced
  <2> QED  BY <2>1, <2>2
<1>5. ASSUME UNCHANGED vars, NEW x \in End PROVE Spaced(x)'
  BY <1>5 DEF vars, Spaced, SpacedAll, Beating
<1>6. ASSUME NEW a \in End, EndStep(a) PROVE \A x \in End : Spaced(x)'
  <2>1. Pair(a, Peer(a))
    BY TwoEnds
  <2>2. Spaced(a)' /\ Spaced(Peer(a))'
    BY <1>1, <1>2, <1>3, <1>6, <2>1 DEF EndStep
  <2> QED  BY <2>1, <2>2 DEF Pair
<1> QED  BY <1>4, <1>5, <1>6 DEF Next

-----------------------------------------------------------------------------
(***************************************************************************)
(* The last heartbeat heard is not old while the peer beats.               *)
(***************************************************************************)
FreshAll == \A x \in End : Fresh(x)

LEMMA FreshInit == Init => FreshAll
<1> SUFFICES ASSUME Init, NEW x \in End, Beating(x) PROVE Unheard(x)
  BY DEF FreshAll, Fresh
<1>1. age[x] = Never /\ task["server"] = "off"
  BY DEF Init, End
<1>2. x = "client"
  BY <1>1 DEF Beating, End
<1> QED  BY <1>1, <1>2 DEF Unheard, Peer

\* A step that only ends what x and its peer y do.
LEMMA FreshStays ==
  ASSUME NEW x \in End, NEW y \in End, y = Peer(x), Fresh(x),
         age'[x] = age[x], wire' = wire, timer'[y] = timer[y], Beating(x)' => Beating(x),
         ~Stopped(y)' => task'[y] = task[y] /\ ~Stopped(y)
  PROVE  Fresh(x)'
BY DEF Fresh, HeardOf, OnItsWay, Unheard, Prompting

LEMMA FreshStep == Types /\ Types' /\ Shapes /\ FreshAll /\ [Next]_vars => FreshAll'
<1> SUFFICES ASSUME Types, Types', Shapes, FreshAll, [Next]_vars
             PROVE  \A x \in End : Fresh(x)'
  BY DEF FreshAll
<1>0. \A a, p : Pair(a, p) => /\ Fresh(a) /\ Fresh(p) /\ Shape(a) /\ Shape(p)
                              /\ a \in End /\ p \in End /\ p = Peer(a) /\ a = Peer(p)
  BY DEF FreshAll, Shapes, Pair
<1>1. ASSUME NEW a, NEW p, Pair(a, p), Beat(a) PROVE Fresh(a)' /\ Fresh(p)'
  <2>1. /\ Beating(a) /\ timer[a] <= 0 /\ Same(p) /\ wire'[a] = wire[a]
        /\ (closed'[a] <=> closed[a]) /\ (up'[a] <=> up[a]) /\ age'[a] = Baseline(a)
        /\ \/ task'[a] \in {"ended", "blocked"}
           \/ wire'[p] = Append(wire[p], Heartbeat) /\ timer'[a] = Freq /\ task'[a] = task[a]
    BY <1>1, BeatDoes
  <2>2. CASE task'[a] \in {"ended", "blocked"}
    <3>1. ~Beating(a)' /\ Stopped(a)'
      BY <2>2 DEF Beating, Stopped
    <3> QED  BY <1>0, <1>1, <3>1 DEF Fresh
  <2>3. CASE wire'[p] = Append(wire[p], Heartbeat) /\ timer'[a] = Freq /\ task'[a] = task[a]
    <3>1. /\ Len(wire'[p]) = Len(wire[p]) + 1 /\ Len(wire[p]) \in Nat
          /\ \A i \in 1..Len(wire[p]) : i \in 1..Len(wire'[p]) /\ wire'[p][i] = wire[p][i]
          /\ Len(wire[p]) + 1 \in 1..Len(wire'[p])
          /\ wire'[p][Len(wire[p]) + 1].name = "hb" /\ wire'[p][Len(wire[p]) + 1].age = 0
      BY <1>0, <1>1, <2>3, TypesOf, Emitted
    <3>2. /\ timer[a] \in Int /\ -Slack <= timer[a] /\ timer[p] \in Int /\ timer[p] <= Freq
          /\ age[a] \in Int /\ age[p] \in Int
      BY <1>0, <1>1, TypesOf, Numbers
    <3>3. Fresh(a)'
      <4> SUFFICES ASSUME ~Stopped(p)'
                   PROVE  (HeardOf(a) \/ OnItsWay(a) \/ Unheard(a) \/ Prompting(a))'
        BY <1>0, <1>1 DEF Fresh
      <4>1. ~Stopped(p)
        BY <2>1 DEF Same, Stopped
      <4>2. HeardOf(a) \/ OnItsWay(a) \/ Unheard(a) \/ Prompting(a)
        BY <1>0, <1>1, <2>1, <4>1 DEF Fresh
      <4>3. /\ age'[a] = IF age[a] = Never THEN 0 ELSE age[a]
            /\ task'[p] = task[p] /\ timer'[p] = timer[p]
        BY <2>1 DEF Same, Baseline
      <4>4. CASE HeardOf(a)
        <5>1. age'[a] <= Freq - timer[p] + Delay
          BY <1>0, <1>1, <3>2, <4>3, <4>4, Numbers DEF HeardOf
        <5> QED  BY <1>0, <1>1, <4>3, <4>4, <5>1 DEF HeardOf
      <4>5. CASE OnItsWay(a)
        <5>1. PICK i \in 1..Len(wire[a]) : /\ wire[a][i].name = "hb"
                                           /\ age[a] <= wire[a][i].age + Freq + Slack + Delay
          BY <4>5 DEF OnItsWay
        <5>2. wire[a][i].age \in Nat
          BY <1>0, <1>1, TypesOf
        <5>3. age'[a] <= wire[a][i].age + Freq + Slack + Delay
          BY <3>2, <4>3, <5>1, <5>2, Numbers
        <5> QED  BY <1>0, <1>1, <2>1, <4>3, <4>5, <5>1, <5>3 DEF OnItsWay
      <4>6. CASE Unheard(a)
        <5>1. age'[a] = 0 /\ task'[p] = "off"
          BY <1>0, <1>1, <4>3, <4>6 DEF Unheard
        <5>2. age'[a] <= wire'[p][Len(wire[p]) + 1].age
          BY <3>1, <5>1
        <5> QED  BY <1>0, <1>1, <3>1, <5>1, <5>2 DEF Prompting
      <4>7. CASE Prompting(a)
        <5>1. PICK i \in 1..Len(wire[p]) : wire[p][i].name = "hb" /\ age[a] <= wire[p][i].age
          BY <1>0, <1>1, <4>7 DEF Prompting
        <5>2. wire[p][i].age \in Nat
          BY <1>0, <1>1, TypesOf
        <5>3. age'[a] <= wire[p][i].age
          BY <3>2, <4>3, <5>1, <5>2
        <5>4. task'[p] = "off"
          BY <1>0, <1>1, <4>3, <4>7 DEF Prompting
        <5> QED  BY <1>0, <1>1, <3>1, <5>1, <5>3, <5>4 DEF Prompting
      <4> QED  BY <4>2, <4>4, <4>5, <4>6, <4>7
    <3>4. Fresh(p)'
      <4> SUFFICES ASSUME Beating(p)', ~Stopped(a)'
                   PROVE  OnItsWay(p)'
        BY <1>0, <1>1 DEF Fresh
      <4>1. Beating(p) /\ ~Stopped(a) /\ task[a] = "sleeping" /\ age'[p] = age[p]
        BY <2>1, <2>3 DEF Same, Stopped, Beating
      <4>2. HeardOf(p) \/ OnItsWay(p)
        BY <1>0, <1>1, <4>1 DEF Fresh, Unheard, Prompting
      <4>3. CASE HeardOf(p)
        <5>1. age[p] <= Freq - timer[a] + Delay
          BY <1>0, <1>1, <4>3 DEF HeardOf
        <5>2. age[p] <= 0 + Freq + Slack + Delay
          BY <3>2, <5>1, Numbers
        <5> QED  BY <1>0, <1>1, <2>3, <3>1, <4>1, <5>2 DEF OnItsWay
      <4>4. CASE OnItsWay(p)
        <5>1. PICK i \in 1..Len(wire[p]) : /\ wire[p][i].name = "hb"
                                           /\ age[p] <= wire[p][i].age + Freq + Slack + Delay
          BY <4>4 DEF OnItsWay
        <5> QED  BY <1>0, <1>1, <2>3, <3>1, <4>1, <5>1 DEF OnItsWay
      <4> QED  BY <4>2, <4>3, <4>4
    <3> QED  BY <3>3, <3>4
  <2> QED  BY <2>1, <2>2, <2>3
<1>2. ASSUME NEW a, NEW p, Pair(a, p), Hear(a) PROVE Fresh(a)' /\ Fresh(p)'
  <2>1. /\ up[a] /\ wire[a] # <<>> /\ wire'[a] = Tail(wire[a]) /\ Same(p) /\ wire'[p] = wire[p]
        /\ (closed'[a] <=> closed[a]) /\ (up'[a] <=> up[a])
        /\ TaskStays(a) \/ TaskBegins(a)
    BY <1>2, HearDoes
  <2>2. /\ Len(wire[a]) \in Nat /\ Len(wire[a]) > 0 /\ Head(wire[a]) = wire[a][1]
        /\ 1 \in 1..Len(wire[a])
        /\ Len(wire'[a]) = Len(wire[a]) - 1
        /\ \A i \in 1..Len(wire'[a]) : i + 1 \in 1..Len(wire[a]) /\ wire'[a][i] = wire[a][i + 1]
    BY <1>0, <1>2, <2>1, TypesOf, Taken
  <2>3. /\ timer[p] \in Int /\ timer[p] <= Freq /\ age[p] \in Int
        /\ task[p] \in TaskState
    BY <1>0, <1>2, TypesOf, Numbers
  <2>4. task'[p] = task[p] /\ timer'[p] = timer[p] /\ age'[p] = age[p]
    BY <2>1 DEF Same
  <2>5. Fresh(a)'
    <3> SUFFICES ASSUME Beating(a)', ~Stopped(p)'
                 PROVE  (HeardOf(a) \/ OnItsWay(a) \/ Unheard(a) \/ Prompting(a))'
      BY <1>0, <1>2 DEF Fresh
    <3>1. ~Stopped(p) /\ task[p] \in {"off", "sleeping"}
      BY <2>1, <2>3 DEF Same, Stopped, TaskState
    <3>2. CASE Head(wire[a]).name = "request"
      <4>1. age'[a] = Never
        BY <1>0, <1>2, <2>2, <3>2, HearDoes DEF Shape
      <4>2. CASE task[p] = "off"
        BY <1>0, <1>2, <2>4, <4>1, <4>2 DEF Unheard
      <4>3. CASE task[p] = "sleeping"
        <5>1. age'[a] <= Freq - timer[p] + Delay
          BY <2>3, <4>1, Numbers
        <5> QED  BY <1>0, <1>2, <2>4, <4>3, <5>1 DEF HeardOf
      <4> QED  BY <3>1, <4>2, <4>3
    <3>3. CASE Head(wire[a]).name # "request"
      <4>1. wire[a][1].name = "hb"
        BY <1>2, <2>2, <3>3, HearDoes
      <4>2. task[p] = "sleeping"
        BY <1>0, <1>2, <2>2, <3>1, <4>1 DEF Shape
      <4>3. parent[a] # "none"
        BY <1>0, <1>2, <2>1, <2>2, <4>1 DEF Shape
      <4>4. Receiving(a)
        <5>1. ASSUME ~Receiving(a) PROVE FALSE
          <6>1. parent[a] \in {"closed", "aborted"}
            BY <1>0, <1>2, <4>3, <5>1, TypesOf DEF Receiving, Closing, ParentState
          <6>2. task[a] \notin {"off", "sleeping"} \/ closed[a]
            BY <1>0, <1>2, <6>1 DEF Shape, Alive
          <6>3. task[a] # "sleeping"
            BY <1>0, <1>2, <6>1 DEF Shape, Alive
          <6> QED  BY <2>1, <6>2, <6>3 DEF TaskStays, TaskBegins, Beating
        <5> QED  BY <5>1
      <4>5. age'[a] = 0
        BY <1>2, <2>2, <4>1, <4>4, HearDoes
      <4>6. age'[a] <= Freq - timer[p] + Delay
        BY <2>3, <4>5, Numbers
      <4> QED  BY <1>0, <1>2, <2>4, <4>2, <4>6 DEF HeardOf
    <3> QED  BY <3>2, <3>3
  <2>6. Fresh(p)'
    <3> SUFFICES ASSUME Beating(p)', ~Stopped(a)'
                 PROVE  (HeardOf(p) \/ OnItsWay(p) \/ Unheard(p) \/ Prompting(p))'
      BY <1>0, <1>2 DEF Fresh
    <3>1. Beating(p) /\ ~Stopped(a)
      BY <2>1 DEF Same, Stopped, Beating, TaskStays, TaskBegins
    <3>2. HeardOf(p) \/ OnItsWay(p) \/ Unheard(p) \/ Prompting(p)
      BY <1>0, <1>2, <3>1 DEF Fresh
    <3>3. CASE TaskStays(a)
      <4>1. task'[a] = task[a] /\ timer'[a] = timer[a]
        BY <3>3 DEF TaskStays
      <4>2. CASE HeardOf(p) \/ OnItsWay(p) \/ Unheard(p)
        BY <1>0, <1>2, <2>1, <2>4, <4>1, <4>2 DEF HeardOf, OnItsWay, Unheard
      <4>3. CASE Prompting(p)
        <5>1. PICK i \in 1..Len(wire[a]) : wire[a][i].name = "hb" /\ age[p] <= wire[a][i].age
          BY <1>0, <1>2, <4>3 DEF Prompting
        <5>2. task[a] = "off" /\ ~closed[a]
          BY <1>0, <1>2, <3>1, <4>3 DEF Prompting, Stopped
        <5>3. i # 1
          <6> SUFFICES ASSUME i = 1 PROVE FALSE
            OBVIOUS
          <6>1. ~Receiving(a)
            BY <1>2, <2>2, <3>3, <5>1, <5>2, HearDoes DEF TaskStays, TaskBegins
          <6>2. parent[a] # "none"
            BY <1>0, <1>2, <2>1, <2>2, <5>1 DEF Shape
          <6>3. parent[a] \in {"closed", "aborted"}
            BY <1>0, <1>2, <6>1, <6>2, TypesOf DEF Receiving, Closing, ParentState
          <6> QED  BY <1>0, <1>2, <5>2, <6>3 DEF Shape
        <5>4. i - 1 \in 1..Len(wire'[a]) /\ wire'[a][i - 1] = wire[a][i]
          BY <2>2, <5>3
        <5> QED  BY <1>0, <1>2, <2>4, <4>1, <5>1, <5>2, <5>4 DEF Prompting
      <4> QED  BY <3>2, <4>2, <4>3
    <3>4. CASE TaskBegins(a)
      <4>1. task[a] = "off" /\ task'[a] = "sleeping" /\ timer'[a] = Freq
        BY <3>4 DEF TaskBegins
      <4>2. Unheard(p) \/ Prompting(p)
        BY <1>0, <1>2, <3>2, <4>1 DEF HeardOf, OnItsWay
      <4>3. age[p] <= Delay
        BY <1>0, <1>2, <2>3, <4>2, TypesOf, Numbers DEF Unheard, Prompting
      <4>4. age'[p] <= Freq - timer'[a] + Delay
        BY <2>3, <2>4, <4>1, <4>3, Numbers
      <4> QED  BY <1>0, <1>2, <4>1, <4>4 DEF HeardOf
    <3> QED  BY <2>1, <3>3, <3>4
  <2> QED  BY <2>5, <2>6
<1>3. ASSUME NEW a, NEW p, Pair(a, p),
             BeginClose(a) \/ BufKilled(a) \/ BeatKilled(a) \/ RecvKilled(a) \/ Throw(a) \/ Crash(a)
      PROVE  Fresh(a)' /\ Fresh(p)'
  <2>1. /\ Same(p) /\ wire' = wire /\ timer'[a] = timer[a] /\ age'[a] = age[a]
        /\ (up'[a] => up[a]) /\ (closed[a] => closed'[a])
        /\ task'[a] = task[a] \/ task'[a] = "ended"
    BY <1>3, ParentDoes
  <2>2. /\ Beating(p)' => Beating(p)
        /\ Beating(a)' => Beating(a)
        /\ ~Stopped(p)' => task'[p] = task[p] /\ ~Stopped(p)
        /\ ~Stopped(a)' => task'[a] = task[a] /\ ~Stopped(a)
        /\ age'[p] = age[p] /\ timer'[p] = timer[p]
    BY <2>1 DEF Same, Beating, Stopped
  <2> QED  BY <1>0, <1>3, <2>1, <2>2, FreshStays
<1>4. ASSUME NEW x \in End, Advance PROVE Fresh(x)'
  <2> DEFINE y == Peer(x)
  <2>0. y \in End /\ Peer(y) = x /\ Fresh(x)
    BY TwoEnds DEF Pair, FreshAll
  <2> SUFFICES ASSUME Beating(x)', ~Stopped(y)'
               PROVE  (HeardOf(x) \/ OnItsWay(x) \/ Unheard(x) \/ Prompting(x))'
    BY DEF Fresh
  <2>1. Beating(x) /\ ~Stopped(y) /\ up[x] /\ up[y] /\ task'[y] = task[y]
    BY <1>4, <2>0, AdvanceDoes DEF Beating, Stopped
  <2>2. HeardOf(x) \/ OnItsWay(x) \/ Unheard(x) \/ Prompting(x)
    BY <2>0, <2>1 DEF Fresh
  <2>3. /\ age[x] \in Int /\ age'[x] \in Int /\ age'[x] <= age[x] + 1
        /\ age[x] = Never => age'[x] = Never
    <3>1. age'[x] = Older(age[x]) /\ age[x] \in Int
      BY <1>4, AdvanceDoes, TypesOf, Numbers
    <3> QED  BY <3>1, Numbers DEF Older
  <2>4. /\ Len(wire'[x]) = Len(wire[x])
        /\ \A i \in 1..Len(wire[x]) : /\ wire'[x][i].name = wire[x][i].name
                                      /\ wire'[x][i].age = wire[x][i].age + 1
                                      /\ wire[x][i].age \in Nat
    BY <1>4, <2>1, AdvanceDoes, TypesOf
  <2>5. /\ Len(wire'[y]) = Len(wire[y])
        /\ \A i \in 1..Len(wire[y]) : /\ wire'[y][i].name = wire[y][i].name
                                      /\ wire'[y][i].age = wire[y][i].age + 1
                                      /\ wire[y][i].age \in Nat
    BY <1>4, <2>0, <2>1, AdvanceDoes, TypesOf
  <2>6. CASE HeardOf(x)
    <3>1. Beating(y) /\ task[y] = "sleeping" /\ age[x] <= Freq - timer[y] + Delay
      BY <2>1, <2>6 DEF HeardOf, Beating
    <3>2. timer'[y] = timer[y] - 1 /\ timer[y] \in Int
      BY <1>4, <2>0, <3>1, AdvanceDoes, TypesOf
    <3>3. age'[x] <= Freq - timer'[y] + Delay
      BY <2>3, <3>1, <3>2, Numbers
    <3> QED  BY <2>1, <3>1, <3>3 DEF HeardOf
  <2>7. CASE OnItsWay(x)
    <3>1. PICK i \in 1..Len(wire[x]) : /\ wire[x][i].name = "hb"
                                       /\ age[x] <= wire[x][i].age + Freq + Slack + Delay
      BY <2>7 DEF OnItsWay
    <3>2. /\ wire'[x][i].name = "hb" /\ wire'[x][i].age = wire[x][i].age + 1
          /\ wire[x][i].age \in Nat /\ i \in 1..Len(wire'[x])
      BY <2>4, <3>1
    <3>3. age'[x] <= wire'[x][i].age + Freq + Slack + Delay
      <4>1. ASSUME NEW m \in Int, NEW n \in Int, NEW w \in Nat, m <= w + Freq + Slack + Delay, n <= m + 1
            PROVE  n <= w + 1 + Freq + Slack + Delay
        BY <4>1, Numbers
      <4> QED  BY <2>3, <3>1, <3>2, <4>1
    <3> QED  BY <2>1, <2>7, <3>2, <3>3 DEF OnItsWay
  <2>8. CASE Unheard(x)
    BY <2>1, <2>3, <2>8 DEF Unheard
  <2>9. CASE Prompting(x)
    <3>1. PICK i \in 1..Len(wire[y]) : wire[y][i].name = "hb" /\ age[x] <= wire[y][i].age
      BY <2>9 DEF Prompting
    <3>2. /\ wire'[y][i].name = "hb" /\ wire'[y][i].age = wire[y][i].age + 1
          /\ wire[y][i].age \in Nat /\ i \in 1..Len(wire'[y])
      BY <2>5, <3>1
    <3>3. age'[x] <= wire'[y][i].age
      BY <2>3, <3>1, <3>2
    <3> QED  BY <2>1, <2>9, <3>2, <3>3 DEF Prompting
  <2> QED  BY <2>2, <2>6, <2>7, <2>8, <2>9
<1>5. ASSUME UNCHANGED vars, NEW x \in End PROVE Fresh(x)'
  <2>1. Pair(x, Peer(x)) /\ Fresh(x)
    BY TwoEnds DEF FreshAll
  <2>2. /\ age' = age /\ wire' = wire /\ timer' = timer /\ task' = task
        /\ up' = up /\ closed' = closed
    BY <1>5 DEF vars
  <2> QED  BY <2>1, <2>2, FreshStays DEF Pair, Beating, Stopped
<1>6. ASSUME NEW a \in End, EndStep(a) PROVE \A x \in End : Fresh(x)'
  <2>1. Pair(a, Peer(a))
    BY TwoEnds
  <2>2. Fresh(a)' /\ Fresh(Peer(a))'
    BY <1>1, <1>2, <1>3, <1>6, <2>1 DEF EndStep
  <2> QED  BY <2>1, <2>2 DEF Pair
<1> QED  BY <1>4, <1>5, <1>6 DEF Next

-----------------------------------------------------------------------------
(***************************************************************************)
(* What follows.                                                           *)
(***************************************************************************)
\* The invariant of the whole, whatever the delays.
IInv == Types /\ Shapes /\ SpacedAll /\ FreshAll

LEMMA Safe == Spec => []IInv
<1>1. Init => IInv
  BY TypesInit, ShapeInit, SpacedInit, FreshInit DEF IInv
<1>2. IInv /\ [Next]_vars => IInv'
  BY TypesStep, ShapeStep, SpacedStep, FreshStep DEF IInv
<1> QED  BY <1>1, <1>2, PTL DEF Spec

\* A channel that is closed has stopped beating, even when LostRemote cut
\* HeartBeatOnChannel.close short.
THEOREM ClosedCorrect == Spec => []ClosedStopsBeating
<1>1. IInv => ClosedStopsBeating
  BY DEF IInv, Shapes, Shape, Alive, ClosedStopsBeating
<1> QED  BY <1>1, Safe, PTL

\* An end whose peer is still there does not find its last heartbeat too old.
LEMMA AlarmIsDue ==
  ASSUME 2 * Delay + Slack <= Freq, Types, NEW x \in End, Fresh(x), Beating(x),
         TooOld(Baseline(x))
  PROVE  Stopped(Peer(x))
<1> DEFINE y == Peer(x)
<1> SUFFICES ASSUME ~Stopped(y) PROVE FALSE
  OBVIOUS
<1>1. y \in End
  BY TwoEnds DEF Pair
<1>2. age[x] \in Nat /\ age[x] > 2 * Freq
  <2>1. age[x] \in Never..2 * Freq + 1
    BY TypesOf
  <2> QED  BY <2>1, Numbers DEF TooOld, Baseline
<1>3. timer[y] \in Int /\ -Slack <= timer[y]
  BY <1>1, TypesOf
<1>4. \A e \in End : \A i \in 1..Len(wire[e]) : wire[e][i].age \in Nat /\ wire[e][i].age <= Delay
  BY TypesOf
<1>5. ~HeardOf(x)
  BY <1>2, <1>3, Numbers DEF HeardOf
<1>6. ~OnItsWay(x)
  BY <1>2, <1>4, Numbers DEF OnItsWay
<1>7. ~Unheard(x)
  BY <1>2, Numbers DEF Unheard
<1>8. ~Prompting(x)
  BY <1>1, <1>2, <1>4, Numbers DEF Prompting
<1> QED  BY <1>5, <1>6, <1>7, <1>8 DEF Fresh

LEMMA AlarmStep ==
  ASSUME 2 * Delay + Slack <= Freq
  PROVE  IInv /\ NoFalseAlarm /\ [Next]_vars => NoFalseAlarm'
<1> SUFFICES ASSUME Types, FreshAll, NoFalseAlarm, [Next]_vars, NEW x \in End, lost'[x]
             PROVE  Stopped(Peer(x))'
  BY DEF IInv, NoFalseAlarm
<1> DEFINE y == Peer(x)
<1>1. Pair(x, y) /\ Pair(y, x) /\ y \in End
  BY TwoEnds DEF Pair
<1>2. Fresh(x) /\ (lost[x] => Stopped(y))
  BY DEF FreshAll, NoFalseAlarm
<1>3. CASE Beat(x)
  <2>1. Beating(x) /\ Same(y) /\ (lost[x] \/ TooOld(Baseline(x)))
    BY <1>1, <1>3, BeatDoes
  <2>2. Stopped(y)
    BY <1>2, <2>1, AlarmIsDue
  <2> QED  BY <2>1, <2>2 DEF Same, Stopped
<1>4. CASE Beat(y)
  <2>1. /\ Same(x) /\ Beating(y) /\ (closed'[y] <=> closed[y]) /\ (up'[y] <=> up[y])
    BY <1>1, <1>4, BeatDoes
  <2> QED  BY <1>2, <2>1 DEF Same, Stopped, Beating
<1>5. CASE Hear(x)
  <2>1. Same(y) /\ (lost'[x] <=> lost[x])
    BY <1>1, <1>5, HearDoes
  <2> QED  BY <1>2, <2>1 DEF Same, Stopped
<1>6. CASE Hear(y)
  <2>1. /\ Same(x) /\ (closed'[y] <=> closed[y]) /\ (up'[y] <=> up[y])
        /\ TaskStays(y) \/ TaskBegins(y)
    BY <1>1, <1>6, HearDoes
  <2>2. up[y]
    BY <1>6 DEF Hear
  <2> QED  BY <1>2, <2>1, <2>2 DEF Same, Stopped, TaskStays, TaskBegins
<1>7. CASE BeginClose(x) \/ BufKilled(x) \/ BeatKilled(x) \/ RecvKilled(x) \/ Throw(x) \/ Crash(x)
  <2>1. Same(y) /\ (lost'[x] <=> lost[x])
    BY <1>1, <1>7, ParentDoes
  <2> QED  BY <1>2, <2>1 DEF Same, Stopped
<1>8. CASE BeginClose(y) \/ BufKilled(y) \/ BeatKilled(y) \/ RecvKilled(y) \/ Throw(y) \/ Crash(y)
  <2>1. /\ Same(x) /\ (up'[y] => up[y]) /\ (closed[y] => closed'[y])
        /\ task'[y] = task[y] \/ task'[y] = "ended"
    BY <1>1, <1>8, ParentDoes
  <2> QED  BY <1>2, <2>1 DEF Same, Stopped
<1>9. CASE Advance
  <2>1. /\ lost'[x] <=> lost[x]
        /\ task'[y] = task[y] /\ (up'[y] <=> up[y]) /\ (closed'[y] <=> closed[y])
    BY <1>1, <1>9, AdvanceDoes
  <2> QED  BY <1>2, <2>1 DEF Stopped
<1>10. CASE UNCHANGED vars
  BY <1>2, <1>10 DEF vars, Stopped
<1>11. CASE \E a \in End : EndStep(a)
  <2>1. EndStep(x) \/ EndStep(y)
    BY <1>1, <1>11 DEF Pair
  <2> QED  BY <2>1, <1>3, <1>4, <1>5, <1>6, <1>7, <1>8 DEF EndStep
<1> QED  BY <1>9, <1>10, <1>11 DEF Next

\* An end declares its peer lost only when that one crashed, closed, blocked in its
\* emission or gave up, if two delays and a lateness make no more than an interval:
\* a heartbeat that is late and delayed, after one that was not, is still in time.
THEOREM NoFalseAlarmCorrect ==
  ASSUME 2 * Delay + Slack <= Freq
  PROVE  Spec => []NoFalseAlarm
<1>1. Init => NoFalseAlarm
  BY DEF Init, NoFalseAlarm
<1>2. IInv /\ NoFalseAlarm /\ [Next]_vars => NoFalseAlarm'
  BY AlarmStep
<1> QED  BY <1>1, <1>2, Safe, PTL DEF Spec
-----------------------------------------------------------------------------
(***************************************************************************)
(* The silence of a peer is noticed.                                       *)
(***************************************************************************)
SilentAll == \A x \in End : Silent(x)

LEMMA SilentInit == Init => SilentAll
<1> SUFFICES ASSUME Init, NEW x \in End PROVE Silent(x)
  BY DEF SilentAll
<1>1. silence[x] = 0 /\ timer[x] = Freq /\ age[x] = Never
  BY DEF Init
<1>2. \A i \in 1..Len(wire[x]) : wire[x][i].name # "hb"
  <2>1. wire["server"] = <<[name |-> "request", age |-> 0]>> /\ wire["client"] = <<>>
    BY DEF Init, End
  <2>2. Len(wire["server"]) = 1 /\ wire["server"][1].name # "hb"
    BY <2>1
  <2> QED  BY <2>1, <2>2 DEF End
<1>3. silence[x] <= Bound /\ silence[x] <= 4 * Freq + Slack - timer[x] /\ ~(age[x] \in 0..2 * Freq)
  BY <1>1, Numbers
<1> QED  BY <1>1, <1>2, <1>3, Numbers DEF Silent

\* A step that leaves x alone, and its peer y not more there than it was.
LEMMA SilentStays ==
  ASSUME NEW x \in End, NEW y \in End, y = Peer(x), Silent(x),
         silence'[x] = silence[x], age'[x] = age[x], timer'[x] = timer[x],
         Beating(x)' => Beating(x), task'[x] = "off" => task[x] = "off",
         \A i \in 1..Len(wire'[x]) : \/ wire'[x][i].name # "hb"
                                     \/ silence[x] <= wire'[x][i].age
                                     \/ i \in 1..Len(wire[x]) /\ wire'[x][i] = wire[x][i],
         ~Stopped(y)' \/ Beating(y)' => ~Stopped(y) \/ Beating(y)
  PROVE  Silent(x)'
BY DEF Silent

LEMMA SilentStep ==
  ASSUME Delay <= Freq + Slack
  PROVE  Types /\ Types' /\ Shapes /\ SilentAll /\ [Next]_vars => SilentAll'
<1> SUFFICES ASSUME Types, Types', Shapes, SilentAll, [Next]_vars
             PROVE  \A x \in End : Silent(x)'
  BY DEF SilentAll
<1>0. \A a, p : Pair(a, p) => /\ Silent(a) /\ Silent(p) /\ Shape(a) /\ Shape(p)
                              /\ a \in End /\ p \in End /\ p = Peer(a) /\ a = Peer(p)
  BY DEF SilentAll, Shapes, Pair
<1>1. ASSUME NEW a, NEW p, Pair(a, p), Beat(a) PROVE Silent(a)' /\ Silent(p)'
  <2>1. /\ Beating(a) /\ timer[a] <= 0 /\ Same(p) /\ wire'[a] = wire[a]
        /\ (closed'[a] <=> closed[a]) /\ (up'[a] <=> up[a]) /\ age'[a] = Baseline(a)
        /\ silence'[a] = silence[a]
        /\ \/ task'[a] \in {"ended", "blocked"} /\ wire'[p] = wire[p]
           \/ /\ wire'[p] = Append(wire[p], Heartbeat) /\ timer'[a] = Freq
              /\ task'[a] = task[a] /\ ~TooOld(Baseline(a))
    BY <1>1, BeatDoes
  <2>2. silence[p] = 0 /\ silence'[p] = 0
    BY <1>0, <1>1, <2>1 DEF Silent, Same
  <2>3. Silent(p)'
    <3>1. /\ silence'[p] = silence[p] /\ age'[p] = age[p] /\ timer'[p] = timer[p]
          /\ Beating(p)' => Beating(p)
          /\ task'[p] = "off" => task[p] = "off"
      BY <2>1 DEF Same, Beating
    <3>2. \A i \in 1..Len(wire'[p]) : silence[p] <= wire'[p][i].age
      <4>1. \A i \in 1..Len(wire[p]) : wire[p][i].age \in Nat
        BY <1>0, <1>1, TypesOf
      <4>2. CASE wire'[p] = wire[p]
        BY <2>2, <4>1, <4>2
      <4>3. CASE wire'[p] = Append(wire[p], Heartbeat)
        <5>1. /\ Len(wire[p]) \in Nat /\ Len(wire'[p]) = Len(wire[p]) + 1
              /\ \A i \in 1..Len(wire[p]) : wire'[p][i] = wire[p][i]
              /\ wire'[p][Len(wire[p]) + 1].age = 0
          BY <1>0, <1>1, <4>3, TypesOf, Emitted
        <5> QED  BY <2>2, <4>1, <5>1
      <4> QED  BY <2>1, <4>2, <4>3
    <3>3. ~Stopped(a) \/ Beating(a)
      BY <2>1
    <3> QED  BY <1>0, <1>1, <3>1, <3>2, <3>3, SilentStays
  <2>4. /\ silence[a] <= Bound /\ task[a] = "sleeping"
        /\ ~Stopped(p)' \/ Beating(p)' => silence'[a] = 0
        /\ \A i \in 1..Len(wire'[a]) : wire'[a][i].name = "hb" => silence'[a] <= wire'[a][i].age
    BY <1>0, <1>1, <2>1 DEF Silent, Same, Stopped, Beating
  <2>5. CASE task'[a] \in {"ended", "blocked"}
    BY <1>0, <1>1, <2>1, <2>3, <2>4, <2>5 DEF Silent, Beating
  <2>6. CASE timer'[a] = Freq /\ task'[a] = task[a] /\ ~TooOld(Baseline(a))
    <3>1. /\ age[a] \in Never..2 * Freq + 1 /\ timer[a] \in Int /\ -Slack <= timer[a]
          /\ silence[a] \in Nat
      BY <1>0, <1>1, TypesOf
    <3>2. /\ age[a] = Never => silence[a] <= Freq - timer[a]
          /\ age[a] \in 0..2 * Freq => silence[a] <= age[a] + Freq + Slack
      BY <1>0, <1>1, <2>1 DEF Silent
    <3>3. age'[a] \in 0..2 * Freq /\ silence'[a] <= age'[a] + Freq + Slack
      <4>1. CASE age[a] = Never
        BY <2>1, <3>1, <3>2, <4>1, Numbers DEF Baseline
      <4>2. CASE age[a] # Never
        <5>1. age'[a] = age[a] /\ age[a] \in 0..2 * Freq
          BY <2>1, <2>6, <3>1, <4>2, Numbers DEF Baseline, TooOld
        <5> QED  BY <2>1, <3>2, <5>1
      <4> QED  BY <4>1, <4>2
    <3>4. silence'[a] <= 4 * Freq + Slack - timer'[a]
      BY <2>1, <2>6, <3>1, <3>3, Numbers
    <3>5. age'[a] # Never
      BY <3>3, Numbers
    <3> QED  BY <1>0, <1>1, <2>1, <2>3, <2>4, <2>6, <3>3, <3>4, <3>5 DEF Silent
  <2> QED  BY <2>1, <2>3, <2>5, <2>6
<1>2. ASSUME NEW a, NEW p, Pair(a, p), Hear(a) PROVE Silent(a)' /\ Silent(p)'
  <2>1. /\ up[a] /\ wire[a] # <<>> /\ wire'[a] = Tail(wire[a]) /\ Same(p) /\ wire'[p] = wire[p]
        /\ (closed'[a] <=> closed[a]) /\ (up'[a] <=> up[a])
        /\ TaskStays(a) \/ TaskBegins(a)
        /\ silence'[a] = silence[a]
    BY <1>2, HearDoes
  <2>2. /\ Len(wire[a]) \in Nat /\ Len(wire[a]) > 0 /\ Head(wire[a]) = wire[a][1]
        /\ 1 \in 1..Len(wire[a])
        /\ Len(wire'[a]) = Len(wire[a]) - 1
        /\ \A i \in 1..Len(wire'[a]) : i + 1 \in 1..Len(wire[a]) /\ wire'[a][i] = wire[a][i + 1]
    BY <1>0, <1>2, <2>1, TypesOf, Taken
  <2>3. Silent(p)'
    <3>1. /\ silence'[p] = silence[p] /\ age'[p] = age[p] /\ timer'[p] = timer[p]
          /\ Beating(p)' => Beating(p)
          /\ task'[p] = "off" => task[p] = "off"
      BY <2>1 DEF Same, Beating
    <3>2. ~Stopped(a)' \/ Beating(a)' => ~Stopped(a) \/ Beating(a)
      BY <2>1 DEF Stopped, Beating, TaskStays, TaskBegins
    <3> QED  BY <1>0, <1>2, <2>1, <3>1, <3>2, SilentStays
  <2>4. /\ silence'[a] <= Bound
        /\ task'[a] = "off" => silence'[a] = 0
        /\ ~Stopped(p)' \/ Beating(p)' => silence'[a] = 0
        /\ \A i \in 1..Len(wire'[a]) : wire'[a][i].name = "hb" => silence'[a] <= wire'[a][i].age
    <3>1. Silent(a)
      BY <1>0, <1>2
    <3>2. task'[a] = "off" => silence'[a] = 0
      BY <2>1, <3>1 DEF Silent, TaskStays, TaskBegins
    <3>3. ~Stopped(p)' \/ Beating(p)' => silence'[a] = 0
      BY <1>0, <1>2, <2>1, <3>1 DEF Silent, Same, Stopped, Beating
    <3> QED  BY <2>1, <2>2, <3>1, <3>2, <3>3 DEF Silent
  <2>5. /\ silence[a] \in Nat /\ (age'[a] = age[a] \/ age'[a] = 0)
        /\ timer[a] \in Int /\ age[a] \in Int
    BY <1>0, <1>2, TypesOf, HearDoes, Numbers
  <2>6. ASSUME Beating(a)'
        PROVE  /\ age'[a] = Never => silence'[a] <= Freq - timer'[a]
               /\ age'[a] \in 0..2 * Freq => silence'[a] <= age'[a] + Freq + Slack
               /\ silence'[a] <= 4 * Freq + Slack - timer'[a]
    <3>1. CASE TaskBegins(a)
      <4>1. silence'[a] = 0 /\ timer'[a] = Freq
        BY <1>0, <1>2, <2>1, <3>1 DEF Silent, TaskBegins
      <4> QED  BY <4>1, Numbers
    <3>2. CASE TaskStays(a)
      <4>1. Beating(a) /\ timer'[a] = timer[a]
        BY <2>1, <2>6, <3>2 DEF Beating, TaskStays
      <4>2. /\ age[a] = Never => silence[a] <= Freq - timer[a]
            /\ age[a] \in 0..2 * Freq => silence[a] <= age[a] + Freq + Slack
            /\ silence[a] <= 4 * Freq + Slack - timer[a]
        BY <1>0, <1>2, <4>1 DEF Silent
      <4>3. CASE age'[a] = age[a]
        BY <2>1, <4>1, <4>2, <4>3
      <4>4. CASE age'[a] # age[a]
        <5>1. wire[a][1].name = "hb" /\ age'[a] = 0
          BY <1>2, <2>2, <4>4, HearDoes
        <5>2. silence[a] <= wire[a][1].age /\ wire[a][1].age \in Nat /\ wire[a][1].age <= Delay
          BY <1>0, <1>2, <2>2, <5>1, TypesOf DEF Silent
        <5>3. silence[a] <= Freq + Slack
          BY <2>5, <5>2, Numbers
        <5> QED  BY <2>1, <2>5, <4>1, <4>2, <5>1, <5>3, Numbers
      <4> QED  BY <4>3, <4>4
    <3> QED  BY <2>1, <3>1, <3>2
  <2>7. Silent(a)'
    BY <1>0, <1>2, <2>4, <2>6 DEF Silent
  <2> QED  BY <2>3, <2>7
<1>3. ASSUME NEW a, NEW p, Pair(a, p),
             BeginClose(a) \/ BufKilled(a) \/ BeatKilled(a) \/ RecvKilled(a) \/ Throw(a) \/ Crash(a)
      PROVE  Silent(a)' /\ Silent(p)'
  <2>1. /\ Same(p) /\ wire' = wire /\ timer'[a] = timer[a] /\ age'[a] = age[a]
        /\ (up'[a] => up[a]) /\ (closed[a] => closed'[a]) /\ silence'[a] = silence[a]
        /\ task'[a] = task[a] \/ task'[a] = "ended"
    BY <1>3, ParentDoes
  <2>2. /\ Beating(p)' => Beating(p)
        /\ Beating(a)' => Beating(a)
        /\ ~Stopped(p)' => ~Stopped(p)
        /\ ~Stopped(a)' => ~Stopped(a)
        /\ age'[p] = age[p] /\ timer'[p] = timer[p] /\ silence'[p] = silence[p]
        /\ task'[p] = "off" => task[p] = "off"
        /\ task'[a] = "off" => task[a] = "off"
    BY <2>1 DEF Same, Beating, Stopped
  <2> QED  BY <1>0, <1>3, <2>1, <2>2, SilentStays
<1>4. ASSUME NEW x \in End, Advance PROVE Silent(x)'
  <2> DEFINE y == Peer(x)
  <2>0. y \in End /\ Peer(y) = x /\ Silent(x) /\ Shape(y)
    BY TwoEnds DEF Pair, SilentAll, Shapes
  <2>1. /\ task'[x] = task[x] /\ (up'[x] <=> up[x]) /\ age'[x] = Older(age[x])
        /\ task'[y] = task[y] /\ (up'[y] <=> up[y]) /\ (closed'[y] <=> closed[y])
        /\ IF Beating(x) THEN timer'[x] = timer[x] - 1 /\ timer[x] > -Slack
                         ELSE timer'[x] = timer[x]
        /\ IF Beating(x) /\ Stopped(y) /\ silence[x] <= Bound
           THEN silence'[x] = silence[x] + 1 ELSE silence'[x] = silence[x]
    BY <1>4, <2>0, AdvanceDoes
  <2>2. /\ (Beating(x)' <=> Beating(x)) /\ (Beating(y)' <=> Beating(y))
        /\ (Stopped(y)' <=> Stopped(y))
    BY <2>1 DEF Beating, Stopped
  <2>3. Beating(y) => ~Stopped(y)
    <3>1. ASSUME Beating(y), Stopped(y) PROVE FALSE
      <4>1. closed[y] /\ up[y] /\ task[y] = "sleeping"
        BY <3>1 DEF Beating, Stopped
      <4>2. ~Closing(y)
        BY <1>4, <2>0, <4>1, AdvanceDoes
      <4> QED  BY <2>0, <4>1, <4>2, TypesOf DEF Shape, Alive, Closing, ParentState
    <3> QED  BY <3>1
  <2>4. /\ silence[x] \in Nat /\ timer[x] \in Int /\ age[x] \in Never..2 * Freq + 1
        /\ silence'[x] \in Nat /\ silence'[x] <= silence[x] + 1
    BY <2>1, TypesOf
  <2>5. silence'[x] <= Bound
    <3>1. CASE Beating(x)
      <4>1. silence[x] <= 4 * Freq + Slack - timer[x] /\ timer[x] > -Slack
        BY <2>0, <2>1, <3>1 DEF Silent
      <4> QED  BY <2>4, <4>1, Numbers
    <3>2. CASE ~Beating(x)
      BY <2>0, <2>1, <3>2 DEF Silent
    <3> QED  BY <3>1, <3>2
  <2>6. task'[x] = "off" => silence'[x] = 0
    BY <2>0, <2>1 DEF Silent, Beating
  <2>7. ~Stopped(y)' \/ Beating(y)' => silence'[x] = 0
    BY <2>0, <2>1, <2>2, <2>3 DEF Silent
  <2>8. \A i \in 1..Len(wire'[x]) : wire'[x][i].name = "hb" => silence'[x] <= wire'[x][i].age
    <3>1. CASE ~up[x]
      BY <1>4, <3>1, AdvanceDoes
    <3>2. CASE up[x]
      <4> SUFFICES ASSUME NEW i \in 1..Len(wire[x]), wire'[x][i].name = "hb"
                   PROVE  silence'[x] <= wire'[x][i].age
        BY <1>4, <3>2, AdvanceDoes
      <4>1. /\ wire[x][i].name = "hb" /\ wire'[x][i].age = wire[x][i].age + 1
            /\ wire[x][i].age \in Nat
        BY <1>4, <3>2, AdvanceDoes, TypesOf
      <4>2. silence[x] <= wire[x][i].age
        BY <2>0, <4>1 DEF Silent
      <4> QED  BY <2>4, <4>1, <4>2
    <3> QED  BY <3>1, <3>2
  <2>9. ASSUME Beating(x)'
        PROVE  /\ age'[x] = Never => silence'[x] <= Freq - timer'[x]
               /\ age'[x] \in 0..2 * Freq => silence'[x] <= age'[x] + Freq + Slack
               /\ silence'[x] <= 4 * Freq + Slack - timer'[x]
    <3>1. /\ age[x] = Never => silence[x] <= Freq - timer[x]
          /\ age[x] \in 0..2 * Freq => silence[x] <= age[x] + Freq + Slack
          /\ silence[x] <= 4 * Freq + Slack - timer[x]
          /\ timer'[x] = timer[x] - 1
      BY <2>0, <2>1, <2>2, <2>9 DEF Silent
    <3>2. age'[x] = Never => age[x] = Never
      BY <2>1, <2>4, Numbers DEF Older
    <3>3. age'[x] \in 0..2 * Freq => age[x] \in 0..2 * Freq /\ age'[x] = age[x] + 1
      BY <2>1, <2>4, Numbers DEF Older
    <3>4. age'[x] = Never => silence'[x] <= Freq - timer'[x]
      BY <2>4, <3>1, <3>2, Numbers
    <3>5. age'[x] \in 0..2 * Freq => silence'[x] <= age'[x] + Freq + Slack
      BY <2>4, <3>1, <3>3, Numbers
    <3>6. silence'[x] <= 4 * Freq + Slack - timer'[x]
      BY <2>4, <3>1, Numbers
    <3> QED  BY <3>4, <3>5, <3>6
  <2> QED  BY <2>5, <2>6, <2>7, <2>8, <2>9 DEF Silent
<1>5. ASSUME UNCHANGED vars, NEW x \in End PROVE Silent(x)'
  BY <1>5 DEF vars, Silent, SilentAll, Beating, Stopped
<1>6. ASSUME NEW a \in End, EndStep(a) PROVE \A x \in End : Silent(x)'
  <2>1. Pair(a, Peer(a))
    BY TwoEnds
  <2>2. Silent(a)' /\ Silent(Peer(a))'
    BY <1>1, <1>2, <1>3, <1>6, <2>1 DEF EndStep
  <2> QED  BY <2>1, <2>2 DEF Pair
<1> QED  BY <1>4, <1>5, <1>6 DEF Next

\* An end that beats notices within four intervals and two latenesses that its peer
\* stopped, if no event is longer on the wire than an interval and a lateness.
THEOREM LossDetectedCorrect ==
  ASSUME Delay <= Freq + Slack
  PROVE  Spec => []LossDetected
<1>1. Init => SilentAll
  BY SilentInit
<1>2. IInv /\ IInv' /\ SilentAll /\ [Next]_vars => SilentAll'
  BY SilentStep DEF IInv
<1>3. SilentAll => LossDetected
  BY DEF SilentAll, Silent, LossDetected
<1> QED  BY <1>1, <1>2, <1>3, Safe, PTL DEF Spec

-----------------------------------------------------------------------------
(***************************************************************************)
(* The type invariant: no wire is crowded.                                 *)
(***************************************************************************)
LEMMA Uncrowded ==
  ASSUME Types, NEW x \in End, Spaced(x)
  PROVE  Len(wire[x]) <= WireBound
<1> DEFINE n == Len(wire[x])
<1>0. n \in Nat /\ WireBound \in Nat
  <2>1. Delay \div Freq \in Nat
    BY Numbers
  <2> QED  BY <2>1, TypesOf DEF WireBound
<1> SUFFICES ASSUME n > 0 PROVE n <= WireBound
  BY <1>0
<1>1. n \in Nat /\ wire[x][1].age \in Nat /\ wire[x][1].age <= Delay
  BY TypesOf
<1>2. wire[x][1].age >= (n - 1) * Freq
  BY <1>1 DEF Spaced, Gap
<1> DEFINE k == n - 1
           q == Delay \div Freq
<1>3. k \in Nat /\ k * Freq <= Delay
  <2>1. k \in Nat /\ k * Freq \in Int
    BY <1>1, Numbers
  <2> QED  BY <1>1, <1>2, <2>1, Numbers
<1>4. q \in Nat /\ Delay < (q + 1) * Freq
  BY Numbers
<1> HIDE DEF k, q
<1>5. k <= q
  <2> SUFFICES ASSUME k >= q + 1 PROVE FALSE
    BY <1>3, <1>4
  <2>1. k * Freq >= (q + 1) * Freq
    BY <1>3, <1>4, Numbers
  <2> QED  BY <1>3, <1>4, <2>1, Numbers
<1> QED  BY <1>1, <1>4, <1>5 DEF k, q, WireBound

\* A wire as a sequence of bounded length.
LEMMA Bounded ==
  ASSUME NEW s \in Seq(Event), Len(s) <= WireBound
  PROVE  s \in BoundedSeq(Event, WireBound)
<1>1. Len(s) \in Nat /\ s \in [1..Len(s) -> Event]
  BY LenProperties
<1>2. WireBound \in Nat
  BY Numbers DEF WireBound
<1>3. Len(s) \in 0..WireBound
  BY <1>1, <1>2
<1> QED  BY <1>1, <1>3 DEF BoundedSeq, SeqOf

\* The type invariant, with the bound on the events that are under way to an end at
\* once: heartbeats are sent Freq apart.
THEOREM TypeCorrect == Spec => []TypeOK
<1>1. IInv => TypeOK
  <2> SUFFICES ASSUME IInv PROVE TypeOK
    OBVIOUS
  <2>1. Types /\ \A x \in End : Spaced(x)
    BY DEF IInv, SpacedAll
  <2>2. \A x \in End : wire[x] \in BoundedSeq(Event, WireBound)
    BY <2>1, TypesOf, Uncrowded, Bounded
  <2>3. wire \in [End -> BoundedSeq(Event, WireBound)]
    BY <2>1, <2>2 DEF Types
  <2> QED  BY <2>1, <2>3 DEF Types, TypeOK, TaskState
<1> QED  BY <1>1, Safe, PTL

===============================================================================
