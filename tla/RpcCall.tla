------------------------------- MODULE RpcCall -------------------------------
(***************************************************************************)
(* One remote call, from ClientBase.__call__ to the end of the task that   *)
(* serves it (zerorpc/core.py), with the two patterns an answer follows    *)
(* (zerorpc/patterns.py): a reply, or a stream read through an iterator.   *)
(*                                                                         *)
(* The buffered channel between them is what BufferedChannel says of it: a *)
(* FIFO under a credit window, whose receiving greenlet fills the client's *)
(* queue and may close the channel by on_close_if.  The heartbeat below is *)
(* what HeartBeat says of it: it declares an end lost that stopped beating *)
(* (a falsely declared one too, for the ends in Losers), and LostRemote is *)
(* scheduled at the greenlet that opened the channel: it strikes later,    *)
(* whatever that greenlet does then, be it closing the channel.  The       *)
(* greenlet that calls is taken to be the one that uses the iterator.      *)
(***************************************************************************)
EXTENDS Naturals, Sequences, SequencesExt

CONSTANTS
  MaxItems,  \* bound: how many items the method streams at most
  Window,    \* the slots argument of the call
  Losers     \* the ends whose remote may be declared lost though it beats

ASSUME CallAssumption ==
  /\ MaxItems \in Nat /\ Window \in Nat \ {0}
  /\ Losers \subseteq {"client", "server"}

VARIABLES
  call,      \* where the client's call, then its iterator, stands
  outcome,   \* how it ended
  yielded,   \* the items the iterator gave the application
  first,     \* the answer an iterator that was not started holds
  closeIf,   \* whether on_close_if is set
  receiving, \* whether the client's receiving greenlet runs
  hooks,     \* history: the hooks called at either end, in order
  kind,      \* what call it is: of a streaming method, made with async_=True
  shut,      \* whether the application has closed the client
  task,      \* where the server's task stands
  produced,  \* how many items the task emitted
  chan,      \* chan[e]: the channel of an end is none, open or closed
  lost,      \* lost[e]: _lost_remote
  pending,   \* pending[e]: LostRemote is scheduled at the greenlet of that end
  wire,      \* the answers under way to the client, oldest first
  inbox,     \* the input queue of the client
  credit     \* the events the task may emit before it waits

clientVars == <<call, outcome, yielded, first>>
session    == <<kind, shut>>
taskVars   == <<session, task, produced>>
chanVars   == <<closeIf, receiving, chan, lost, pending>>
vars == <<clientVars, taskVars, chanVars, hooks, wire, inbox, credit>>

End == {"client", "server"}
Item(n) == [name |-> "STREAM", n |-> n]
Final(name) == [name |-> name, n |-> 0]
Answer == {Item(n) : n \in 1..MaxItems}
            \cup {Final(name) : name \in {"OK", "ERR", "STREAM_DONE"}}

\* The hooks of a context that a call reaches, less those that make data.
Hook == {"client_before_request", "load_task_context", "server_before_exec",
         "server_after_exec", "server_inspect_exception",
         "client_handle_remote_error", "client_after_request"}
Called(names) == hooks' = hooks \o names

\* The type invariant: the client never holds more answers than its window.
TypeOK ==
  /\ call      \in {"idle", "calling", "waiting", "unstarted", "pulling", "suspended",
                  "stuck", "closing", "over"}
  /\ outcome   \in {"none", "refused", "value", "error", "unmatched", "raised", "timeout",
                  "lost", "exhausted", "dropped", "cut"}
  /\ yielded   \in Seq(1..MaxItems)
  /\ first     \in Answer \cup {Final("none")}
  /\ closeIf   \in BOOLEAN
  /\ receiving \in BOOLEAN
  /\ kind      \in [stream : BOOLEAN, async : BOOLEAN]
  /\ hooks     \in Seq(Hook)
  /\ shut      \in BOOLEAN
  /\ task      \in {"none", "queued", "starting", "loaded", "running", "streaming",
                  "emitting", "replying", "erring", "closing", "over",
                  "aborted"}
  /\ produced  \in 0..MaxItems
  /\ chan      \in [End -> {"none", "open", "closed"}]
  /\ lost      \in [End -> BOOLEAN]
  /\ pending   \in [End -> BOOLEAN]
  /\ wire      \in Seq(Answer)
  /\ inbox     \in Seq(Answer)
  /\ credit    \in Nat
  /\ Len(wire) + Len(inbox) + credit <= Window

\* Mutated form: two answers may be emitted before the client asks for more.
InitialCreditTwo == 2
\* The slots an end has before the other asks for more.
InitialCredit == 1

Init ==
  /\ call = "idle" /\ outcome = "none" /\ yielded = <<>> /\ first = Final("none")
  /\ closeIf = FALSE /\ receiving = FALSE /\ hooks = <<>>
  /\ kind \in [stream : BOOLEAN, async : BOOLEAN] /\ shut = FALSE
  /\ task = "none" /\ produced = 0
  /\ chan = [e \in End |-> "none"]
  /\ lost = [e \in End |-> FALSE] /\ pending = [e \in End |-> FALSE]
  /\ wire = <<>> /\ inbox = <<>> /\ credit = InitialCredit

-----------------------------------------------------------------------------
(***************************************************************************)
(* The server's task (_async_task and process_call).                       *)
(***************************************************************************)
\* The close() of the channel of an end has run to its end.
CloseChan(e) == chan' = [chan EXCEPT ![e] = "closed"]

\* The task opens its channel, and waits for the request the channel was made with.
StartTask ==
  /\ task = "queued"
  /\ task' = "starting"
  /\ chan' = [chan EXCEPT !["server"] = "open"]
  /\ UNCHANGED <<hooks, clientVars, closeIf, receiving, lost, pending, session, produced,
                 wire, inbox, credit>>

LoadRequest ==
  /\ task = "starting"
  /\ task' = "loaded" /\ Called(<<"load_task_context">>)
  /\ UNCHANGED <<clientVars, chanVars, session, produced, wire, inbox, credit>>

\* The method is found and begins.
Execute ==
  /\ task = "loaded"
  /\ task' = IF kind.stream THEN "streaming" ELSE "running"
  /\ Called(<<"server_before_exec">>)
  /\ UNCHANGED <<clientVars, chanVars, session, produced, wire, inbox, credit>>

\* Mutated form: no hook at the end of a stream.
ReturnsQuietly ==
  /\ task \in {"running", "streaming"}
  /\ task' = "replying"
  /\ Called(IF kind.stream THEN <<>> ELSE <<"server_after_exec">>)
  /\ UNCHANGED <<clientVars, chanVars, session, produced, wire, inbox, credit>>
\* The method returns, or its generator stops.
Returns ==
  /\ task \in {"running", "streaming"}
  /\ task' = "replying" /\ Called(<<"server_after_exec">>)
  /\ UNCHANGED <<clientVars, chanVars, session, produced, wire, inbox, credit>>

\* The method is unknown, raises, or a hook does; or what the task emits cannot be
\* packed.  When the hook that inspects the exception raises too, there is no answer.
Raises ==
  /\ task \in {"loaded", "running", "streaming", "emitting", "replying"}
  /\ task' \in {"erring", "closing"}
  /\ Called(<<"server_inspect_exception">>)
  /\ UNCHANGED <<clientVars, chanVars, session, produced, wire, inbox, credit>>

\* emit_event of the channel: it waits for credit; the wire drops what it
\* carries to a channel that is closed.
Emit(answer) ==
  /\ ~lost["server"] /\ credit > 0
  /\ credit' = credit - 1
  /\ wire' = IF chan["client"] = "open" THEN Append(wire, answer) ELSE wire

\* The generator of the method yields an item, and the task emits it.
Yields ==
  /\ task = "streaming" /\ produced < MaxItems
  /\ task' = "emitting"
  /\ UNCHANGED <<hooks, clientVars, chanVars, session, produced, wire, inbox, credit>>

EmitItem ==
  /\ task = "emitting"
  /\ task' = "streaming"
  /\ produced' = produced + 1
  /\ Emit(Item(produced'))
  /\ UNCHANGED <<hooks, clientVars, chanVars, session, inbox>>

\* The answer that ends the call is emitted, and the task goes on to close.
EmitLast ==
  /\ \/ task = "replying" /\ Emit(Final(IF kind.stream THEN "STREAM_DONE" ELSE "OK"))
     \/ task = "erring" /\ Emit(Final("ERR"))
  /\ task' = "closing"
  /\ UNCHANGED <<hooks, clientVars, chanVars, session, produced, inbox>>

\* The heartbeat refuses the emission of an end whose remote is lost: only once
\* the buffered channel above it had the credit, which it takes back.
EmitRefused ==
  /\ task \in {"emitting", "replying", "erring"}
  /\ lost["server"] /\ credit > 0
  /\ task' = "closing"
  /\ UNCHANGED <<hooks, clientVars, chanVars, session, produced, wire, inbox, credit>>

\* The finally clause of the task: close() waits for the greenlets it kills.
CloseTask ==
  /\ task = "closing"
  /\ task' = "over" /\ CloseChan("server")
  /\ UNCHANGED <<hooks, clientVars, closeIf, receiving, lost, pending, session, produced,
                 wire, inbox, credit>>

\* LostRemote strikes the task, which closes its channel; but not while it waits for
\* its request, outside the try, nor while it is closing, which is then cut short.
TaskLost ==
  /\ pending["server"]
  /\ pending' = [pending EXCEPT !["server"] = FALSE]
  /\ \/ task \in {"starting", "closing"} /\ task' = "aborted"
     \/ /\ task \in {"loaded", "running", "streaming", "emitting", "replying", "erring"}
        /\ task' = "closing"
  /\ UNCHANGED <<hooks, clientVars, closeIf, receiving, chan, lost, session, produced,
                 wire, inbox, credit>>

\* The code of the method may catch the LostRemote that strikes it, and go on.
MethodSwallows ==
  /\ pending["server"] /\ task \in {"running", "streaming"}
  /\ pending' = [pending EXCEPT !["server"] = FALSE]
  /\ UNCHANGED <<hooks, clientVars, closeIf, receiving, chan, lost, taskVars, wire, inbox,
                 credit>>

-----------------------------------------------------------------------------
(***************************************************************************)
(* The client: the request, its receiving greenlet and the first answer.   *)
(***************************************************************************)
\* The call ends with its channel left as it is.
Abandon(how) == call' = "over" /\ outcome' = how

\* The call opens its channel and shows its request to the hook.
BeginCall ==
  /\ call = "idle"
  /\ call' = "calling" /\ Called(<<"client_before_request">>)
  /\ chan' = [chan EXCEPT !["client"] = "open"] /\ receiving' = TRUE
  /\ UNCHANGED <<outcome, yielded, first, taskVars, closeIf, lost, pending, wire, inbox,
                 credit>>

\* The request is emitted, for ever if the client was closed.  What raises before
\* that, the hook or a remote already lost, leaves the channel open.
SendRequest ==
  /\ call = "calling"
  /\ \/ /\ ~lost["client"] /\ ~shut
        /\ call' = "waiting" /\ UNCHANGED outcome
        /\ task' = IF task = "none" THEN "queued" ELSE task
     \/ /\ ~lost["client"] /\ shut
        /\ call' = "stuck" /\ UNCHANGED <<outcome, task>>
     \/ lost["client"] /\ Abandon("lost") /\ UNCHANGED task
     \/ Abandon("refused") /\ UNCHANGED task
  /\ UNCHANGED <<hooks, yielded, first, session, produced, chanVars, wire, inbox, credit>>

\* Mutated forms: on_close_if closes before it queues; the queue holds one answer.
QueuedUnlessDone(answer) ==
  IF closeIf /\ answer.name = "STREAM_DONE" THEN inbox ELSE Append(inbox, answer)
QueuedIfEmpty(answer) == IF inbox = <<>> THEN <<answer>> ELSE inbox
Queued(answer) == Append(inbox, answer)

\* An answer reaches the client's queue; on_close_if closes the channel at the end of
\* a stream, in the receiving greenlet, at which no LostRemote is thrown.  Once the
\* remote is lost, the receiving greenlet ends.
Receive ==
  /\ chan["client"] = "open" /\ receiving /\ wire # <<>> /\ ~shut
  /\ wire' = Tail(wire)
  /\ inbox' = Queued(Head(wire))
  /\ LET done == closeIf /\ Head(wire).name = "STREAM_DONE" IN
       /\ receiving' = (~done /\ ~lost["client"])
       /\ IF done THEN CloseChan("client") ELSE UNCHANGED chan
  /\ UNCHANGED <<hooks, clientVars, taskVars, closeIf, lost, pending, credit>>

\* Mutated form: the channel is left to the application.
FinishOpen(how) == Abandon(how)
\* How the call ends is known: its channel is closed before it returns or raises.
Finish(how) == call' = "closing" /\ outcome' = how

\* The hooks of a call that was answered: an error is first made an exception.
AnswerHooks(answer) ==
  (IF answer.name = "ERR" THEN <<"client_handle_remote_error">> ELSE <<>>)
    \o <<"client_after_request">>

\* An answer ends the call with its hooks, unless one of them raises.
FinishWith(how, answer) ==
  \/ Finish(how) /\ Called(AnswerHooks(answer))
  \/ \E n \in 1..Len(AnswerHooks(answer)) :
       Finish("raised") /\ Called(SubSeq(AnswerHooks(answer), 1, n))

\* process_answer of ReqRep: the value or the error of the reply.
FirstReply ==
  /\ call = "waiting" /\ inbox # <<>>
  /\ Head(inbox).name \in {"OK", "ERR"}
  /\ FinishWith(IF Head(inbox).name = "OK" THEN "value" ELSE "error", Head(inbox))
  /\ inbox' = Tail(inbox)
  /\ UNCHANGED <<yielded, first, taskVars, chanVars, wire, credit>>

\* No pattern that client_patterns_list leaves accepts the answer.
Unmatched ==
  /\ call = "waiting" /\ inbox # <<>>
  /\ Finish("unmatched")
  /\ inbox' = Tail(inbox)
  /\ UNCHANGED <<hooks, yielded, first, taskVars, chanVars, wire, credit>>

\* process_answer of ReqStream returns an iterator over the stream.
FirstOfStream ==
  /\ call = "waiting" /\ inbox # <<>>
  /\ Head(inbox).name \in {"STREAM", "STREAM_DONE"}
  /\ call' = "unstarted"
  /\ first' = Head(inbox)
  /\ closeIf' = TRUE
  /\ inbox' = Tail(inbox)
  /\ UNCHANGED <<hooks, outcome, yielded, taskVars, receiving, chan, lost, pending, wire,
                 credit>>

\* Mutated form: the channel of a call that timed out stays open.
ExpireOpen ==
  /\ call = "waiting" /\ inbox = <<>>
  /\ Abandon("timeout") /\ Called(<<"client_after_request">>)
  /\ UNCHANGED <<yielded, first, taskVars, chanVars, wire, inbox, credit>>

\* No answer came in time: TimeoutExpired.
Expire ==
  /\ call = "waiting" /\ inbox = <<>>
  /\ Finish("timeout")
  /\ UNCHANGED <<hooks, yielded, first, taskVars, chanVars, wire, inbox, credit>>

\* close() has waited for the greenlets it kills.  An answer had its hooks called
\* before; a call that timed out or matched no pattern has its hook called now.
CloseCall ==
  /\ call = "closing"
  /\ call' = "over"
  /\ CloseChan("client") /\ receiving' = FALSE /\ wire' = <<>>
  /\ \/ /\ outcome \in {"timeout", "unmatched"}
        /\ outcome' \in {outcome, "raised"} /\ Called(<<"client_after_request">>)
     \/ outcome \notin {"timeout", "unmatched"} /\ UNCHANGED <<outcome, hooks>>
  /\ UNCHANGED <<yielded, first, taskVars, closeIf, lost, pending, inbox, credit>>

-----------------------------------------------------------------------------
(***************************************************************************)
(* The iterator of a stream.  It is a generator: nothing of it runs before *)
(* the first next(), not even its finally clause when it is dropped.       *)
(***************************************************************************)
\* An answer reaches the body of the iterator: an item is yielded, anything
\* else ends it.
Consume(answer) ==
  \/ /\ answer.name = "STREAM"
     /\ yielded' = Append(yielded, answer.n)
     /\ call' = "suspended"
     /\ UNCHANGED <<outcome, hooks>>
  \/ /\ answer.name # "STREAM"
     /\ FinishWith(IF answer.name = "ERR" THEN "error" ELSE "exhausted", answer)
     /\ UNCHANGED yielded

\* Mutated form: the loop of the iterator begins with recv.
StartIteratorLate ==
  /\ call = "unstarted" /\ first.name = "STREAM"
  /\ call' = "pulling"
  /\ UNCHANGED <<hooks, outcome, yielded, first, taskVars, chanVars, wire, inbox, credit>>
\* The first next(): the answer that made the iterator is consumed.
StartIterator ==
  /\ call = "unstarted"
  /\ Consume(first)
  /\ UNCHANGED <<first, taskVars, chanVars, wire, inbox, credit>>

\* Mutated form: as many places again as the window has.
GrantAll == Window
\* The credit of the task once the client asked for more: what is not unread.
Grant == Window - Len(inbox) - Len(wire)
NeedsMore ==
  chan["client"] = "open" /\ Len(inbox) + Len(wire) + credit < Window \div 2

\* A later next(): recv of the channel asks for more when its window runs low,
\* which raises when the remote is lost and blocks when the client was closed,
\* then waits for its queue.
Resume ==
  /\ call = "suspended"
  /\ \/ NeedsMore /\ lost["client"] /\ Finish("lost") /\ UNCHANGED credit
     \/ /\ NeedsMore /\ ~lost["client"] /\ shut
        /\ call' = "stuck" /\ UNCHANGED <<outcome, credit>>
     \/ /\ ~(NeedsMore /\ (lost["client"] \/ shut))
        /\ credit' = IF NeedsMore THEN Grant ELSE credit
        /\ call' = "pulling" /\ UNCHANGED outcome
  /\ UNCHANGED <<hooks, yielded, first, taskVars, chanVars, wire, inbox>>

Pull ==
  /\ call = "pulling" /\ inbox # <<>>
  /\ Consume(Head(inbox))
  /\ inbox' = Tail(inbox)
  /\ UNCHANGED <<first, taskVars, chanVars, wire, credit>>

\* The application drops the iterator.
Drop ==
  /\ \/ call = "suspended" /\ Finish("dropped")
     \/ call = "unstarted" /\ Abandon("dropped")
  /\ UNCHANGED <<hooks, yielded, first, taskVars, chanVars, wire, inbox, credit>>

-----------------------------------------------------------------------------
(***************************************************************************)
(* The heartbeat of either end, and the death of the server.               *)
(***************************************************************************)
\* The client is closed: its channels are not told, but nothing is received for
\* them any more, and what they emit, heartbeats too, waits for ever.
CloseClient ==
  /\ ~shut
  /\ shut' = TRUE
  /\ UNCHANGED <<hooks, clientVars, chanVars, kind, task, produced, wire, inbox, credit>>

\* An end that is not heard: it closed, died, or gave its own remote up.
Silent(e) == chan[e] = "closed" \/ lost[e] \/ (e = "client" /\ shut)

\* The heartbeat of an end gives its remote up, and schedules LostRemote.
GivesUp(e) ==
  /\ chan[e] = "open" /\ ~lost[e]
  /\ lost' = [lost EXCEPT ![e] = TRUE]
  /\ pending' = [pending EXCEPT ![e] = TRUE]
  /\ UNCHANGED <<hooks, clientVars, taskVars, closeIf, receiving, chan, wire, inbox, credit>>

LoseServer == (Silent("server") \/ "client" \in Losers) /\ GivesUp("client")
LoseClient == (Silent("client") \/ "server" \in Losers) /\ GivesUp("server")

\* The greenlet of the caller is in the code of the call: what an asynchronous call
\* does until its first answer runs in a greenlet of its own.
InCall ==
  \/ call \in {"calling", "pulling", "stuck"}
  \/ call \in {"waiting", "closing"} /\ ~(kind.async /\ first = Final("none"))

\* LostRemote strikes the caller.  A call without an iterator does not catch it, the
\* iterator closes its channel on the way, and a close() under way is cut short.  The
\* code of a hook may swallow it, and so may other code of the application.
CallerStruck ==
  /\ pending["client"]
  /\ pending' = [pending EXCEPT !["client"] = FALSE]
  /\ \/ /\ InCall /\ call # "closing" /\ first = Final("none")
        /\ Abandon("lost") /\ UNCHANGED receiving
     \/ /\ call \in {"pulling", "stuck"} /\ first # Final("none")
        /\ Finish("lost") /\ UNCHANGED receiving
     \/ /\ InCall /\ call = "closing" /\ chan["client"] = "open"
        /\ Abandon("cut") /\ receiving' = FALSE
     \/ /\ ~InCall \/ call = "calling" \/ (call = "closing" /\ chan["client"] = "closed")
        /\ UNCHANGED <<call, outcome, receiving>>
  /\ UNCHANGED <<hooks, yielded, first, taskVars, closeIf, chan, lost, wire, inbox, credit>>

ServerDies ==
  /\ task # "over"
  /\ task' = "over"
  /\ CloseChan("server")
  /\ UNCHANGED <<hooks, clientVars, closeIf, receiving, lost, pending, session, produced,
                 wire, inbox, credit>>

-----------------------------------------------------------------------------
TaskStep == \/ StartTask \/ LoadRequest \/ Execute \/ Yields \/ Returns \/ Raises \/ EmitItem
            \/ EmitLast \/ EmitRefused \/ CloseTask \/ TaskLost \/ MethodSwallows \/ ServerDies
            \/ LoseClient

ClientStep == \/ BeginCall \/ SendRequest \/ Receive \/ FirstReply \/ FirstOfStream
              \/ Unmatched \/ Expire \/ CloseCall \/ StartIterator \/ Resume \/ Pull \/ Drop
              \/ CloseClient \/ LoseServer \/ CallerStruck

Next == TaskStep \/ ClientStep

Spec == Init /\ [][Next]_vars

\* Greenlets run when they can, methods end, a call has a timeout, and an end
\* that beats notices a silent remote, but for a client that is closed, whose
\* heartbeat may wait in its emission.  Nothing obliges the application to call, to
\* use or to drop the iterator it was given, or to close its client.
Fairness ==
  /\ WF_vars(StartTask) /\ WF_vars(LoadRequest) /\ WF_vars(Execute) /\ WF_vars(Returns)
  /\ WF_vars(EmitItem) /\ WF_vars(EmitLast) /\ WF_vars(EmitRefused) /\ WF_vars(TaskLost)
  /\ WF_vars(CloseTask) /\ WF_vars(CloseCall) /\ WF_vars(CallerStruck)
  /\ WF_vars(Silent("client") /\ LoseClient) /\ WF_vars(~shut /\ Silent("server") /\ LoseServer)
  /\ WF_vars(SendRequest) /\ WF_vars(Receive) /\ WF_vars(FirstReply) /\ WF_vars(FirstOfStream)
  /\ WF_vars(Expire) /\ WF_vars(Pull)

LiveSpec == Spec /\ Fairness

-----------------------------------------------------------------------------
Items(numbers) == [i \in 1..Len(numbers) |-> Item(numbers[i])]
Held == IF call = "unstarted" THEN <<first>> ELSE <<>>

\* What the application read, and what is still to be read, are the items the
\* task streamed, each once and in order, then at most one final answer, which
\* only a task that streams no more has sent.
AnswersInOrder ==
  call \notin {"closing", "over"} =>
    LET answers == Items(yielded) \o Held \o inbox \o wire
        items   == [i \in 1..produced |-> Item(i)]
    IN  \/ answers = items
        \/ /\ task \in {"closing", "over", "aborted"}
           /\ \E name \in {"OK", "ERR", "STREAM_DONE"} : answers = Append(items, Final(name))

\* An iterator that ends normally gave every item of the stream, though the
\* channel may be closed before the last ones are read.
ExhaustedIsComplete ==
  outcome = "exhausted" => yielded = [i \in 1..produced |-> i]

\* LostRemote reached the call where nothing closes its channel: before the request
\* or its answer, which are outside any try, or in close() itself.
Leaked == \/ outcome = "cut"
          \/ outcome = "lost" /\ first = Final("none")

\* The channel of a call that is over is released, but for LostRemote outside the
\* iterator or in close(), a call refused before its request, and an iterator dropped
\* before its start; so is the channel of a task, unless LostRemote took it before it
\* had its request or while it was closing.
ReleasedAtTheEnd ==
  /\ call = "over" /\ chan["client"] = "open" =>
       Leaked \/ outcome = "refused" \/ (outcome = "dropped" /\ yielded = <<>>)
  /\ task = "over" => chan["server"] = "closed"

\* A call returns or raises, unless it waits to emit its request to a client that was
\* closed; and so does next(), so long as the remote was not lost before it.
CallReturns ==
  /\ call \in {"calling", "waiting", "closing"} ~>
       call \in {"unstarted", "over"} \/ (call = "stuck" /\ shut)
  /\ call = "pulling" /\ ~lost["client"] ~> call # "pulling" \/ shut

\* The application may still use the iterator, or dropped it before its start,
\* which does not close its channel.
Used == ~\/ call \in {"unstarted", "suspended"}
         \/ outcome = "dropped" /\ yielded = <<>>

\* The method caught its LostRemote, and what it emits since waits for credit: it is
\* not told a second time.
Deaf == /\ lost["server"] /\ ~pending["server"] /\ credit = 0
        /\ task \in {"emitting", "replying", "erring"}

\* A task ends, whatever becomes of its client, unless it waits for credit from an
\* iterator that is not used, or from anyone after it caught LostRemote.
TaskEnds ==
  task # "none" ~>
    \/ task \in {"over", "aborted"}
    \/ chan["client"] = "open" /\ ~lost["client"] /\ ~shut /\ ~Used
    \/ Deaf

\* The hooks of the two ends nest.  A call that gave its value or its whole stream
\* called each hook once, the server's between the client's; one that gave an
\* error was inspected by the server before the client handled it, whatever the
\* task had done before.  The client's last hook is called at most once: by every
\* call that ends in an answer, a timeout or an answer no pattern accepts, unless
\* its close() is cut short, and by none that was refused or dropped.
HooksNest ==
  LET begun == <<"client_before_request", "load_task_context">>
      exec  == <<"server_before_exec", "server_after_exec">>
      failed == <<"server_inspect_exception", "client_handle_remote_error",
                  "client_after_request">>
      afters == {i \in 1..Len(hooks) : hooks[i] = "client_after_request"}
  IN  /\ outcome \in {"value", "exhausted"} =>
           hooks = begun \o exec \o <<"client_after_request">>
      /\ outcome = "error" =>
           \E n \in 0..2 : hooks = begun \o SubSeq(exec, 1, n) \o failed
      /\ call = "over" /\ outcome \in {"unmatched", "timeout"} => afters # {}
      /\ outcome \in {"none", "refused", "dropped"} => afters = {}
      /\ \A i, j \in afters : i = j

\* context.py:209-212: for a stream, the hook after the request is called once the
\* reply has been fully streamed or when an exception has been raised.
AfterHookOfStream ==
  call = "over" /\ first.name = "STREAM" /\ outcome \in {"exhausted", "error", "lost"} =>
    "client_after_request" \in Range(hooks)

\* The client has received the end of the stream its iterator is over.
StreamDone ==
  call # "waiting" /\ \E answer \in Range(Held \o inbox) : answer.name = "STREAM_DONE"

\* The end of a stream that has items closes the channel when it is received,
\* whether or not the iterator was started: it cannot come before on_close_if
\* is set, since it has to wait for the credit the iterator asks for.
DoneReleases == StreamDone /\ first.name = "STREAM" => chan["client"] = "closed"
=============================================================================
