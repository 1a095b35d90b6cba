-------------------------------- MODULE MsgId --------------------------------
(***************************************************************************)
(* The message ids of a context (zerorpc/context.py, Context.new_msgid).   *)
(*                                                                         *)
(* An id is a counter, written in a fixed number of digits, before a base. *)
(* The counter starts and stops at random values; once it has reached its  *)
(* stop, base, counter and stop are drawn again.                           *)
(***************************************************************************)
EXTENDS Naturals

CONSTANTS
  Base,    \* the values a base may take (part of a random UUID)
  Limit    \* the counters are below this: 2^32

ASSUME MsgIdAssumption == Limit \in Nat \ {0}

VARIABLES
  base,      \* _msg_id_base
  counter,   \* _msg_id_counter
  stop,      \* _msg_id_counter_stop
  drawn,     \* history: the bases drawn so far
  ids,       \* history: the ids given out
  repeated   \* history: whether an id was given out twice

vars == <<base, counter, stop, drawn, ids, repeated>>

Counter == 0..Limit - 1

\* The type invariant: a counter can be written in the digits it is given.
TypeOK ==
  /\ base \in Base /\ drawn \subseteq Base
  /\ counter \in Counter /\ stop \in Counter
  /\ ids \subseteq Counter \X Base
  /\ repeated \in BOOLEAN

\* _reset_msgid.  The uuid is one that was not drawn before.
ResetMsgid ==
  /\ base' \in Base \ drawn
  /\ drawn' = drawn \cup {base'}
  /\ counter' \in Counter
  /\ stop' \in counter'..Limit - 1

Init ==
  /\ base \in Base /\ drawn = {base}
  /\ counter \in Counter
  /\ stop \in counter..Limit - 1
  /\ ids = {} /\ repeated = FALSE

\* Mutated form: the counter goes one past its stop.
AdvanceLate ==
  IF counter > stop THEN ResetMsgid
  ELSE counter' = counter + 1 /\ UNCHANGED <<base, stop, drawn>>
\* Mutated form: the counter is drawn again under the same base.
AdvanceSameBase ==
  IF counter >= stop
  THEN counter' \in Counter /\ stop' = Limit - 1 /\ UNCHANGED <<base, drawn>>
  ELSE counter' = counter + 1 /\ UNCHANGED <<base, stop, drawn>>
Advance ==
  IF counter >= stop THEN ResetMsgid
  ELSE counter' = counter + 1 /\ UNCHANGED <<base, stop, drawn>>

NewMsgid ==
  /\ Advance
  /\ ids' = ids \cup {<<counter', base'>>}
  /\ repeated' = (repeated \/ <<counter', base'>> \in ids)

Next == NewMsgid
Spec == Init /\ [][Next]_vars

-----------------------------------------------------------------------------
\* No message id is given out twice: the channels of a context never collide.
Unique == ~repeated

\* The ids of the current base are below its counter, and no id has a base that
\* was not drawn: what makes Unique inductive.
InvIds ==
  /\ base \in drawn
  /\ \A id \in ids : id[2] \in drawn /\ (id[2] = base => id[1] <= counter)

IInv == TypeOK /\ InvIds /\ Unique
=============================================================================
