---------------------------- MODULE CreditWindow ----------------------------
(***************************************************************************)
(* What a buffered channel promises, seen from outside: each end owns a    *)
(* window of Bound[e] places, and an event sent to that end holds one of   *)
(* them from the moment its sender commits to it until the application     *)
(* reads it or the channel drops it.  A sender never commits to an event   *)
(* for which there is no place left.                                       *)
(*                                                                         *)
(* This is the abstract specification BufferedChannel implements           *)
(* (zerorpc/channel.py, class BufferedChannel).                            *)
(***************************************************************************)
EXTENDS Naturals

CONSTANTS
  End,    \* the ends of the channel
  Bound   \* Bound[e]: the number of places in the window of end e, not 0

VARIABLE unread   \* unread[e]: events committed to e, neither read nor dropped

TypeOK == unread \in [End -> Nat]

Init == unread = [e \in End |-> 0]

Commit(e) ==
  /\ unread[e] < Bound[e]
  /\ unread' = [unread EXCEPT ![e] = @ + 1]

Release(e) ==
  /\ unread[e] > 0
  /\ unread' = [unread EXCEPT ![e] = @ - 1]

Next == \E e \in End : Commit(e) \/ Release(e)

Spec == Init /\ [][Next]_unread
=============================================================================
