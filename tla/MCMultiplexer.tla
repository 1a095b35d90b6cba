---------------------------- MODULE MCMultiplexer ----------------------------
(***************************************************************************)
(* Instances of Multiplexer for TLC.  A client has two channels of enough  *)
(* events to block its dispatcher.  A server has four requests, of which   *)
(* one runs, one waits in its acceptor, one in its broadcast queue and one *)
(* in its dispatcher; the task of the first waits for a second event, and  *)
(* there is a third that it need not read.                                 *)
(***************************************************************************)
EXTENDS Multiplexer

CONSTANTS c1, c2, c3, c4
Four == {c1, c2, c3, c4}
OnlyFirst == {c1}

Sent == [r \in Roles |->
           [c \in Chan |-> IF r = "client" THEN IF c \in {c1, c2} THEN 3 ELSE 0
                                          ELSE IF c = c1 THEN 3 ELSE 1]]
Reads == [c \in Chan |-> IF c = c1 THEN 2 ELSE 1]
=============================================================================
