------------------------- MODULE MCBufferedChannel -------------------------
(***************************************************************************)
(* Instances of BufferedChannel for TLC.  The two ends have queues of      *)
(* different sizes, so that a mix-up of the ends shows.                    *)
(***************************************************************************)
EXTENDS BufferedChannel

PerEnd(c, s) == [e \in End |-> IF e = "client" THEN c ELSE s]

Queues4x2 == PerEnd(4, 2)
Queues2x3 == PerEnd(2, 3)

\* The server streams and the client only asks for more; or both emit alike.
Emits0x5 == PerEnd(0, 5)
Emits2x2 == PerEnd(2, 2)

ClientOnly == {"client"}
ServerOnly == {"server"}
=============================================================================
