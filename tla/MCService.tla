------------------------------ MODULE MCService ------------------------------
(***************************************************************************)
(* The instance of Service for TLC: four requests are one in the pool, one *)
(* the acceptor holds, one in the broadcast queue, and one the dispatcher  *)
(* is blocked on.                                                          *)
(***************************************************************************)
EXTENDS Service

ServerAndPuller == {"server", "puller"}
ServerOnly      == {"server"}
=============================================================================
