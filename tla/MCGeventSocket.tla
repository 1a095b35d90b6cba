---------------------------- MODULE MCGeventSocket ----------------------------
(***************************************************************************)
(* Instances of GeventSocket for TLC.                                      *)
(***************************************************************************)
EXTENDS GeventSocket
=============================================================================
