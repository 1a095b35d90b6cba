---------------------------- MODULE MCMultipartIO ----------------------------
(***************************************************************************)
(* Instances of MultipartIO for TLC.                                       *)
(***************************************************************************)
EXTENDS MultipartIO
=============================================================================
