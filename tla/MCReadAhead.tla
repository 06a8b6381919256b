---------------------------- MODULE MCReadAhead ----------------------------
(***************************************************************************)
(* Instances of ReadAhead for TLC.                                         *)
(***************************************************************************)
EXTENDS ReadAhead, TLC
=============================================================================
