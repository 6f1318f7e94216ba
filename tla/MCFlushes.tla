----------------------------- MODULE MCFlushes ------------------------------
(***************************************************************************)
(* Instances of Flushes for TLC.                                           *)
(***************************************************************************)
EXTENDS Flushes
=============================================================================
