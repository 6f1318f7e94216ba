---------------------------- MODULE MCToolCalls -----------------------------
(***************************************************************************)
(* Instances of ToolCalls for TLC.                                         *)
(***************************************************************************)
EXTENDS ToolCalls, TLC

CallSymmetry == Permutations(Keys) \cup Permutations(Threads)
=============================================================================
