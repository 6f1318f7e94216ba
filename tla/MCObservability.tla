-------------------------- MODULE MCObservability ---------------------------
(***************************************************************************)
(* Instances of Observability for TLC.                                     *)
(***************************************************************************)
EXTENDS Observability, TLC

UsageSymmetry == Permutations(Runs) \cup Permutations(Customers)
=============================================================================
