----------------------------- MODULE MCSessions -----------------------------
(***************************************************************************)
(* Instances of Sessions for TLC.                                          *)
(***************************************************************************)
EXTENDS Sessions, TLC

NameSymmetry ==
  Permutations(Processes) \cup Permutations(Customers)
    \cup Permutations(SessionIds)
=============================================================================
