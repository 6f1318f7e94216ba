---------------------------- MODULE MCPiiTokens -----------------------------
(***************************************************************************)
(* Instances of PiiTokens for TLC.                                         *)
(***************************************************************************)
EXTENDS PiiTokens, TLC

PiiSymmetry ==
  Permutations(Names) \cup Permutations(Accounts) \cup Permutations(Threads)
=============================================================================
