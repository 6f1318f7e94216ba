----------------------------- MODULE MCIdentity -----------------------------
(***************************************************************************)
(* Instances of Identity for TLC.                                          *)
(***************************************************************************)
EXTENDS Identity, TLC

IdentitySymmetry == Permutations(Usernames) \cup Permutations(Workers)
=============================================================================
