----------------------------- MODULE MCServers ------------------------------
(***************************************************************************)
(* Instances of Servers for TLC.                                           *)
(***************************************************************************)
EXTENDS Servers, TLC

(* In mills: a debit of two cents, a credit of one, and the refused zero.  *)
SomeAmounts == {-20, 0, 10}
OpenWithTwoCents == {20}

(* What an agent's tools can call: neither delete_account nor set_status.  *)
ToolKinds == Operations \ {"delete_account", "set_status"}

IdSymmetry ==
  Permutations(AccountIds) \cup Permutations(TransactionIds)
    \cup Permutations(RequestIds) \cup Permutations(Customers)
    \cup Permutations(Workers)
=============================================================================
