------------------------------ MODULE MCLedger ------------------------------
(***************************************************************************)
(* Instances of Ledger for TLC.                                            *)
(***************************************************************************)
EXTENDS Ledger, TLC

(* Whole cents, in mills: a debit of two cents, credits of one and three,  *)
(* and the zero the server must refuse.                                    *)
CentAmounts == {-20, 0, 10, 30}

(* Amounts finer than a cent: half a cent either way, four mills, which    *)
(* pass the zero check and are stored as zero, and one whole cent.         *)
MillAmounts == {-5, 4, 5, 10}

(* Opening balances, one of them negative and refused.                     *)
SomeOpenings == {-10, 0, 20}
OneOpening == {20}

IdSymmetry ==
  Permutations(AccountIds) \cup Permutations(TransactionIds)
    \cup Permutations(RequestIds) \cup Permutations(Customers)
=============================================================================
