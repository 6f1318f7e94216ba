------------------------------ MODULE BankData ------------------------------
(***************************************************************************)
(* The rows of the bank's tables and the arithmetic of its money columns,  *)
(* shared by the specifications of the servers.                            *)
(*                                                                         *)
(* Money is counted in mills, tenths of a cent: a request carries an       *)
(* arbitrary decimal, a NUMERIC(12, 2) column holds whole cents.           *)
(***************************************************************************)
EXTENDS Integers, FiniteSets

CONSTANTS
  Customers,       (* customer ids                                         *)
  AccountIds,      (* the uuids accounts may get: bounds account creation  *)
  TransactionIds,  (* the same for transactions                            *)
  RequestIds,      (* and for service requests                             *)
  OwnerNames,      (* valid owner_name values                              *)
  Details,         (* details texts of a service request                   *)
  OpeningBalances, (* balances, in mills, a create_account may ask for     *)
  Amounts,         (* amounts, in mills, a transaction may ask for         *)
  MaxStored        (* the largest amount the column can hold, in mills     *)

ASSUME MoneyAssumption ==
  /\ OpeningBalances \subseteq Int
  /\ Amounts \subseteq Int
  /\ MaxStored \in Nat

ASSUME IdAssumption ==
  /\ AccountIds \cap TransactionIds = {}
  /\ AccountIds \cap RequestIds = {}
  /\ TransactionIds \cap RequestIds = {}

Ids == AccountIds \cup TransactionIds \cup RequestIds

Cent == 10

(* What a NUMERIC(12, 2) column makes of x: half a cent rounds away from   *)
(* zero, as PostgreSQL rounds numerics on assignment.                      *)
Quantise(x) ==
  IF x >= 0 THEN ((x + 5) \div 10) * 10
            ELSE -(((5 - x) \div 10) * 10)

(* A value the column rejects makes the flush fail: the call has no effect. *)
Storable(x) == Quantise(x) \in -MaxStored .. MaxStored

WholeCents(S) == \A x \in S : Quantise(x) = x

-----------------------------------------------------------------------------

Account == [owner_name : OwnerNames, balance : Int, customer_id : Customers]

Transaction == [account_id : AccountIds, amount : Int]

Statuses == {"pending", "approved", "rejected", "completed"}

ServiceRequest ==
  [account_id : AccountIds, status : Statuses, details : Details]

AllowedStatusTransitions ==
  [s \in Statuses |-> CASE s = "pending"  -> {"approved", "rejected"}
                        [] s = "approved" -> {"completed"}
                        [] OTHER          -> {}]

(* A table is a function from the ids of its rows to the rows.             *)
Put(table, i, row) ==
  [j \in DOMAIN table \cup {i} |-> IF j = i THEN row ELSE table[j]]

Remove(table, S) == [j \in DOMAIN table \ S |-> table[j]]

Tables(rows, S, T) == \* every table over ids in S with rows in T
  DOMAIN rows \subseteq S /\ \A i \in DOMAIN rows : rows[i] \in T
=============================================================================
