------------------------------- MODULE Ledger -------------------------------
(***************************************************************************)
(* What the three in-process servers (accounts, transactions, service)     *)
(* promise: every call happens at once or not at all.  This is the program *)
(* as one event loop runs it, one handler after the other, and the         *)
(* specification that Servers, which splits a call into its reads and its  *)
(* commit, implements as long as calls do not overlap.                     *)
(***************************************************************************)
EXTENDS BankData, Functions

VARIABLES
  accounts,      (* the accounts table                                     *)
  transactions,  (* the transactions table                                 *)
  requests,      (* the service_requests table                             *)
  opening,       (* history: the balance each account was opened with      *)
  issued         (* history: every row id ever issued                      *)

vars == <<accounts, transactions, requests, opening, issued>>

Init ==
  /\ accounts = << >>
  /\ transactions = << >>
  /\ requests = << >>
  /\ opening = [a \in AccountIds |-> 0]
  /\ issued = {}

(* authz.require_owner: an account that is not there and one that is not   *)
(* the caller's are refused alike.                                         *)
Owns(c, a) == a \in DOMAIN accounts /\ accounts[a].customer_id = c

(* Mutant: the cascade finds no row.                                       *)
NoRowsOf(table, a) == {}

RowsOf(table, a) == {i \in DOMAIN table : table[i].account_id = a}

(* Mutant: nobody looks whether the balance is negative.                   *)
AcceptableUnchecked(balance) == Storable(balance)

(* The balance a call asks for: refused below zero, and by the column if   *)
(* it is out of range.                                                     *)
Acceptable(balance) == balance >= 0 /\ Storable(balance)

(* Mutants: the balance is not written; a fraction of a cent is cut off.   *)
SetBalanceForgotten(a, balance) == UNCHANGED accounts

SetBalanceTruncated(a, balance) ==
  accounts' = [accounts EXCEPT ![a].balance = (balance \div 10) * 10]

SetBalance(a, balance) ==
  accounts' = [accounts EXCEPT ![a].balance = Quantise(balance)]

(* Mutant: a row whose id is not on record.                                *)
IssueUnrecorded(i) == i \notin issued /\ UNCHANGED issued

Issue(i) == i \notin issued /\ issued' = issued \cup {i}

-----------------------------------------------------------------------------
(* The accounts server                                                     *)

CreateAccount(c, name, balance) ==
  \E a \in AccountIds :
    /\ Acceptable(balance)
    /\ Issue(a)
    /\ accounts' = Put(accounts, a, [owner_name  |-> name,
                                     balance     |-> Quantise(balance),
                                     customer_id |-> c])
    /\ opening' = [opening EXCEPT ![a] = Quantise(balance)]
    /\ UNCHANGED <<transactions, requests>>

UpdateAccount(c, a, name) ==
  /\ Owns(c, a)
  /\ accounts' = [accounts EXCEPT ![a].owner_name = name]
  /\ UNCHANGED <<transactions, requests, opening, issued>>

(* Staff only.  No foreign key cascades: the code deletes the rows of the  *)
(* two other tables itself.                                                *)
DeleteAccount(a) ==
  /\ a \in DOMAIN accounts
  /\ accounts' = Remove(accounts, {a})
  /\ transactions' = Remove(transactions, RowsOf(transactions, a))
  /\ requests' = Remove(requests, RowsOf(requests, a))
  /\ UNCHANGED <<opening, issued>>

-----------------------------------------------------------------------------
(* The transactions server                                                 *)

CreateTransaction(c, a, amount) ==
  \E t \in TransactionIds :
    /\ Owns(c, a)
    /\ amount # 0
    /\ Storable(amount)
    /\ Acceptable(accounts[a].balance + amount)
    /\ Issue(t)
    /\ SetBalance(a, accounts[a].balance + amount)
    /\ transactions' = Put(transactions, t, [account_id |-> a,
                                             amount |-> Quantise(amount)])
    /\ UNCHANGED <<requests, opening>>

UpdateTransaction(c, t, amount) ==
  /\ t \in DOMAIN transactions
  /\ amount # 0
  /\ Storable(amount)
  /\ LET a == transactions[t].account_id
         balance == accounts[a].balance + (amount - transactions[t].amount)
     IN  /\ Owns(c, a)
         /\ Acceptable(balance)
         /\ SetBalance(a, balance)
  /\ transactions' = [transactions EXCEPT ![t].amount = Quantise(amount)]
  /\ UNCHANGED <<requests, opening, issued>>

(* Mutant: the row goes, its amount stays in the balance.                  *)
DeleteTransactionOnly(c, t) ==
  /\ t \in DOMAIN transactions
  /\ Owns(c, transactions[t].account_id)
  /\ transactions' = Remove(transactions, {t})
  /\ UNCHANGED <<accounts, requests, opening, issued>>

DeleteTransaction(c, t) ==
  /\ t \in DOMAIN transactions
  /\ LET a == transactions[t].account_id
         balance == accounts[a].balance - transactions[t].amount
     IN  /\ Owns(c, a)
         /\ Acceptable(balance)
         /\ SetBalance(a, balance)
  /\ transactions' = Remove(transactions, {t})
  /\ UNCHANGED <<requests, opening, issued>>

-----------------------------------------------------------------------------
(* The service server                                                      *)

CreateServiceRequest(c, a, details) ==
  \E r \in RequestIds :
    /\ Owns(c, a)
    /\ Issue(r)
    /\ requests' = Put(requests, r, [account_id |-> a, status |-> "pending",
                                     details |-> details])
    /\ UNCHANGED <<accounts, transactions, opening>>

UpdateDetails(c, r, details) ==
  /\ r \in DOMAIN requests
  /\ Owns(c, requests[r].account_id)
  /\ requests' = [requests EXCEPT ![r].details = details]
  /\ UNCHANGED <<accounts, transactions, opening, issued>>

(* Staff only.                                                             *)
SetStatus(r, status) ==
  /\ r \in DOMAIN requests
  /\ status \in AllowedStatusTransitions[requests[r].status]
  /\ requests' = [requests EXCEPT ![r].status = status]
  /\ UNCHANGED <<accounts, transactions, opening, issued>>

DeleteServiceRequest(c, r) ==
  /\ r \in DOMAIN requests
  /\ Owns(c, requests[r].account_id)
  /\ requests' = Remove(requests, {r})
  /\ UNCHANGED <<accounts, transactions, opening, issued>>

-----------------------------------------------------------------------------

AccountsNext ==
  \/ \E c \in Customers, name \in OwnerNames :
       \/ \E balance \in OpeningBalances : CreateAccount(c, name, balance)
       \/ \E a \in AccountIds : UpdateAccount(c, a, name)
  \/ \E a \in AccountIds : DeleteAccount(a)

TransactionsNext ==
  \E c \in Customers :
    \/ \E a \in AccountIds, x \in Amounts : CreateTransaction(c, a, x)
    \/ \E t \in TransactionIds, x \in Amounts : UpdateTransaction(c, t, x)
    \/ \E t \in TransactionIds : DeleteTransaction(c, t)

ServiceNext ==
  \/ \E c \in Customers :
       \/ \E a \in AccountIds, d \in Details : CreateServiceRequest(c, a, d)
       \/ \E r \in RequestIds, d \in Details : UpdateDetails(c, r, d)
       \/ \E r \in RequestIds : DeleteServiceRequest(c, r)
  \/ \E r \in RequestIds, s \in Statuses : SetStatus(r, s)

(* A call that is refused, or that only reads, leaves the tables alone.    *)
NoEffect == UNCHANGED vars

Next == AccountsNext \/ TransactionsNext \/ ServiceNext \/ NoEffect

Spec == Init /\ [][Next]_vars

-----------------------------------------------------------------------------
(* Properties                                                              *)

(* Every row of every table has its columns, and opening and issued are    *)
(* what they stand for.                                                    *)
TypeOK ==
  /\ Tables(accounts, AccountIds, Account)
  /\ Tables(transactions, TransactionIds, Transaction)
  /\ Tables(requests, RequestIds, ServiceRequest)
  /\ opening \in [AccountIds -> Int]
  /\ issued \subseteq Ids
  /\ (DOMAIN accounts \cup DOMAIN transactions \cup DOMAIN requests)
       \subseteq issued

AmountsOf(a) ==
  [t \in RowsOf(transactions, a) |-> transactions[t].amount]

LedgerBalance(a) == opening[a] + SumFunction(AmountsOf(a))

(* The balance of an account is its opening balance plus the amounts of    *)
(* all its transactions, whatever was created, edited and deleted since    *)
(* ("keep balance in sync with the transaction ledger",                    *)
(* transactions_server.py:1-3).                                            *)
LedgerInSync ==
  \A a \in DOMAIN accounts : accounts[a].balance = LedgerBalance(a)

(* With amounts finer than a cent the two columns are rounded separately;  *)
(* the balance may then run ahead of the ledger but never behind it.       *)
BalanceNeverBelowLedger ==
  \A a \in DOMAIN accounts : accounts[a].balance >= LedgerBalance(a)

(* No account is ever overdrawn, by a debit, an edit or a deletion.        *)
NeverOverdrawn == \A a \in DOMAIN accounts : accounts[a].balance >= 0

(* Deleting an account leaves no transaction and no service request that   *)
(* names it (crud_accounts.delete_account's cascade).                      *)
NoOrphans ==
  /\ \A t \in DOMAIN transactions :
       transactions[t].account_id \in DOMAIN accounts
  /\ \A r \in DOMAIN requests : requests[r].account_id \in DOMAIN accounts

(* What transaction t contributes to account a in this state.              *)
Entry(a, t) ==
  IF t \in DOMAIN transactions /\ transactions[t].account_id = a
    THEN transactions[t].amount
    ELSE 0

(* A step changes the balance of an open account only together with one    *)
(* row of its ledger, by as much as it changes that row, and changes no    *)
(* row of the ledger otherwise: LedgerInSync said of one step.             *)
MovesWithLedger(a) ==
  \/ /\ accounts'[a].balance = accounts[a].balance
     /\ \A t \in TransactionIds : Entry(a, t)' = Entry(a, t)
  \/ \E t \in TransactionIds :
       /\ accounts'[a].balance - accounts[a].balance
            = Entry(a, t)' - Entry(a, t)
       /\ \A u \in TransactionIds \ {t} : Entry(a, u)' = Entry(a, u)

BalanceFollowsLedger ==
  [][WholeCents(Amounts) =>
       \A a \in DOMAIN accounts \cap DOMAIN accounts' : MovesWithLedger(a)]_vars

(* A service request moves along pending -> approved -> completed or       *)
(* pending -> rejected and never back (service_server.py:11-16).           *)
StatusLifecycle ==
  [][\A r \in DOMAIN requests \cap DOMAIN requests' :
       requests'[r].status # requests[r].status =>
         requests'[r].status \in AllowedStatusTransitions[requests[r].status]]_vars
=============================================================================
