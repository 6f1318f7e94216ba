------------------------------ MODULE Servers -------------------------------
(***************************************************************************)
(* The three servers as they reach the database: a call is authorised in   *)
(* sessions of its own, then reads and commits in one session, and other   *)
(* calls may run between those statements.  PostgreSQL is at READ          *)
(* COMMITTED: a statement sees what is committed when it starts, a plain   *)
(* SELECT takes no lock, an UPDATE or DELETE waits for the transaction     *)
(* that changed its row.  session.get is a plain SELECT, and the ORM       *)
(* writes back the balance it computed, not an increment.                  *)
(*                                                                         *)
(* A worker is whatever runs one call at a time:                           *)
(*   - one worker is the event loop, whose handlers never yield;           *)
(*   - several workers that run only the agents' tools are the threads in  *)
(*     which one chat turn runs the tool calls of one message;             *)
(*   - several workers that run everything are several backend processes.  *)
(*                                                                         *)
(* The flush and the commit that follows it are one step: the flush locks  *)
(* the rows it writes, so nobody else writes them before the commit.  The  *)
(* statements inside a flush, which may wait for each other, are Flushes.  *)
(***************************************************************************)
EXTENDS BankData

CONSTANTS
  Workers,       (* what can run calls at the same time                    *)
  Kinds          (* the operations callers use, a subset of Operations     *)

Operations ==
  {"create_account", "update_account", "delete_account",
   "create_transaction", "update_transaction", "delete_transaction",
   "create_request", "update_details", "set_status", "delete_request"}

ASSUME KindsAssumption == Kinds \subseteq Operations

VARIABLES
  accounts, transactions, requests,   (* the committed tables              *)
  opening, issued,                    (* history, as in Ledger             *)
  pc,       (* what a worker does next, "idle" when it has no call         *)
  call,     (* the call it runs, with the caller's identity                *)
  read,     (* the balance and the amount its session has read             *)
  locked    (* the rows it has deleted and not yet committed               *)

tables == <<accounts, transactions, requests, opening, issued>>
locals == <<pc, call, read, locked>>
vars == <<tables, locals>>

Atomic == INSTANCE Ledger

-----------------------------------------------------------------------------
(* Calls                                                                   *)

Calls ==
  {c \in
    [op : {"create_account"}, customer : Customers, owner_name : OwnerNames,
     balance : OpeningBalances]
    \cup [op : {"update_account"}, customer : Customers,
          account : AccountIds, owner_name : OwnerNames]
    \cup [op : {"delete_account"}, account : AccountIds]
    \cup [op : {"create_transaction"}, customer : Customers,
          account : AccountIds, amount : Amounts]
    \cup [op : {"update_transaction"}, customer : Customers,
          transaction : TransactionIds, amount : Amounts]
    \cup [op : {"delete_transaction"}, customer : Customers,
          transaction : TransactionIds]
    \cup [op : {"create_request"}, customer : Customers,
          account : AccountIds, details : Details]
    \cup [op : {"update_details"}, customer : Customers,
          request : RequestIds, details : Details]
    \cup [op : {"set_status"}, request : RequestIds, status : Statuses]
    \cup [op : {"delete_request"}, customer : Customers,
          request : RequestIds] : c.op \in Kinds}

NoCall == [op |-> "none"]

NoAccount == "none"
NothingRead == [account |-> NoAccount, balance |-> 0, amount |-> 0]

PCs == {"idle", "authorise", "read_transaction", "read_request",
        "read_account", "cascade_transactions", "cascade_requests", "write"}

Init ==
  /\ Atomic!Init
  /\ pc = [w \in Workers |-> "idle"]
  /\ call = [w \in Workers |-> NoCall]
  /\ read = [w \in Workers |-> NothingRead]
  /\ locked = [w \in Workers |-> {}]

Goto(w, stage) == pc' = [pc EXCEPT ![w] = stage]

(* The session is closed: what was read and locked is forgotten.           *)
Return(w) ==
  /\ Goto(w, "idle")
  /\ call' = [call EXCEPT ![w] = NoCall]
  /\ read' = [read EXCEPT ![w] = NothingRead]
  /\ locked' = [locked EXCEPT ![w] = {}]

Refuse(w) == Return(w) /\ UNCHANGED tables

(* No other call has deleted a row of S without committing yet.            *)
Unlocked(w, S) == \A v \in Workers \ {w} : S \cap locked[v] = {}

-----------------------------------------------------------------------------
(* Receiving and authorising a call                                        *)

(* The bound of the model: a call that will need a new id is received only *)
(* while one is left for it.                                               *)
IdsFor(op) == CASE op = "create_account"     -> AccountIds
                [] op = "create_transaction" -> TransactionIds
                [] OTHER                     -> RequestIds

IdLeftFor(op) ==
  op \in {"create_account", "create_transaction", "create_request"} =>
    Cardinality({v \in Workers : call[v].op = op})
      < Cardinality(IdsFor(op) \ issued)

(* Staff calls carry no customer and are not checked for ownership.        *)
Receive(w) ==
  /\ pc[w] = "idle"
  /\ \E c \in Calls :
       /\ IdLeftFor(c.op)
       /\ call' = [call EXCEPT ![w] = c]
       /\ Goto(w, CASE c.op = "create_account" -> "write"
                    [] c.op = "delete_account" -> "read_account"
                    [] c.op = "set_status"     -> "read_request"
                    [] OTHER                   -> "authorise")
  /\ UNCHANGED <<tables, read, locked>>

(* Mutant: the routers and tools without their ownership check.            *)
AnyoneAuthorised(c) == TRUE

(* The check follows row -> account -> owner in two sessions of its own.   *)
(* They are one step here: ids and owners never change, so a row deleted   *)
(* between the two makes the call fail either way.                         *)
Authorised(c) ==
  CASE c.op \in {"update_account", "create_transaction", "create_request"} ->
         Atomic!Owns(c.customer, c.account)
    [] c.op \in {"update_transaction", "delete_transaction"} ->
         /\ c.transaction \in DOMAIN transactions
         /\ Atomic!Owns(c.customer, transactions[c.transaction].account_id)
    [] c.op \in {"update_details", "delete_request"} ->
         /\ c.request \in DOMAIN requests
         /\ Atomic!Owns(c.customer, requests[c.request].account_id)
    [] OTHER -> TRUE

Authorise(w) ==
  /\ pc[w] = "authorise"
  /\ \/ /\ Authorised(call[w])
        /\ Goto(w, CASE call[w].op = "create_transaction" -> "read_account"
                     [] call[w].op \in {"update_transaction",
                                        "delete_transaction"} ->
                          "read_transaction"
                     [] call[w].op = "delete_request" -> "read_request"
                     [] OTHER -> "write")
        /\ UNCHANGED <<tables, call, read, locked>>
     \/ ~Authorised(call[w]) /\ Refuse(w)

-----------------------------------------------------------------------------
(* Reads                                                                   *)

ReadTransaction(w) ==
  LET t == call[w].transaction IN
  /\ pc[w] = "read_transaction"
  /\ \/ /\ t \in DOMAIN transactions
        /\ read' = [read EXCEPT ![w] =
                      [account |-> transactions[t].account_id, balance |-> 0,
                       amount  |-> transactions[t].amount]]
        /\ Goto(w, "read_account")
        /\ UNCHANGED <<tables, call, locked>>
     \/ t \notin DOMAIN transactions /\ Refuse(w)

(* The balance a call would write, from what its session has read.         *)
Adjusted(w, balance) ==
  CASE call[w].op = "create_transaction" -> balance + call[w].amount
    [] call[w].op = "update_transaction" ->
         balance + (call[w].amount - read[w].amount)
    [] OTHER -> balance - read[w].amount

ReadBalance(w) ==
  LET a == IF call[w].op = "create_transaction" THEN call[w].account
                                                ELSE read[w].account
      accepted ==
        /\ call[w].op \in {"create_transaction", "update_transaction"} =>
             call[w].amount # 0
        /\ a \in DOMAIN accounts
        /\ Adjusted(w, accounts[a].balance) >= 0
  IN
  /\ pc[w] = "read_account"
  /\ call[w].op # "delete_account"
  /\ \/ /\ accepted
        /\ read' = [read EXCEPT ![w] =
                      [account |-> a, balance |-> accounts[a].balance,
                       amount  |-> read[w].amount]]
        /\ Goto(w, "write")
        /\ UNCHANGED <<tables, call, locked>>
     \/ ~accepted /\ Refuse(w)

FindAccount(w) ==
  /\ pc[w] = "read_account"
  /\ call[w].op = "delete_account"
  /\ \/ /\ call[w].account \in DOMAIN accounts
        /\ Goto(w, "cascade_transactions")
        /\ UNCHANGED <<tables, call, read, locked>>
     \/ call[w].account \notin DOMAIN accounts /\ Refuse(w)

(* Mutant: a status is only checked to be one.                             *)
ReadRequestUnchecked(w) ==
  LET r == call[w].request IN
  /\ pc[w] = "read_request"
  /\ \/ r \in DOMAIN requests /\ Goto(w, "write")
        /\ UNCHANGED <<tables, call, read, locked>>
     \/ r \notin DOMAIN requests /\ Refuse(w)

(* A new status is checked against the status read here, and only here.    *)
ReadRequest(w) ==
  LET r == call[w].request
      accepted ==
        /\ r \in DOMAIN requests
        /\ call[w].op = "set_status" =>
             call[w].status \in AllowedStatusTransitions[requests[r].status]
  IN
  /\ pc[w] = "read_request"
  /\ \/ accepted /\ Goto(w, "write") /\ UNCHANGED <<tables, call, read, locked>>
     \/ ~accepted /\ Refuse(w)

-----------------------------------------------------------------------------
(* The cascade of delete_account: the rows it deletes stay visible to      *)
(* others, and locked, until it commits.                                   *)

CascadeTransactions(w) ==
  LET rows == Atomic!RowsOf(transactions, call[w].account) IN
  /\ pc[w] = "cascade_transactions"
  /\ Unlocked(w, rows)
  /\ locked' = [locked EXCEPT ![w] = rows]
  /\ Goto(w, "cascade_requests")
  /\ UNCHANGED <<tables, call, read>>

(* Mutant: delete_account forgets the service requests.                    *)
CascadeStopsEarly(w) ==
  /\ pc[w] = "cascade_requests"
  /\ Goto(w, "write")
  /\ UNCHANGED <<tables, call, read, locked>>

CascadeRequests(w) ==
  LET rows == Atomic!RowsOf(requests, call[w].account) IN
  /\ pc[w] = "cascade_requests"
  /\ Unlocked(w, rows)
  /\ locked' = [locked EXCEPT ![w] = locked[w] \cup rows]
  /\ Goto(w, "write")
  /\ UNCHANGED <<tables, call, read>>

-----------------------------------------------------------------------------
(* Commits                                                                 *)

AtWrite(w, op) == pc[w] = "write" /\ call[w].op = op

CommitCreateAccount(w) ==
  LET c == call[w] IN
  /\ AtWrite(w, "create_account")
  /\ \/ Atomic!CreateAccount(c.customer, c.owner_name, c.balance) /\ Return(w)
     \/ ~Atomic!Acceptable(c.balance) /\ Refuse(w)

CommitUpdateAccount(w) ==
  LET a == call[w].account IN
  /\ AtWrite(w, "update_account")
  /\ \/ /\ a \in DOMAIN accounts
        /\ accounts' = [accounts EXCEPT ![a].owner_name = call[w].owner_name]
        /\ UNCHANGED <<transactions, requests, opening, issued>>
        /\ Return(w)
     \/ a \notin DOMAIN accounts /\ Refuse(w)

(* If another call has deleted the account meanwhile the ORM only warns.   *)
CommitDeleteAccount(w) ==
  /\ AtWrite(w, "delete_account")
  /\ accounts' = Remove(accounts, {call[w].account})
  /\ transactions' = Remove(transactions, locked[w])
  /\ requests' = Remove(requests, locked[w])
  /\ UNCHANGED <<opening, issued>>
  /\ Return(w)

(* Mutant: UPDATE ... SET balance = balance + delta, without a new check.  *)
BalanceIncremented(w) == Adjusted(w, accounts[read[w].account].balance)

NewBalance(w) == Adjusted(w, read[w].balance)

(* The UPDATE of the account finds its row and the column takes the value; *)
(* otherwise the flush raises and the whole session is rolled back.        *)
BalanceWritable(w) ==
  read[w].account \in DOMAIN accounts /\ Storable(NewBalance(w))

CommitCreateTransaction(w) ==
  LET writable == BalanceWritable(w) /\ Storable(call[w].amount) IN
  /\ AtWrite(w, "create_transaction")
  /\ \/ /\ writable
        /\ \E t \in TransactionIds :
             /\ Atomic!Issue(t)
             /\ transactions' =
                  Put(transactions, t, [account_id |-> read[w].account,
                                        amount |-> Quantise(call[w].amount)])
        /\ Atomic!SetBalance(read[w].account, NewBalance(w))
        /\ UNCHANGED <<requests, opening>>
        /\ Return(w)
     \/ ~writable /\ Refuse(w)

(* Mutant: the row is merged, and inserted again if it has gone.           *)
MergeTransaction(w) ==
  /\ AtWrite(w, "update_transaction")
  /\ BalanceWritable(w)
  /\ transactions' = Put(transactions, call[w].transaction,
                         [account_id |-> read[w].account,
                          amount     |-> Quantise(call[w].amount)])
  /\ Atomic!SetBalance(read[w].account, NewBalance(w))
  /\ UNCHANGED <<requests, opening, issued>>
  /\ Return(w)

(* An amount equal to the one read changes neither object, and the ORM     *)
(* writes nothing; otherwise it must find both rows.                       *)
CommitUpdateTransaction(w) ==
  LET t == call[w].transaction
      writable == /\ call[w].amount # read[w].amount
                  /\ BalanceWritable(w)
                  /\ t \in DOMAIN transactions
                  /\ Storable(call[w].amount)
  IN
  /\ AtWrite(w, "update_transaction")
  /\ \/ /\ writable
        /\ Unlocked(w, {t})
        /\ transactions' =
             [transactions EXCEPT ![t].amount = Quantise(call[w].amount)]
        /\ Atomic!SetBalance(read[w].account, NewBalance(w))
        /\ UNCHANGED <<requests, opening, issued>>
        /\ Return(w)
     \/ ~writable /\ Refuse(w)

(* The balance is written unless the amount read is zero.  A transaction   *)
(* another call has deleted meanwhile is only warned about: the balance is *)
(* adjusted all the same.                                                  *)
CommitDeleteTransaction(w) ==
  LET t == call[w].transaction
      adjusts == read[w].amount # 0
      writable == adjusts => BalanceWritable(w)
  IN
  /\ AtWrite(w, "delete_transaction")
  /\ \/ /\ writable
        /\ Unlocked(w, {t})
        /\ transactions' = Remove(transactions, {t})
        /\ IF adjusts THEN Atomic!SetBalance(read[w].account, NewBalance(w))
                      ELSE UNCHANGED accounts
        /\ UNCHANGED <<requests, opening, issued>>
        /\ Return(w)
     \/ ~writable /\ Refuse(w)

(* The server does not look the account up again.                          *)
CommitCreateRequest(w) ==
  /\ AtWrite(w, "create_request")
  /\ \E r \in RequestIds :
       /\ Atomic!Issue(r)
       /\ requests' = Put(requests, r, [account_id |-> call[w].account,
                                        status     |-> "pending",
                                        details    |-> call[w].details])
  /\ UNCHANGED <<accounts, transactions, opening>>
  /\ Return(w)

CommitUpdateDetails(w) ==
  LET r == call[w].request IN
  /\ AtWrite(w, "update_details")
  /\ Unlocked(w, {r})
  /\ \/ /\ r \in DOMAIN requests
        /\ requests' = [requests EXCEPT ![r].details = call[w].details]
        /\ UNCHANGED <<accounts, transactions, opening, issued>>
        /\ Return(w)
     \/ r \notin DOMAIN requests /\ Refuse(w)

(* The UPDATE names the row only, not the status the call was checked      *)
(* against.                                                                *)
CommitSetStatus(w) ==
  LET r == call[w].request IN
  /\ AtWrite(w, "set_status")
  /\ Unlocked(w, {r})
  /\ \/ /\ r \in DOMAIN requests
        /\ requests' = [requests EXCEPT ![r].status = call[w].status]
        /\ UNCHANGED <<accounts, transactions, opening, issued>>
        /\ Return(w)
     \/ r \notin DOMAIN requests /\ Refuse(w)

CommitDeleteRequest(w) ==
  LET r == call[w].request IN
  /\ AtWrite(w, "delete_request")
  /\ Unlocked(w, {r})
  /\ requests' = Remove(requests, {r})
  /\ UNCHANGED <<accounts, transactions, opening, issued>>
  /\ Return(w)

(* Any statement may fail, and the worker may die: nothing was committed.  *)
Abort(w) == pc[w] # "idle" /\ Refuse(w)

-----------------------------------------------------------------------------

Commit(w) ==
  \/ CommitCreateAccount(w)
  \/ CommitUpdateAccount(w)
  \/ CommitDeleteAccount(w)
  \/ CommitCreateTransaction(w)
  \/ CommitUpdateTransaction(w)
  \/ CommitDeleteTransaction(w)
  \/ CommitCreateRequest(w)
  \/ CommitUpdateDetails(w)
  \/ CommitSetStatus(w)
  \/ CommitDeleteRequest(w)

(* A step of the call a worker is running.                                 *)
Step(w) ==
  \/ Authorise(w)
  \/ ReadTransaction(w)
  \/ ReadBalance(w)
  \/ FindAccount(w)
  \/ ReadRequest(w)
  \/ CascadeTransactions(w)
  \/ CascadeRequests(w)
  \/ Commit(w)

Next == \E w \in Workers : Receive(w) \/ Step(w) \/ Abort(w)

Spec == Init /\ [][Next]_vars

-----------------------------------------------------------------------------
(* Properties                                                              *)

Live == DOMAIN accounts \cup DOMAIN transactions \cup DOMAIN requests

TablesOK ==
  /\ Tables(accounts, AccountIds, Account)
  /\ Tables(transactions, TransactionIds, Transaction)
  /\ Tables(requests, RequestIds, ServiceRequest)
  /\ opening \in [AccountIds -> Int]
  /\ issued \subseteq Ids
  /\ Live \subseteq issued

(* The tables, and what each worker keeps of its call, have their types.   *)
TypeOK ==
  /\ TablesOK
  /\ pc \in [Workers -> PCs]
  /\ call \in [Workers -> Calls \cup {NoCall}]
  /\ read \in [Workers -> [account : AccountIds \cup {NoAccount},
                           balance : Int, amount : Int]]
  /\ locked \in [Workers -> SUBSET Ids]

(* Calls that do not overlap happen at once or not at all, in the order in *)
(* which they commit.                                                      *)
ImplementsLedger == Atomic!Spec

(* However calls overlap, no stored balance is ever negative.              *)
NeverOverdrawn == Atomic!NeverOverdrawn

(* The balance and the name of an account change only in the commit of a   *)
(* call its owner made, although the owner was checked in an earlier       *)
(* session (authz.require_owner).                                          *)
OnlyTheOwnerChangesAccounts ==
  [][\A a \in DOMAIN accounts \cap DOMAIN accounts' :
       accounts'[a] # accounts[a] =>
         \E w \in Workers :
           /\ pc[w] = "write"
           /\ pc'[w] = "idle"
           /\ call[w].op \in {"update_account", "create_transaction",
                              "update_transaction", "delete_transaction"}
           /\ call[w].customer = accounts[a].customer_id]_vars

(* A row that was deleted never comes back through a call that read it     *)
(* before.                                                                 *)
DeletedStaysDeleted == [][(issued \ Live) \cap Live' = {}]_vars

(* The promises of Ledger that rest on calls not overlapping.              *)

(* "create/update/delete all atomically keep balance in sync with the      *)
(* transaction ledger" (transactions_server.py:1-3).                       *)
LedgerInSync == Atomic!LedgerInSync

(* delete_account "cascades to its transactions and service requests in    *)
(* the same transaction" (crud_accounts.py:46-50): no row is left behind   *)
(* by the two DELETEs that run before the account's own.                   *)
NoOrphans == Atomic!NoOrphans

(* "Status must follow the allowed lifecycle" (service_server.py:69-72): *)
(* the status a call was checked against is still the one it replaces when *)
(* it commits.                                                             *)
StatusLifecycle == Atomic!StatusLifecycle
=============================================================================
