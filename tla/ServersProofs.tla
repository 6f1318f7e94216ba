--------------------------- MODULE ServersProofs ----------------------------
(***************************************************************************)
(* Theorems about Servers, in three parts: what holds however the calls of *)
(* any set of workers overlap; that ownership holds under overlap too; and *)
(* that the calls of a single worker implement Ledger, so that what        *)
(* LedgerProofs proves of Ledger holds of them.                            *)
(***************************************************************************)
EXTENDS Servers, TLAPS

Books == INSTANCE LedgerProofs

MoneyOps == {"create_transaction", "update_transaction", "delete_transaction"}

(* Rounding to cents gives an integer of the same sign.                    *)
LEMMA QuantiseInt ==
  ASSUME NEW x \in Int
  PROVE  Quantise(x) \in Int /\ (x >= 0 => Quantise(x) >= 0)
BY DEF Quantise

(* Rounding what is rounded changes nothing.                               *)
LEMMA QuantiseIdempotent ==
  ASSUME NEW x \in Int
  PROVE  Quantise(Quantise(x)) = Quantise(x)
BY DEF Quantise

(* The arguments each kind of call carries.                                *)
LEMMA CallFields ==
  ASSUME NEW c \in Calls
  PROVE  /\ c.op \in Operations
         /\ c.op = "create_account" =>
              /\ c.customer \in Customers
              /\ c.owner_name \in OwnerNames
              /\ c.balance \in OpeningBalances
         /\ c.op = "update_account" => c.owner_name \in OwnerNames
         /\ c.op \in {"create_transaction", "create_request"} =>
              c.account \in AccountIds
         /\ c.op \in {"create_transaction", "update_transaction"} =>
              c.amount \in Int
         /\ c.op \in {"create_request", "update_details"} =>
              c.details \in Details
         /\ c.op = "set_status" => c.status \in Statuses
BY MoneyAssumption, KindsAssumption, Zenon DEF Calls, Operations

-----------------------------------------------------------------------------
(* The inductive invariant.  WorkerOK says of the call a worker runs what  *)
(* its stage implies; most of all, that the balance it is about to write   *)
(* is not negative.                                                        *)

WorkerOK(w) ==
  /\ pc[w] # "idle" => call[w] \in Calls
  /\ pc[w] = "read_transaction" =>
       call[w].op \in {"update_transaction", "delete_transaction"}
  /\ pc[w] = "read_account" => call[w].op \in MoneyOps \cup {"delete_account"}
  /\ pc[w] = "read_request" => call[w].op \in {"set_status", "delete_request"}
  /\ pc[w] \in {"cascade_transactions", "cascade_requests"} =>
       call[w].op = "delete_account"
  /\ pc[w] = "write" /\ call[w].op \in MoneyOps => NewBalance(w) >= 0

Inv == TypeOK /\ NeverOverdrawn /\ \A w \in Workers : WorkerOK(w)

LocalsOK ==
  /\ pc \in [Workers -> PCs]
  /\ call \in [Workers -> Calls \cup {NoCall}]
  /\ read \in [Workers -> [account : AccountIds \cup {NoAccount},
                           balance : Int, amount : Int]]
  /\ locked \in [Workers -> SUBSET Ids]

(* The step of one worker leaves the locals of the others alone.           *)
OthersSame(w) ==
  \A v \in Workers \ {w} :
    /\ pc'[v] = pc[v]
    /\ call'[v] = call[v]
    /\ read'[v] = read[v]
    /\ locked'[v] = locked[v]

(* A worker that moves does not disturb what is known of the others.       *)
LEMMA OthersOK ==
  ASSUME Inv, NEW w \in Workers, OthersSame(w), WorkerOK(w)'
  PROVE  \A v \in Workers : WorkerOK(v)'
BY DEF Inv, OthersSame, WorkerOK, NewBalance, Adjusted

(* A call that returns leaves its worker idle with nothing read.           *)
LEMMA ReturnOK ==
  ASSUME Inv, NEW w \in Workers, Return(w)
  PROVE  LocalsOK' /\ \A v \in Workers : WorkerOK(v)'
<1>1. LocalsOK
  BY DEF Inv, TypeOK, LocalsOK
<1>2. NothingRead \in [account : AccountIds \cup {NoAccount},
                       balance : Int, amount : Int]
  BY DEF NothingRead
<1>3. LocalsOK'
  BY <1>1, <1>2 DEF LocalsOK, Return, Goto, PCs
<1>4. OthersSame(w) /\ pc'[w] = "idle"
  BY <1>1 DEF LocalsOK, OthersSame, Return, Goto
<1>5. WorkerOK(w)'
  BY <1>4 DEF WorkerOK
<1> QED
  BY <1>3, <1>4, <1>5, OthersOK

(* A worker that moves on with new locals.                                 *)
LEMMA GotoOK ==
  ASSUME Inv, NEW w \in Workers, NEW stage \in PCs, Goto(w, stage),
         LocalsOK', OthersSame(w), WorkerOK(w)',
         UNCHANGED tables
  PROVE  Inv'
<1>1. \A v \in Workers : WorkerOK(v)'
  BY OthersOK
<1>2. TablesOK' /\ NeverOverdrawn'
  BY DEF Inv, TypeOK, tables, NeverOverdrawn, Atomic!NeverOverdrawn,
         TablesOK, Live
<1> QED
  BY <1>1, <1>2 DEF Inv, TypeOK, LocalsOK

(* A refused call preserves the invariant: it leaves the tables alone.     *)
LEMMA RefuseOK ==
  ASSUME Inv, NEW w \in Workers, Refuse(w)
  PROVE  Inv'
<1>1. LocalsOK' /\ \A v \in Workers : WorkerOK(v)'
  BY ReturnOK DEF Refuse
<1>2. TablesOK' /\ NeverOverdrawn'
  BY DEF Inv, TypeOK, Refuse, tables, NeverOverdrawn, Atomic!NeverOverdrawn,
         TablesOK, Live
<1> QED
  BY <1>1, <1>2 DEF Inv, TypeOK, LocalsOK

(* A commit that leaves the tables as they should be.                      *)
LEMMA CommitOK ==
  ASSUME Inv, NEW w \in Workers, Return(w), TablesOK', NeverOverdrawn'
  PROVE  Inv'
BY ReturnOK DEF Inv, TypeOK, LocalsOK

(* The idle workers over empty tables satisfy the invariant.               *)
LEMMA InitInv == Init => Inv
BY DEF Init, Inv, TypeOK, NeverOverdrawn, WorkerOK, Atomic!Init, TablesOK, Live,
       Atomic!NeverOverdrawn, Tables, PCs, NoCall, NothingRead

-----------------------------------------------------------------------------
(* Receiving, authorising, reading                                         *)

(* A call that arrives carries its own arguments and nothing else yet.     *)
LEMMA ReceiveStep ==
  ASSUME Inv, NEW w \in Workers, Receive(w)
  PROVE  Inv'
<1>1. PICK c \in Calls :
        /\ call' = [call EXCEPT ![w] = c]
        /\ Goto(w, CASE c.op = "create_account" -> "write"
                     [] c.op = "delete_account" -> "read_account"
                     [] c.op = "set_status"     -> "read_request"
                     [] OTHER                   -> "authorise")
        /\ UNCHANGED <<tables, read, locked>>
  BY DEF Receive
<1>2. LocalsOK
  BY DEF Inv, TypeOK, LocalsOK
<1>3. PICK stage \in PCs :
        /\ Goto(w, stage)
        /\ stage \in {"write", "read_account", "read_request", "authorise"}
        /\ stage = "write" => c.op = "create_account"
        /\ stage = "read_account" => c.op = "delete_account"
        /\ stage = "read_request" => c.op = "set_status"
  BY <1>1, CallFields DEF PCs
<1>4. LocalsOK' /\ OthersSame(w) /\ call'[w] = c /\ pc'[w] = stage
  BY <1>1, <1>2, <1>3 DEF LocalsOK, OthersSame, Goto
<1>5. WorkerOK(w)'
  BY <1>3, <1>4 DEF WorkerOK, MoneyOps
<1> QED
  BY <1>1, <1>3, <1>4, <1>5, GotoOK

(* The ownership check sends each kind of call to its own first stage.     *)
LEMMA AuthoriseStep ==
  ASSUME Inv, NEW w \in Workers, Authorise(w)
  PROVE  Inv'
<1>1. CASE Refuse(w)
  BY <1>1, RefuseOK
<1>2. CASE ~Refuse(w)
  <2>1. PICK stage \in PCs :
          /\ Goto(w, stage)
          /\ stage \in {"read_account", "read_transaction", "read_request",
                        "write"}
          /\ stage = "read_account" => call[w].op = "create_transaction"
          /\ stage = "read_transaction" =>
               call[w].op \in {"update_transaction", "delete_transaction"}
          /\ stage = "read_request" => call[w].op = "delete_request"
          /\ stage = "write" => call[w].op \notin MoneyOps
    BY <1>2 DEF Authorise, PCs, MoneyOps
  <2>2. UNCHANGED <<tables, call, read, locked>> /\ pc[w] = "authorise"
    BY <1>2 DEF Authorise
  <2>3. LocalsOK
    BY DEF Inv, TypeOK, LocalsOK
  <2>4. LocalsOK' /\ OthersSame(w) /\ pc'[w] = stage
    BY <2>1, <2>2, <2>3 DEF LocalsOK, OthersSame, Goto
  <2>5. WorkerOK(w)'
    BY <2>1, <2>2, <2>4 DEF Inv, WorkerOK, MoneyOps
  <2> QED
    BY <2>1, <2>2, <2>4, <2>5, GotoOK
<1> QED
  BY <1>1, <1>2

(* Reading the transaction fixes the account and the old amount.           *)
LEMMA ReadTransactionStep ==
  ASSUME Inv, NEW w \in Workers, ReadTransaction(w)
  PROVE  Inv'
<1> DEFINE t == call[w].transaction
<1>1. CASE Refuse(w)
  BY <1>1, RefuseOK
<1>2. CASE ~Refuse(w)
  <2>1. /\ pc[w] = "read_transaction"
        /\ t \in DOMAIN transactions
        /\ read' = [read EXCEPT ![w] =
                      [account |-> transactions[t].account_id, balance |-> 0,
                       amount  |-> transactions[t].amount]]
        /\ Goto(w, "read_account")
        /\ UNCHANGED <<tables, call, locked>>
    BY <1>2 DEF ReadTransaction
  <2>2. transactions[t] \in Transaction
    BY <2>1 DEF Inv, TypeOK, TablesOK, Tables
  <2>3. LocalsOK
    BY DEF Inv, TypeOK, LocalsOK
  <2>4. LocalsOK' /\ OthersSame(w) /\ pc'[w] = "read_account" /\ call' = call
    BY <2>1, <2>2, <2>3 DEF LocalsOK, OthersSame, Goto, PCs, Transaction
  <2>5. WorkerOK(w)'
    BY <2>1, <2>4 DEF Inv, WorkerOK, MoneyOps
  <2> QED
    BY <2>1, <2>4, <2>5, GotoOK DEF PCs
<1> QED
  BY <1>1, <1>2

(* The balance computed from what was read is not negative: the overdraft  *)
(* check.                                                                  *)
LEMMA ReadBalanceStep ==
  ASSUME Inv, NEW w \in Workers, ReadBalance(w)
  PROVE  Inv'
<1> DEFINE a == IF call[w].op = "create_transaction" THEN call[w].account
                                                     ELSE read[w].account
<1>1. CASE Refuse(w)
  BY <1>1, RefuseOK
<1>2. CASE ~Refuse(w)
  <2>1. /\ pc[w] = "read_account"
        /\ a \in DOMAIN accounts
        /\ Adjusted(w, accounts[a].balance) >= 0
        /\ read' = [read EXCEPT ![w] =
                      [account |-> a, balance |-> accounts[a].balance,
                       amount  |-> read[w].amount]]
        /\ Goto(w, "write")
        /\ UNCHANGED <<tables, call, locked>>
    BY <1>2 DEF ReadBalance
  <2>2. accounts[a] \in Account /\ a \in AccountIds
    BY <2>1 DEF Inv, TypeOK, TablesOK, Tables
  <2>3. LocalsOK
    BY DEF Inv, TypeOK, LocalsOK
  <2>4. LocalsOK' /\ OthersSame(w) /\ pc'[w] = "write" /\ call' = call
    <3> HIDE DEF a
    <3> QED
      BY <2>1, <2>2, <2>3 DEF LocalsOK, OthersSame, Goto, PCs, Account
  <2>5. /\ read'[w].balance = accounts[a].balance
        /\ read'[w].amount = read[w].amount
    <3> HIDE DEF a
    <3> QED
      BY <2>1, <2>3 DEF LocalsOK
  <2>6. NewBalance(w)' = Adjusted(w, accounts[a].balance)
    <3> HIDE DEF a
    <3> QED
      BY <2>4, <2>5 DEF NewBalance, Adjusted
  <2>7. WorkerOK(w)'
    <3> HIDE DEF a
    <3> QED
      BY <2>1, <2>4, <2>6 DEF Inv, WorkerOK
  <2> QED
    BY <2>1, <2>4, <2>7, GotoOK DEF PCs
<1> QED
  BY <1>1, <1>2

(* delete_account finds its account and goes on to the cascade.            *)
LEMMA FindAccountStep ==
  ASSUME Inv, NEW w \in Workers, FindAccount(w)
  PROVE  Inv'
<1>1. CASE Refuse(w)
  BY <1>1, RefuseOK
<1>2. CASE ~Refuse(w)
  <2>1. /\ pc[w] = "read_account" /\ call[w].op = "delete_account"
        /\ Goto(w, "cascade_transactions")
        /\ UNCHANGED <<tables, call, read, locked>>
    BY <1>2 DEF FindAccount
  <2>2. LocalsOK' /\ OthersSame(w) /\ pc'[w] = "cascade_transactions"
    BY <2>1 DEF Inv, TypeOK, LocalsOK, OthersSame, Goto, PCs
  <2>3. WorkerOK(w)'
    BY <2>1, <2>2 DEF Inv, WorkerOK
  <2> QED
    BY <2>1, <2>2, <2>3, GotoOK DEF PCs
<1> QED
  BY <1>1, <1>2

(* Reading the request checks it and goes on to the write.                 *)
LEMMA ReadRequestStep ==
  ASSUME Inv, NEW w \in Workers, ReadRequest(w)
  PROVE  Inv'
<1>1. CASE Refuse(w)
  BY <1>1, RefuseOK
<1>2. CASE ~Refuse(w)
  <2>1. /\ pc[w] = "read_request"
        /\ Goto(w, "write")
        /\ UNCHANGED <<tables, call, read, locked>>
    BY <1>2 DEF ReadRequest
  <2>2. LocalsOK' /\ OthersSame(w) /\ pc'[w] = "write"
    BY <2>1 DEF Inv, TypeOK, LocalsOK, OthersSame, Goto, PCs
  <2>3. call[w].op \notin MoneyOps
    BY <2>1 DEF Inv, WorkerOK, MoneyOps
  <2>4. WorkerOK(w)'
    BY <2>1, <2>2, <2>3 DEF Inv, WorkerOK
  <2> QED
    BY <2>1, <2>2, <2>4, GotoOK DEF PCs
<1> QED
  BY <1>1, <1>2

(* The two DELETEs of the cascade lock the rows they saw.                  *)
LEMMA CascadeStep ==
  ASSUME Inv, NEW w \in Workers, CascadeTransactions(w) \/ CascadeRequests(w)
  PROVE  Inv'
<1>1. PICK stage \in {"cascade_requests", "write"}, rows \in SUBSET Ids :
        /\ pc[w] \in {"cascade_transactions", "cascade_requests"}
        /\ locked' = [locked EXCEPT ![w] = rows]
        /\ Goto(w, stage)
        /\ UNCHANGED <<tables, call, read>>
  <2>1. /\ Atomic!RowsOf(transactions, call[w].account) \in SUBSET Ids
        /\ Atomic!RowsOf(requests, call[w].account) \in SUBSET Ids
        /\ locked[w] \in SUBSET Ids
    BY DEF Atomic!RowsOf, Inv, TypeOK, TablesOK, Tables, Ids
  <2>2. CASE CascadeTransactions(w)
    BY <2>1, <2>2 DEF CascadeTransactions
  <2>3. CASE CascadeRequests(w)
    BY <2>1, <2>3 DEF CascadeRequests
  <2> QED
    BY <2>2, <2>3
<1>2. LocalsOK' /\ OthersSame(w) /\ pc'[w] = stage
  BY <1>1 DEF Inv, TypeOK, LocalsOK, OthersSame, Goto, PCs
<1>3. call[w].op = "delete_account"
  BY <1>1 DEF Inv, WorkerOK
<1>4. WorkerOK(w)'
  BY <1>1, <1>2, <1>3 DEF Inv, WorkerOK, MoneyOps
<1> QED
  BY <1>1, <1>2, <1>4, GotoOK DEF PCs

-----------------------------------------------------------------------------
(* Commits                                                                 *)

(* Storing a balance that passed the overdraft test keeps the accounts     *)
(* well typed and not negative: rounding to cents does not make it so.     *)
LEMMA SetBalanceOK ==
  ASSUME Inv, NEW a \in DOMAIN accounts, NEW balance \in Int, balance >= 0,
         Atomic!SetBalance(a, balance)
  PROVE  /\ Tables(accounts', AccountIds, Account)
         /\ DOMAIN accounts' = DOMAIN accounts
         /\ \A b \in DOMAIN accounts :
              /\ accounts'[b].balance >= 0
              /\ accounts'[b].customer_id = accounts[b].customer_id
         /\ \A b \in DOMAIN accounts \ {a} : accounts'[b] = accounts[b]
<1> DEFINE q == Quantise(balance)
<1>1. q \in Int /\ q >= 0
  BY QuantiseInt
<1>2. q = Atomic!Quantise(balance)
  BY DEF Quantise, Atomic!Quantise
<1> HIDE DEF q
<1>3. accounts' = [accounts EXCEPT ![a].balance = q]
  BY <1>2 DEF Atomic!SetBalance
<1>4. \A b \in DOMAIN accounts : accounts[b] \in Account /\ b \in AccountIds
  BY DEF Inv, TypeOK, TablesOK, Tables
<1>5. /\ accounts'[a].balance = q
      /\ accounts'[a].customer_id = accounts[a].customer_id
      /\ accounts'[a] \in Account
  BY <1>1, <1>3, <1>4 DEF Account
<1>6. /\ DOMAIN accounts' = DOMAIN accounts
      /\ \A b \in DOMAIN accounts \ {a} : accounts'[b] = accounts[b]
  BY <1>3
<1> QED
  BY <1>1, <1>4, <1>5, <1>6
     DEF Tables, Inv, NeverOverdrawn, Atomic!NeverOverdrawn

(* The new balance of a commit that moves money.                           *)
LEMMA NewBalanceOK ==
  ASSUME Inv, NEW w \in Workers, pc[w] = "write", call[w].op \in MoneyOps
  PROVE  NewBalance(w) \in Int /\ NewBalance(w) >= 0
<1>1. call[w] \in Calls /\ NewBalance(w) >= 0
  BY DEF Inv, WorkerOK
<1>2. read[w].balance \in Int /\ read[w].amount \in Int
  BY DEF Inv, TypeOK
<1>3. call[w].op \in {"create_transaction", "update_transaction"} =>
        call[w].amount \in Int
  BY <1>1, CallFields
<1> QED
  BY <1>1, <1>2, <1>3 DEF NewBalance, Adjusted, MoneyOps

(* The commit of create_account preserves the invariant.                   *)
LEMMA CommitCreateAccountStep ==
  ASSUME Inv, NEW w \in Workers, CommitCreateAccount(w)
  PROVE  Inv'
<1> DEFINE c == call[w]
<1>1. CASE Refuse(w)
  BY <1>1, RefuseOK
<1>2. CASE ~Refuse(w)
  <2>1. /\ Return(w)
        /\ Atomic!CreateAccount(c.customer, c.owner_name, c.balance)
        /\ pc[w] = "write" /\ c.op = "create_account"
    BY <1>2 DEF CommitCreateAccount, AtWrite
  <2>2. /\ c.customer \in Customers
        /\ c.owner_name \in OwnerNames
        /\ c.balance \in Int
    BY <2>1, CallFields, MoneyAssumption DEF Inv, WorkerOK
  <2>3. c.balance >= 0
    BY <2>1 DEF Atomic!CreateAccount, Atomic!Acceptable
  <2> DEFINE q == Quantise(c.balance)
  <2>4. q \in Int /\ q >= 0 /\ q = Atomic!Quantise(c.balance)
    BY <2>2, <2>3, QuantiseInt DEF Quantise, Atomic!Quantise
  <2>5. PICK row \in Account, a \in AccountIds :
          /\ row.balance = q
          /\ accounts' = Put(accounts, a, row)
          /\ opening' = [opening EXCEPT ![a] = q]
          /\ issued' = issued \cup {a}
          /\ UNCHANGED <<transactions, requests>>
    <3>1. [owner_name |-> c.owner_name, balance |-> q,
           customer_id |-> c.customer] \in Account
      BY <2>2, <2>4 DEF Account
    <3> QED
      BY <2>1, <2>4, <3>1 DEF Atomic!CreateAccount, Atomic!Issue, Atomic!Put, Put
  <2>6. Tables(accounts, AccountIds, Account)
    BY DEF Inv, TypeOK, TablesOK
  <2>7. /\ Tables(accounts', AccountIds, Account)
        /\ DOMAIN accounts' = DOMAIN accounts \cup {a}
        /\ \A b \in DOMAIN accounts' :
             accounts'[b] = IF b = a THEN row ELSE accounts[b]
    <3> HIDE DEF q
    <3> QED
      BY <2>5, <2>6 DEF Tables, Put
  <2>8. TablesOK'
    <3> HIDE DEF q
    <3> QED
      BY <2>4, <2>5, <2>7 DEF Inv, TypeOK, TablesOK, Live, Ids
  <2>9. NeverOverdrawn'
    <3> HIDE DEF q
    <3> QED
      BY <2>4, <2>5, <2>7 DEF Inv, NeverOverdrawn, Atomic!NeverOverdrawn
  <2> QED
    BY <2>1, <2>8, <2>9, CommitOK
<1> QED
  BY <1>1, <1>2

(* The commit of update_account preserves it.                              *)
LEMMA CommitUpdateAccountStep ==
  ASSUME Inv, NEW w \in Workers, CommitUpdateAccount(w)
  PROVE  Inv'
<1>1. CASE Refuse(w)
  BY <1>1, RefuseOK
<1>2. CASE ~Refuse(w)
  <2>1. PICK a \in DOMAIN accounts, name \in OwnerNames :
          /\ accounts' = [accounts EXCEPT ![a].owner_name = name]
          /\ UNCHANGED <<transactions, requests, opening, issued>>
          /\ Return(w)
    <3>1. call[w].owner_name \in OwnerNames
      BY <1>2, CallFields DEF CommitUpdateAccount, AtWrite, Inv, WorkerOK
    <3> QED
      BY <1>2, <3>1 DEF CommitUpdateAccount
  <2>2. \A b \in DOMAIN accounts : accounts[b] \in Account /\ b \in AccountIds
    BY DEF Inv, TypeOK, TablesOK, Tables
  <2>3. /\ DOMAIN accounts' = DOMAIN accounts
        /\ \A b \in DOMAIN accounts :
             /\ accounts'[b] \in Account
             /\ accounts'[b].balance = accounts[b].balance
    BY <2>1, <2>2 DEF Account
  <2>4. TablesOK'
    BY <2>1, <2>2, <2>3 DEF Inv, TypeOK, TablesOK, Live, Tables
  <2>5. NeverOverdrawn'
    BY <2>3 DEF Inv, NeverOverdrawn, Atomic!NeverOverdrawn
  <2> QED
    BY <2>1, <2>4, <2>5, CommitOK
<1> QED
  BY <1>1, <1>2

(* The commit of delete_account preserves it.                              *)
LEMMA CommitDeleteAccountStep ==
  ASSUME Inv, NEW w \in Workers, CommitDeleteAccount(w)
  PROVE  Inv'
<1>1. /\ Return(w)
      /\ accounts' = Remove(accounts, {call[w].account})
      /\ transactions' = Remove(transactions, locked[w])
      /\ requests' = Remove(requests, locked[w])
      /\ UNCHANGED <<opening, issued>>
  BY DEF CommitDeleteAccount
<1>2. TablesOK'
  <2>1. /\ Tables(accounts, AccountIds, Account)
        /\ Tables(transactions, TransactionIds, Transaction)
        /\ Tables(requests, RequestIds, ServiceRequest)
    BY DEF Inv, TypeOK, TablesOK
  <2>2. /\ Tables(accounts', AccountIds, Account)
        /\ DOMAIN accounts' \subseteq DOMAIN accounts
    BY <1>1, <2>1 DEF Tables, Remove
  <2>3. /\ Tables(transactions', TransactionIds, Transaction)
        /\ DOMAIN transactions' \subseteq DOMAIN transactions
    BY <1>1, <2>1 DEF Tables, Remove
  <2>4. /\ Tables(requests', RequestIds, ServiceRequest)
        /\ DOMAIN requests' \subseteq DOMAIN requests
    BY <1>1, <2>1 DEF Tables, Remove
  <2> QED
    BY <1>1, <2>2, <2>3, <2>4 DEF Inv, TypeOK, TablesOK, Live
<1>3. NeverOverdrawn'
  BY <1>1 DEF Inv, NeverOverdrawn, Atomic!NeverOverdrawn, Remove
<1> QED
  BY <1>1, <1>2, <1>3, CommitOK

(* The commit of create_transaction preserves it, however stale the        *)
(* balance is that it was computed from.                                   *)
LEMMA CommitCreateTransactionStep ==
  ASSUME Inv, NEW w \in Workers, CommitCreateTransaction(w)
  PROVE  Inv'
<1>1. CASE Refuse(w)
  BY <1>1, RefuseOK
<1>2. CASE ~Refuse(w)
  <2>1. PICK t \in TransactionIds :
          /\ transactions' =
               Put(transactions, t, [account_id |-> read[w].account,
                                     amount |-> Quantise(call[w].amount)])
          /\ issued' = issued \cup {t}
    BY <1>2 DEF CommitCreateTransaction, Atomic!Issue
  <2>2. /\ pc[w] = "write" /\ call[w].op = "create_transaction"
        /\ read[w].account \in DOMAIN accounts
        /\ Atomic!SetBalance(read[w].account, NewBalance(w))
        /\ UNCHANGED <<requests, opening>>
        /\ Return(w)
    BY <1>2 DEF CommitCreateTransaction, AtWrite, BalanceWritable
  <2>3. NewBalance(w) \in Int /\ NewBalance(w) >= 0
    BY <2>2, NewBalanceOK DEF MoneyOps
  <2>4. /\ Tables(accounts', AccountIds, Account)
        /\ DOMAIN accounts' = DOMAIN accounts
        /\ \A b \in DOMAIN accounts : accounts'[b].balance >= 0
    BY <2>2, <2>3, SetBalanceOK
  <2>5. call[w].amount \in Int
    BY <2>2, CallFields DEF Inv, WorkerOK
  <2>6. read[w].account \in AccountIds
    BY <2>2 DEF Inv, TypeOK, TablesOK, Tables
  <2>7. PICK row \in Transaction : transactions' = Put(transactions, t, row)
    BY <2>1, <2>5, <2>6, QuantiseInt DEF Transaction
  <2>8. Tables(transactions, TransactionIds, Transaction)
    BY DEF Inv, TypeOK, TablesOK
  <2>9. /\ Tables(transactions', TransactionIds, Transaction)
        /\ DOMAIN transactions' = DOMAIN transactions \cup {t}
    BY <2>1, <2>7, <2>8 DEF Tables, Put
  <2>10. TablesOK'
    BY <2>1, <2>2, <2>4, <2>9 DEF Inv, TypeOK, TablesOK, Live, Ids
  <2>11. NeverOverdrawn'
    BY <2>4 DEF NeverOverdrawn, Atomic!NeverOverdrawn
  <2> QED
    BY <2>2, <2>10, <2>11, CommitOK
<1> QED
  BY <1>1, <1>2

(* The commit of update_transaction preserves it.                          *)
LEMMA CommitUpdateTransactionStep ==
  ASSUME Inv, NEW w \in Workers, CommitUpdateTransaction(w)
  PROVE  Inv'
<1> DEFINE t == call[w].transaction
           q == Quantise(call[w].amount)
<1>1. CASE Refuse(w)
  BY <1>1, RefuseOK
<1>2. CASE ~Refuse(w)
  <2>1. /\ pc[w] = "write" /\ call[w].op = "update_transaction"
        /\ t \in DOMAIN transactions
        /\ transactions' = [transactions EXCEPT ![t].amount = q]
        /\ read[w].account \in DOMAIN accounts
        /\ Atomic!SetBalance(read[w].account, NewBalance(w))
        /\ UNCHANGED <<requests, opening, issued>>
        /\ Return(w)
    BY <1>2 DEF CommitUpdateTransaction, AtWrite, BalanceWritable
  <2>2. NewBalance(w) \in Int /\ NewBalance(w) >= 0
    BY <2>1, NewBalanceOK DEF MoneyOps
  <2>3. /\ Tables(accounts', AccountIds, Account)
        /\ DOMAIN accounts' = DOMAIN accounts
        /\ \A b \in DOMAIN accounts : accounts'[b].balance >= 0
    BY <2>1, <2>2, SetBalanceOK
  <2>4. q \in Int
    BY <2>1, CallFields, QuantiseInt DEF Inv, WorkerOK
  <2>5. /\ Tables(transactions', TransactionIds, Transaction)
        /\ DOMAIN transactions' = DOMAIN transactions
    <3> HIDE DEF t, q
    <3> QED
      BY <2>1, <2>4 DEF Inv, TypeOK, TablesOK, Tables, Transaction
  <2>6. TablesOK'
    BY <2>1, <2>3, <2>5 DEF Inv, TypeOK, TablesOK, Live
  <2>7. NeverOverdrawn'
    BY <2>3 DEF NeverOverdrawn, Atomic!NeverOverdrawn
  <2> QED
    BY <2>1, <2>6, <2>7, CommitOK
<1> QED
  BY <1>1, <1>2

(* The commit of delete_transaction preserves it.                          *)
LEMMA CommitDeleteTransactionStep ==
  ASSUME Inv, NEW w \in Workers, CommitDeleteTransaction(w)
  PROVE  Inv'
<1>1. CASE Refuse(w)
  BY <1>1, RefuseOK
<1>2. CASE ~Refuse(w)
  <2>1. /\ pc[w] = "write" /\ call[w].op = "delete_transaction"
        /\ transactions' = Remove(transactions, {call[w].transaction})
        /\ \/ accounts' = accounts
           \/ /\ read[w].account \in DOMAIN accounts
              /\ Atomic!SetBalance(read[w].account, NewBalance(w))
        /\ UNCHANGED <<requests, opening, issued>>
        /\ Return(w)
    BY <1>2 DEF CommitDeleteTransaction, AtWrite, BalanceWritable
  <2>2. NewBalance(w) \in Int /\ NewBalance(w) >= 0
    BY <2>1, NewBalanceOK DEF MoneyOps
  <2>3. /\ Tables(accounts', AccountIds, Account)
        /\ DOMAIN accounts' = DOMAIN accounts
        /\ \A b \in DOMAIN accounts : accounts'[b].balance >= 0
    <3>1. CASE accounts' = accounts
      BY <3>1 DEF Inv, TypeOK, TablesOK, NeverOverdrawn, Atomic!NeverOverdrawn
    <3>2. CASE /\ read[w].account \in DOMAIN accounts
               /\ Atomic!SetBalance(read[w].account, NewBalance(w))
      BY <2>2, <3>2, SetBalanceOK
    <3> QED
      BY <2>1, <3>1, <3>2
  <2>4. Tables(transactions, TransactionIds, Transaction)
    BY DEF Inv, TypeOK, TablesOK
  <2>5. /\ Tables(transactions', TransactionIds, Transaction)
        /\ DOMAIN transactions' \subseteq DOMAIN transactions
    BY <2>1, <2>4 DEF Tables, Remove
  <2>6. TablesOK'
    BY <2>1, <2>3, <2>5 DEF Inv, TypeOK, TablesOK, Live
  <2>7. NeverOverdrawn'
    BY <2>3 DEF NeverOverdrawn, Atomic!NeverOverdrawn
  <2> QED
    BY <2>1, <2>6, <2>7, CommitOK
<1> QED
  BY <1>1, <1>2

(* The commits of the service server touch the requests table only.        *)
LEMMA RequestsOnlyOK ==
  ASSUME Inv, NEW w \in Workers, Return(w),
         UNCHANGED <<accounts, transactions, opening>>,
         Tables(requests', RequestIds, ServiceRequest),
         issued' \subseteq Ids,
         issued \cup DOMAIN requests' \subseteq issued'
  PROVE  Inv'
<1>1. TablesOK'
  BY DEF Inv, TypeOK, TablesOK, Live
<1>2. NeverOverdrawn'
  BY DEF Inv, NeverOverdrawn, Atomic!NeverOverdrawn
<1> QED
  BY <1>1, <1>2, CommitOK

(* The commits of the service server preserve it.                          *)
LEMMA CommitRequestStep ==
  ASSUME Inv, NEW w \in Workers,
         \/ CommitCreateRequest(w)
         \/ CommitUpdateDetails(w)
         \/ CommitSetStatus(w)
         \/ CommitDeleteRequest(w)
  PROVE  Inv'
<1>0. /\ Tables(requests, RequestIds, ServiceRequest)
      /\ DOMAIN requests \subseteq issued
      /\ issued \subseteq Ids
  BY DEF Inv, TypeOK, TablesOK, Live
<1>1. CASE Refuse(w)
  BY <1>1, RefuseOK
<1>2. CASE CommitCreateRequest(w)
  <2>1. /\ Return(w)
        /\ call[w].account \in AccountIds
        /\ call[w].details \in Details
        /\ UNCHANGED <<accounts, transactions, opening>>
    BY <1>2, CallFields DEF CommitCreateRequest, AtWrite, Inv, WorkerOK
  <2>2. PICK r \in RequestIds, row \in ServiceRequest :
          /\ issued' = issued \cup {r}
          /\ requests' = Put(requests, r, row)
    <3>1. [account_id |-> call[w].account, status |-> "pending",
           details |-> call[w].details] \in ServiceRequest
      BY <2>1 DEF ServiceRequest, Statuses
    <3> QED
      BY <1>2, <3>1 DEF CommitCreateRequest, Atomic!Issue
  <2>3. /\ Tables(requests', RequestIds, ServiceRequest)
        /\ DOMAIN requests' = DOMAIN requests \cup {r}
    BY <1>0, <2>2 DEF Tables, Put
  <2>4. issued' \subseteq Ids /\ issued \cup DOMAIN requests' \subseteq issued'
    BY <1>0, <2>2, <2>3 DEF Ids
  <2> QED
    BY <2>1, <2>3, <2>4, RequestsOnlyOK
<1>3. CASE CommitUpdateDetails(w) /\ ~Refuse(w)
  <2>1. /\ Return(w)
        /\ call[w].details \in Details
        /\ requests' = [requests EXCEPT ![call[w].request].details
                                          = call[w].details]
        /\ UNCHANGED <<accounts, transactions, opening, issued>>
    BY <1>3, CallFields DEF CommitUpdateDetails, AtWrite, Inv, WorkerOK
  <2>2. Tables(requests', RequestIds, ServiceRequest)
        /\ DOMAIN requests' = DOMAIN requests
    BY <1>0, <2>1 DEF Tables, ServiceRequest
  <2> QED
    BY <1>0, <2>1, <2>2, RequestsOnlyOK
<1>4. CASE CommitSetStatus(w) /\ ~Refuse(w)
  <2>1. /\ Return(w)
        /\ call[w].status \in Statuses
        /\ requests' = [requests EXCEPT ![call[w].request].status
                                          = call[w].status]
        /\ UNCHANGED <<accounts, transactions, opening, issued>>
    BY <1>4, CallFields DEF CommitSetStatus, AtWrite, Inv, WorkerOK
  <2>2. Tables(requests', RequestIds, ServiceRequest)
        /\ DOMAIN requests' = DOMAIN requests
    BY <1>0, <2>1 DEF Tables, ServiceRequest
  <2> QED
    BY <1>0, <2>1, <2>2, RequestsOnlyOK
<1>5. CASE CommitDeleteRequest(w)
  <2>1. /\ Return(w)
        /\ requests' = Remove(requests, {call[w].request})
        /\ UNCHANGED <<accounts, transactions, opening, issued>>
    BY <1>5 DEF CommitDeleteRequest
  <2>2. Tables(requests', RequestIds, ServiceRequest)
        /\ DOMAIN requests' \subseteq DOMAIN requests
    BY <1>0, <2>1 DEF Tables, Remove
  <2> QED
    BY <1>0, <2>1, <2>2, RequestsOnlyOK
<1> QED
  BY <1>1, <1>2, <1>3, <1>4, <1>5

(* Every step of every worker preserves the invariant.                     *)
LEMMA NextInv ==
  ASSUME Inv, [Next]_vars
  PROVE  Inv'
<1>1. CASE UNCHANGED vars
  BY <1>1 DEF vars, tables, locals, Inv, TypeOK, TablesOK, Live, NeverOverdrawn,
              Atomic!NeverOverdrawn, WorkerOK, NewBalance, Adjusted
<1>2. ASSUME NEW w \in Workers, Commit(w)
      PROVE  Inv'
  BY <1>2, CommitCreateAccountStep, CommitUpdateAccountStep,
     CommitDeleteAccountStep, CommitCreateTransactionStep,
     CommitUpdateTransactionStep, CommitDeleteTransactionStep,
     CommitRequestStep DEF Commit
<1>3. ASSUME NEW w \in Workers, Step(w)
      PROVE  Inv'
  BY <1>2, <1>3, AuthoriseStep, ReadTransactionStep, ReadBalanceStep,
     FindAccountStep, ReadRequestStep, CascadeStep DEF Step
<1> QED
  BY <1>1, <1>3, ReceiveStep, RefuseOK DEF Next, Abort

(* The invariant holds of every behaviour, for any set of workers.         *)
THEOREM Invariance == Spec => []Inv
<1> QED
  BY InitInv, NextInv, PTL DEF Spec

(* Whatever calls overlap, fail or are abandoned, the tables and what the  *)
(* workers hold stay well typed.                                           *)
THEOREM TypeCorrect == Spec => []TypeOK
<1>1. Inv => TypeOK
  BY DEF Inv
<1> QED
  BY <1>1, Invariance, PTL

(* No interleaving of any number of workers stores a negative balance: a   *)
(* stale read may lose an update, but what is written passed the check     *)
(* against what was read.                                                  *)
THEOREM OverdraftProtection == Spec => []NeverOverdrawn
<1>1. Inv => NeverOverdrawn
  BY DEF Inv
<1> QED
  BY <1>1, Invariance, PTL

-----------------------------------------------------------------------------
(***************************************************************************)
(* Ownership under overlapping calls: the check made in one session still  *)
(* holds when another session writes, because owners never change and ids  *)
(* are never reused.                                                       *)
(***************************************************************************)

(* Rows keep their owner while they live, and do not come back.            *)
Stable ==
  /\ issued \subseteq issued'
  /\ \A a \in DOMAIN accounts' \cap issued :
       /\ a \in DOMAIN accounts
       /\ accounts'[a].customer_id = accounts[a].customer_id
  /\ \A t \in DOMAIN transactions' \cap issued :
       /\ t \in DOMAIN transactions
       /\ transactions'[t].account_id = transactions[t].account_id
  /\ \A r \in DOMAIN requests' \cap issued : r \in DOMAIN requests

(* Storing a balance changes no owner and no other account.                *)
LEMMA SetBalanceStable ==
  ASSUME Inv, NEW a \in DOMAIN accounts, NEW balance,
         Atomic!SetBalance(a, balance)
  PROVE  /\ DOMAIN accounts' = DOMAIN accounts
         /\ \A b \in DOMAIN accounts :
              accounts'[b].customer_id = accounts[b].customer_id
         /\ \A b \in DOMAIN accounts \ {a} : accounts'[b] = accounts[b]
<1>1. accounts[a] \in Account
  BY DEF Inv, TypeOK, TablesOK, Tables
<1> QED
  BY <1>1 DEF Atomic!SetBalance, Account

(* A commit changes no owner and brings no row back.                       *)
LEMMA CommitStable ==
  ASSUME Inv, NEW w \in Workers, Commit(w)
  PROVE  Stable
<1>0. /\ DOMAIN accounts \subseteq issued
      /\ DOMAIN transactions \subseteq issued
      /\ DOMAIN requests \subseteq issued
      /\ \A a \in DOMAIN accounts : accounts[a] \in Account
      /\ \A t \in DOMAIN transactions : transactions[t] \in Transaction
  BY DEF Inv, TypeOK, TablesOK, Live, Tables
<1>1. CASE Refuse(w)
  BY <1>1 DEF Refuse, tables, Stable
<1>2. CASE CommitCreateAccount(w) /\ ~Refuse(w)
  <2>1. PICK a, row :
          /\ a \notin issued
          /\ issued' = issued \cup {a}
          /\ accounts' = Put(accounts, a, row)
          /\ UNCHANGED <<transactions, requests>>
    BY <1>2 DEF CommitCreateAccount, Atomic!CreateAccount, Atomic!Issue,
                Atomic!Put, Put
  <2> QED
    BY <1>0, <2>1 DEF Put, Stable
<1>3. CASE CommitUpdateAccount(w) /\ ~Refuse(w)
  BY <1>0, <1>3 DEF CommitUpdateAccount, Stable, Account
<1>4. CASE CommitDeleteAccount(w)
  BY <1>0, <1>4 DEF CommitDeleteAccount, Remove, Stable
<1>5. CASE CommitCreateTransaction(w) /\ ~Refuse(w)
  <2>1. PICK t, row :
          /\ t \notin issued
          /\ issued' = issued \cup {t}
          /\ transactions' = Put(transactions, t, row)
          /\ requests' = requests
    BY <1>5 DEF CommitCreateTransaction, Atomic!Issue
  <2>2. /\ DOMAIN accounts' = DOMAIN accounts
        /\ \A b \in DOMAIN accounts :
             accounts'[b].customer_id = accounts[b].customer_id
    BY <1>5, SetBalanceStable DEF CommitCreateTransaction, BalanceWritable
  <2> QED
    BY <1>0, <2>1, <2>2 DEF Put, Stable
<1>6. CASE CommitUpdateTransaction(w) /\ ~Refuse(w)
  <2>1. PICK t, q :
          /\ t \in DOMAIN transactions
          /\ transactions' = [transactions EXCEPT ![t].amount = q]
          /\ UNCHANGED <<requests, issued>>
    BY <1>6 DEF CommitUpdateTransaction
  <2>2. /\ DOMAIN accounts' = DOMAIN accounts
        /\ \A b \in DOMAIN accounts :
             accounts'[b].customer_id = accounts[b].customer_id
    BY <1>6, SetBalanceStable DEF CommitUpdateTransaction, BalanceWritable
  <2> QED
    BY <1>0, <2>1, <2>2 DEF Stable, Transaction
<1>7. CASE CommitDeleteTransaction(w) /\ ~Refuse(w)
  <2>1. /\ transactions' = Remove(transactions, {call[w].transaction})
        /\ UNCHANGED <<requests, issued>>
    BY <1>7 DEF CommitDeleteTransaction
  <2>2. /\ DOMAIN accounts' = DOMAIN accounts
        /\ \A b \in DOMAIN accounts :
             accounts'[b].customer_id = accounts[b].customer_id
    <3>1. CASE accounts' = accounts
      BY <3>1
    <3>2. CASE accounts' # accounts
      BY <1>7, <3>2, SetBalanceStable
         DEF CommitDeleteTransaction, BalanceWritable
    <3> QED
      BY <3>1, <3>2
  <2> QED
    BY <1>0, <2>1, <2>2 DEF Remove, Stable
<1>8. CASE CommitCreateRequest(w)
  <2>1. PICK r, row :
          /\ r \notin issued
          /\ issued' = issued \cup {r}
          /\ requests' = Put(requests, r, row)
          /\ UNCHANGED <<accounts, transactions>>
    BY <1>8 DEF CommitCreateRequest, Atomic!Issue
  <2> QED
    BY <1>0, <2>1 DEF Put, Stable
<1>9. CASE \/ CommitUpdateDetails(w) /\ ~Refuse(w)
           \/ CommitSetStatus(w) /\ ~Refuse(w)
           \/ CommitDeleteRequest(w)
  <2>1. /\ UNCHANGED <<accounts, transactions, issued>>
        /\ DOMAIN requests' \subseteq DOMAIN requests
    BY <1>9 DEF CommitUpdateDetails, CommitSetStatus, CommitDeleteRequest,
                Remove
  <2> QED
    BY <2>1 DEF Stable
<1> QED
  BY <1>1, <1>2, <1>3, <1>4, <1>5, <1>6, <1>7, <1>8, <1>9 DEF Commit

(* Everything else leaves the tables alone.                                *)
LEMMA OnlyCommitsWrite ==
  ASSUME [Next]_vars
  PROVE  UNCHANGED tables \/ \E w \in Workers : Commit(w)
BY DEF Next, Receive, Step, Authorise, ReadTransaction, ReadBalance,
       FindAccount, ReadRequest, CascadeTransactions, CascadeRequests, Abort,
       Refuse, vars

(* Neither does any other step.                                            *)
LEMMA StepStable ==
  ASSUME Inv, [Next]_vars
  PROVE  Stable
<1>1. CASE UNCHANGED tables
  BY <1>1 DEF tables, Stable
<1> QED
  BY <1>1, CommitStable, OnlyCommitsWrite

(* A deleted row never comes back, whatever the calls that still hold what *)
(* they read of it.                                                        *)
THEOREM NoResurrection == Spec => DeletedStaysDeleted
<1>1. ASSUME Inv, [Next]_vars
      PROVE  (issued \ Live) \cap Live' = {}
  BY <1>1, StepStable DEF Stable, Live
<1> QED
  BY <1>1, Invariance, PTL DEF Spec, DeletedStaysDeleted

-----------------------------------------------------------------------------
(* What the ownership check has established stays established.             *)

CallerOwns(c, a) ==
  a \in issued /\ (a \in DOMAIN accounts => accounts[a].customer_id = c)

Belongs(c, t) ==
  /\ t \in issued
  /\ t \in DOMAIN transactions => CallerOwns(c, transactions[t].account_id)

OwnerOK(w) ==
  /\ /\ pc[w] \in {"read_account", "write"}
     /\ call[w].op = "create_transaction"
     => CallerOwns(call[w].customer, call[w].account)
  /\ pc[w] = "write" /\ call[w].op = "update_account" =>
       CallerOwns(call[w].customer, call[w].account)
  /\ pc[w] = "read_transaction" =>
       Belongs(call[w].customer, call[w].transaction)
  /\ /\ pc[w] \in {"read_account", "write"}
     /\ call[w].op \in {"update_transaction", "delete_transaction"}
     => CallerOwns(call[w].customer, read[w].account)
  /\ pc[w] = "write" /\ call[w].op = "create_transaction" =>
       read[w].account = call[w].account

OwnInv == Inv /\ \A w \in Workers : OwnerOK(w)

(* Ownership, once it holds of an account or of an id that is gone, goes   *)
(* on holding.                                                             *)
LEMMA OwnsStable ==
  ASSUME Stable, NEW c, NEW a, CallerOwns(c, a)
  PROVE  CallerOwns(c, a)'
BY DEF Stable, CallerOwns

(* So does the ownership of a transaction.                                 *)
LEMMA BelongsStable ==
  ASSUME Stable, NEW c, NEW t, Belongs(c, t)
  PROVE  Belongs(c, t)'
<1>1. t \in DOMAIN transactions' =>
        CallerOwns(c, transactions'[t].account_id)
  BY DEF Stable, Belongs
<1> QED
  BY <1>1, OwnsStable DEF Stable, Belongs, CallerOwns

(* A worker that does not move keeps what it knows.                        *)
LEMMA OwnerKept ==
  ASSUME Stable, NEW v \in Workers, OwnerOK(v),
         pc'[v] = pc[v], call'[v] = call[v], read'[v] = read[v]
  PROVE  OwnerOK(v)'
<1>1. PICK c, a, b, t :
        /\ c = call[v].customer /\ a = call[v].account
        /\ t = call[v].transaction /\ b = read[v].account
  OBVIOUS
<1>2. /\ CallerOwns(c, a) => CallerOwns(c, a)'
      /\ CallerOwns(c, b) => CallerOwns(c, b)'
      /\ Belongs(c, t) => Belongs(c, t)'
  BY OwnsStable, BelongsStable
<1>3. /\ CallerOwns(call[v].customer, call[v].account)' <=> CallerOwns(c, a)'
      /\ CallerOwns(call[v].customer, read[v].account)' <=> CallerOwns(c, b)'
      /\ Belongs(call[v].customer, call[v].transaction)' <=> Belongs(c, t)'
  BY <1>1 DEF CallerOwns, Belongs
<1>4. /\ CallerOwns(call[v].customer, call[v].account) <=> CallerOwns(c, a)
      /\ CallerOwns(call[v].customer, read[v].account) <=> CallerOwns(c, b)
      /\ Belongs(call[v].customer, call[v].transaction) <=> Belongs(c, t)
  BY <1>1
<1> QED
  BY <1>2, <1>3, <1>4 DEF OwnerOK

(* Before the first call the ownership invariant holds.                    *)
LEMMA OwnInit == Init => OwnInv
BY InitInv DEF OwnInv, OwnerOK, Init

(* The worker that moves: the authorisation establishes what the later     *)
(* stages rely on.                                                         *)
LEMMA AuthoriseOwner ==
  ASSUME Inv, NEW w \in Workers, Authorise(w), ~Refuse(w)
  PROVE  OwnerOK(w)'
<1>1. /\ Authorised(call[w])
      /\ pc' = [pc EXCEPT ![w] =
                  CASE call[w].op = "create_transaction" -> "read_account"
                    [] call[w].op \in {"update_transaction",
                                       "delete_transaction"} ->
                         "read_transaction"
                    [] call[w].op = "delete_request" -> "read_request"
                    [] OTHER -> "write"]
      /\ UNCHANGED <<tables, call, read, locked>>
  BY DEF Authorise, Goto
<1>2. /\ DOMAIN accounts \subseteq issued
      /\ DOMAIN transactions \subseteq issued
      /\ pc \in [Workers -> PCs]
  BY DEF Inv, TypeOK, TablesOK, Live
<1>3. pc'[w] = CASE call[w].op = "create_transaction" -> "read_account"
                 [] call[w].op \in {"update_transaction",
                                    "delete_transaction"} ->
                      "read_transaction"
                 [] call[w].op = "delete_request" -> "read_request"
                 [] OTHER -> "write"
  BY <1>1, <1>2
<1>4. call[w].op \in {"update_account", "create_transaction"} =>
        CallerOwns(call[w].customer, call[w].account)
  BY <1>1, <1>2 DEF Authorised, Atomic!Owns, CallerOwns
<1>5. call[w].op \in {"update_transaction", "delete_transaction"} =>
        Belongs(call[w].customer, call[w].transaction)
  BY <1>1, <1>2 DEF Authorised, Atomic!Owns, CallerOwns, Belongs
<1>6. /\ CallerOwns(call[w].customer, call[w].account)' =
           CallerOwns(call[w].customer, call[w].account)
      /\ Belongs(call[w].customer, call[w].transaction)' =
           Belongs(call[w].customer, call[w].transaction)
  BY <1>1 DEF CallerOwns, Belongs, tables
<1>7. call' = call /\ read' = read
  BY <1>1
<1> QED
  BY <1>3, <1>4, <1>5, <1>6, <1>7 DEF OwnerOK

(* The reads of the money operations keep what the authorisation           *)
(* established, and carry it over to the account they read.                *)
LEMMA ReadOwner ==
  ASSUME OwnInv, NEW w \in Workers, ~Refuse(w),
         ReadTransaction(w) \/ ReadBalance(w)
  PROVE  OwnerOK(w)'
<1>0. /\ pc \in [Workers -> PCs]
      /\ read \in [Workers -> [account : AccountIds \cup {NoAccount},
                               balance : Int, amount : Int]]
      /\ OwnerOK(w)
      /\ WorkerOK(w)
  BY DEF OwnInv, Inv, TypeOK
<1>1. CASE ReadTransaction(w)
  <2>1. /\ pc[w] = "read_transaction"
        /\ call[w].transaction \in DOMAIN transactions
        /\ read'[w].account = transactions[call[w].transaction].account_id
        /\ pc'[w] = "read_account"
        /\ UNCHANGED <<tables, call>>
    BY <1>0, <1>1 DEF ReadTransaction, Goto
  <2>2. call[w].op \in {"update_transaction", "delete_transaction"}
    BY <1>0, <2>1 DEF WorkerOK
  <2>3. CallerOwns(call[w].customer, read'[w].account)
    BY <1>0, <2>1 DEF OwnerOK, Belongs
  <2> QED
    BY <2>1, <2>2, <2>3 DEF OwnerOK, CallerOwns, tables
<1>2. CASE ReadBalance(w)
  <2>1. /\ pc[w] = "read_account"
        /\ call[w].op # "delete_account"
        /\ read'[w].account = IF call[w].op = "create_transaction"
                                THEN call[w].account ELSE read[w].account
        /\ pc'[w] = "write"
        /\ UNCHANGED <<tables, call>>
    BY <1>0, <1>2 DEF ReadBalance, Goto
  <2>2. call[w].op \in MoneyOps
    BY <1>0, <2>1 DEF WorkerOK
  <2>3. CASE call[w].op = "create_transaction"
    BY <1>0, <2>1, <2>3 DEF OwnerOK, CallerOwns, tables
  <2>4. CASE call[w].op \in {"update_transaction", "delete_transaction"}
    BY <1>0, <2>1, <2>4 DEF OwnerOK, CallerOwns, tables
  <2> QED
    BY <2>2, <2>3, <2>4 DEF MoneyOps
<1> QED
  BY <1>1, <1>2

(* In every other step the worker ends in a stage that needs nothing.      *)
LEMMA OtherOwner ==
  ASSUME OwnInv, NEW w \in Workers,
         \/ Receive(w) \/ FindAccount(w) \/ ReadRequest(w) \/ Commit(w)
         \/ CascadeTransactions(w) \/ CascadeRequests(w) \/ Refuse(w)
  PROVE  OwnerOK(w)'
<1>0. /\ pc \in [Workers -> PCs]
      /\ call \in [Workers -> Calls \cup {NoCall}]
      /\ WorkerOK(w)
  BY DEF OwnInv, Inv, TypeOK
<1>1. CASE Return(w)
  BY <1>0, <1>1 DEF Return, Goto, OwnerOK
<1>2. CASE Commit(w) \/ Refuse(w)
  BY <1>1, <1>2
     DEF Refuse, Commit, CommitCreateAccount, CommitUpdateAccount,
         CommitDeleteAccount, CommitCreateTransaction, CommitUpdateTransaction,
         CommitDeleteTransaction, CommitCreateRequest, CommitUpdateDetails,
         CommitSetStatus, CommitDeleteRequest
<1>3. CASE Receive(w)
  <2>1. \/ pc'[w] = "write" /\ call'[w].op = "create_account"
        \/ pc'[w] = "read_account" /\ call'[w].op = "delete_account"
        \/ pc'[w] = "read_request"
        \/ pc'[w] = "authorise"
    BY <1>0, <1>3 DEF Receive, Goto
  <2> QED
    BY <2>1 DEF OwnerOK
<1>4. CASE \/ FindAccount(w) \/ ReadRequest(w)
           \/ CascadeTransactions(w) \/ CascadeRequests(w)
  <2>1. CASE Return(w)
    BY <1>1, <2>1
  <2>2. CASE ~Return(w)
    <3>1. /\ call'[w].op \in {"delete_account", "set_status", "delete_request"}
          /\ pc'[w] \in {"cascade_transactions", "cascade_requests", "write"}
      BY <1>0, <1>4, <2>2
         DEF FindAccount, ReadRequest, CascadeTransactions, CascadeRequests,
             Refuse, Goto, WorkerOK
    <3> QED
      BY <3>1 DEF OwnerOK
  <2> QED
    BY <2>1, <2>2
<1> QED
  BY <1>2, <1>3, <1>4

(* Every step of every worker preserves the ownership invariant.           *)
LEMMA OwnNext ==
  ASSUME OwnInv, [Next]_vars
  PROVE  OwnInv'
<1>1. Inv' /\ Stable
  BY NextInv, StepStable DEF OwnInv
<1>2. CASE UNCHANGED vars
  BY <1>1, <1>2, OwnerKept DEF OwnInv, vars, locals
<1>3. ASSUME NEW w \in Workers, Receive(w) \/ Step(w) \/ Abort(w)
      PROVE  \A v \in Workers : OwnerOK(v)'
  <2>1. LocalsOK
    BY DEF OwnInv, Inv, TypeOK, LocalsOK
  <2>2. OthersSame(w)
    BY <1>3, <2>1
       DEF LocalsOK, OthersSame, Receive, Step, Abort, Refuse, Return, Goto,
           Authorise, ReadTransaction, ReadBalance, FindAccount, ReadRequest,
           CascadeTransactions, CascadeRequests, Commit, CommitCreateAccount,
           CommitUpdateAccount, CommitDeleteAccount, CommitCreateTransaction,
           CommitUpdateTransaction, CommitDeleteTransaction,
           CommitCreateRequest, CommitUpdateDetails, CommitSetStatus,
           CommitDeleteRequest
  <2>3. \A v \in Workers \ {w} : OwnerOK(v)'
    BY <1>1, <2>2, OwnerKept DEF OwnInv, OthersSame
  <2>4. OwnerOK(w)'
    BY <1>3, AuthoriseOwner, ReadOwner, OtherOwner DEF Step, Abort, OwnInv
  <2> QED
    BY <2>3, <2>4
<1> QED
  BY <1>1, <1>2, <1>3 DEF OwnInv, Next

(* A commit that changes an account is its owner's.                        *)
LEMMA ChangesAreTheOwners ==
  ASSUME OwnInv, NEW w \in Workers, Commit(w),
         NEW a \in DOMAIN accounts \cap DOMAIN accounts',
         accounts'[a] # accounts[a]
  PROVE  /\ pc[w] = "write"
         /\ pc'[w] = "idle"
         /\ call[w].op \in {"update_account", "create_transaction",
                            "update_transaction", "delete_transaction"}
         /\ call[w].customer = accounts[a].customer_id
<1>0. /\ OwnerOK(w) /\ Inv
      /\ pc \in [Workers -> PCs]
      /\ DOMAIN accounts \subseteq issued
  BY DEF OwnInv, Inv, TypeOK, TablesOK, Live
<1>1. CASE CommitUpdateAccount(w)
  <2>1. call[w].account = a
    BY <1>1 DEF CommitUpdateAccount, Refuse, tables
  <2> QED
    BY <1>0, <1>1, <2>1
       DEF CommitUpdateAccount, AtWrite, Refuse, Return, Goto, OwnerOK,
           CallerOwns
<1>2. CASE \/ CommitCreateTransaction(w) \/ CommitUpdateTransaction(w)
           \/ CommitDeleteTransaction(w)
  <2>1. /\ pc[w] = "write"
        /\ call[w].op \in MoneyOps
        /\ read[w].account \in DOMAIN accounts
        /\ Atomic!SetBalance(read[w].account, NewBalance(w))
        /\ Return(w)
    BY <1>2
       DEF CommitCreateTransaction, CommitUpdateTransaction,
           CommitDeleteTransaction, AtWrite, BalanceWritable, Refuse, tables,
           MoneyOps
  <2>2. read[w].account = a
    BY <1>0, <2>1, SetBalanceStable
  <2>3. CallerOwns(call[w].customer, read[w].account)
    BY <1>0, <2>1 DEF OwnerOK, MoneyOps
  <2> QED
    BY <1>0, <2>1, <2>2, <2>3 DEF CallerOwns, Return, Goto, MoneyOps
<1>3. CASE CommitCreateAccount(w)
  BY <1>0, <1>3
     DEF CommitCreateAccount, Atomic!CreateAccount, Atomic!Issue, Atomic!Put,
         Refuse, tables
<1>4. CASE CommitDeleteAccount(w)
  BY <1>4 DEF CommitDeleteAccount, Remove
<1>5. CASE \/ CommitCreateRequest(w) \/ CommitUpdateDetails(w)
           \/ CommitSetStatus(w) \/ CommitDeleteRequest(w)
  BY <1>5 DEF CommitCreateRequest, CommitUpdateDetails, CommitSetStatus,
              CommitDeleteRequest, Refuse, tables
<1> QED
  BY <1>1, <1>2, <1>3, <1>4, <1>5 DEF Commit

(* However calls overlap, an account changes only in a call of the         *)
(* customer who owns it: the owner checked in authz.require_owner's own    *)
(* session is still the owner when the call commits.                       *)
THEOREM OwnersOnly == Spec => OnlyTheOwnerChangesAccounts
<1>1. ASSUME OwnInv, [Next]_vars
      PROVE  \A a \in DOMAIN accounts \cap DOMAIN accounts' :
               accounts'[a] # accounts[a] =>
                 \E w \in Workers :
                   /\ pc[w] = "write"
                   /\ pc'[w] = "idle"
                   /\ call[w].op \in {"update_account", "create_transaction",
                                      "update_transaction",
                                      "delete_transaction"}
                   /\ call[w].customer = accounts[a].customer_id
  BY <1>1, OnlyCommitsWrite, ChangesAreTheOwners DEF tables
<1> QED
  BY <1>1, OwnInit, OwnNext, PTL DEF Spec, OnlyTheOwnerChangesAccounts

-----------------------------------------------------------------------------
(***************************************************************************)
(* Calls that do not overlap, statement by statement, do what the atomic   *)
(* Ledger says: with a single worker, Servers implements Ledger.  While a  *)
(* call runs nobody else commits, so that what its session has read is     *)
(* still true when it writes.                                              *)
(***************************************************************************)

OneWorker == \E w : Workers = {w}

-----------------------------------------------------------------------------
(* The operators of the instance are those of this module.                 *)

(* The column rounds and refuses alike.                                    *)
LEMMA SameMoney ==
  \A x : Atomic!Quantise(x) = Quantise(x) /\ (Atomic!Storable(x) <=> Storable(x))
BY DEF Atomic!Quantise, Quantise, Atomic!Storable, Storable

(* So do rows come and go.                                                 *)
LEMMA SameTables ==
  \A f, i, row, S : Atomic!Put(f, i, row) = Put(f, i, row)
                    /\ Atomic!Remove(f, S) = Remove(f, S)
BY DEF Atomic!Put, Put, Atomic!Remove, Remove

(* What the calls of the specification carry, for the quantifiers of       *)
(* Ledger's next-state relation.                                           *)
LEMMA CallArguments ==
  ASSUME NEW c \in Calls
  PROVE  /\ c.op \notin {"delete_account", "set_status"} =>
              c.customer \in Customers
         /\ c.op = "create_account" => c.balance \in OpeningBalances
         /\ c.op \in {"create_transaction", "update_transaction"} =>
              c.amount \in Amounts
BY DEF Calls

-----------------------------------------------------------------------------
(* Balances are stored as the column keeps them.                           *)

Stored ==
  \A a \in DOMAIN accounts :
    LET b == accounts[a].balance IN
    b \in Int /\ Quantise(b) = b /\ b \in -MaxStored .. MaxStored

(* The table of accounts is a function.                                    *)
IsTable == accounts = [a \in DOMAIN accounts |-> accounts[a]]

OwnsRow(c, t) ==
  t \in DOMAIN transactions /\ Atomic!Owns(c, transactions[t].account_id)

OwnsRequest(c, r) ==
  r \in DOMAIN requests /\ Atomic!Owns(c, requests[r].account_id)

(* What a call has found out is still so: at each stage, of the rows it    *)
(* names and of the values it has read.                                    *)
FreshAccount(c, stage, kept) ==
  /\ c.op = "update_account" /\ stage = "write" =>
       Atomic!Owns(c.customer, c.account)
  /\ c.op = "delete_account" =>
       /\ stage \in {"cascade_transactions", "cascade_requests", "write"} =>
            c.account \in DOMAIN accounts
       /\ stage = "cascade_requests" =>
            kept = Atomic!RowsOf(transactions, c.account)
       /\ stage = "write" =>
            kept = Atomic!RowsOf(transactions, c.account)
                     \cup Atomic!RowsOf(requests, c.account)

FreshTransaction(c, stage, seen) ==
  /\ c.op = "create_transaction" =>
       /\ stage \in {"read_account", "write"} =>
            Atomic!Owns(c.customer, c.account)
       /\ stage = "write" => seen.account = c.account
  /\ c.op \in {"update_transaction", "delete_transaction"} =>
       /\ stage \in {"read_transaction", "read_account", "write"} =>
            OwnsRow(c.customer, c.transaction)
       /\ stage \in {"read_account", "write"} =>
            /\ seen.account = transactions[c.transaction].account_id
            /\ seen.amount = transactions[c.transaction].amount
  /\ c.op \in {"create_transaction", "update_transaction"} =>
       (stage = "write" => c.amount # 0)
  /\ c.op \in MoneyOps /\ stage = "write" =>
       seen.balance = accounts[seen.account].balance

FreshRequest(c, stage) ==
  /\ c.op = "create_request" /\ stage = "write" =>
       Atomic!Owns(c.customer, c.account)
  /\ c.op = "update_details" /\ stage = "write" =>
       OwnsRequest(c.customer, c.request)
  /\ c.op = "delete_request" /\ stage \in {"read_request", "write"} =>
       OwnsRequest(c.customer, c.request)
  /\ c.op = "set_status" /\ stage = "write" =>
       /\ c.request \in DOMAIN requests
       /\ c.status \in AllowedStatusTransitions[requests[c.request].status]

Fresh(w) ==
  /\ pc[w] = "authorise" =>
       call[w].op \notin {"create_account", "delete_account", "set_status"}
  /\ FreshAccount(call[w], pc[w], locked[w])
  /\ FreshTransaction(call[w], pc[w], read[w])
  /\ FreshRequest(call[w], pc[w])

SeqInv == Inv /\ Stored /\ IsTable /\ \A w \in Workers : Fresh(w)

(* Nothing is known of a worker without a call.                            *)
LEMMA IdleFresh ==
  ASSUME NEW w \in Workers, pc'[w] = "idle"
  PROVE  Fresh(w)'
BY DEF Fresh, FreshAccount, FreshTransaction, FreshRequest

(* Before the first call the invariant holds.                              *)
LEMMA SeqInit == Init => SeqInv
BY InitInv DEF Init, SeqInv, Stored, IsTable, Fresh, FreshAccount, FreshTransaction,
   FreshRequest, Atomic!Init

-----------------------------------------------------------------------------
(* Steps that do not commit: the tables stay as they are, and the worker   *)
(* knows more than before.                                                 *)

(* A worker that moves on without a commit has to know what its next stage *)
(* asks for.                                                               *)
LEMMA MovedFresh ==
  ASSUME NEW w \in Workers, UNCHANGED tables,
         NEW c, NEW stage, NEW seen, NEW kept,
         pc'[w] = stage, call'[w] = c, read'[w] = seen, locked'[w] = kept,
         stage = "authorise" =>
           c.op \notin {"create_account", "delete_account", "set_status"},
         FreshAccount(c, stage, kept),
         FreshTransaction(c, stage, seen),
         FreshRequest(c, stage)
  PROVE  Fresh(w)'
BY DEF Fresh, tables, FreshAccount, FreshTransaction, FreshRequest,
       OwnsRow, OwnsRequest, Atomic!Owns, Atomic!RowsOf

(* A call that arrives knows nothing yet.                                  *)
LEMMA ReceiveFresh ==
  ASSUME SeqInv, NEW w \in Workers, Receive(w)
  PROVE  Fresh(w)'
<1>1. PICK c, stage :
        /\ c \in Calls
        /\ call' = [call EXCEPT ![w] = c]
        /\ stage = (CASE c.op = "create_account" -> "write"
                      [] c.op = "delete_account" -> "read_account"
                      [] c.op = "set_status"     -> "read_request"
                      [] OTHER                   -> "authorise")
        /\ Goto(w, stage)
        /\ UNCHANGED <<tables, read, locked>>
  BY DEF Receive
<1>2. /\ pc'[w] = stage /\ call'[w] = c
      /\ read' = read /\ locked' = locked
      /\ UNCHANGED tables
  BY <1>1 DEF Goto, SeqInv, Inv, TypeOK
<1>3. /\ FreshAccount(c, stage, locked[w])
      /\ FreshTransaction(c, stage, read[w])
      /\ FreshRequest(c, stage)
  BY <1>1 DEF FreshAccount, FreshTransaction, FreshRequest, MoneyOps
<1> QED
  BY <1>1, <1>2, <1>3, MovedFresh

(* The ownership check.                                                    *)
LEMMA AuthoriseFresh ==
  ASSUME SeqInv, NEW w \in Workers, Authorise(w)
  PROVE  Fresh(w)'
<1>0. pc \in [Workers -> PCs] /\ WorkerOK(w) /\ Fresh(w)
  BY DEF SeqInv, Inv, TypeOK
<1>1. CASE Refuse(w)
  BY <1>0, <1>1, IdleFresh DEF Refuse, Return, Goto
<1>2. CASE ~Refuse(w)
  <2>1. PICK c, stage :
          /\ c = call[w]
          /\ c.op \notin {"create_account", "delete_account", "set_status"}
          /\ stage = (CASE c.op = "create_transaction" -> "read_account"
                        [] c.op \in {"update_transaction",
                                     "delete_transaction"} ->
                             "read_transaction"
                        [] c.op = "delete_request" -> "read_request"
                        [] OTHER -> "write")
          /\ Goto(w, stage)
          /\ Authorised(c)
          /\ UNCHANGED <<tables, call, read, locked>>
    BY <1>0, <1>2 DEF Authorise, Fresh
  <2>2. /\ pc'[w] = stage /\ call'[w] = c
        /\ read' = read /\ locked' = locked
        /\ UNCHANGED tables
    BY <1>0, <2>1 DEF Goto
  <2>3. FreshAccount(c, stage, locked[w])
    BY <2>1 DEF FreshAccount, Authorised
  <2>4. FreshTransaction(c, stage, read[w])
    BY <2>1 DEF FreshTransaction, Authorised, OwnsRow, MoneyOps
  <2>5. FreshRequest(c, stage)
    BY <2>1 DEF FreshRequest, Authorised, OwnsRequest
  <2> QED
    BY <2>1, <2>2, <2>3, <2>4, <2>5, MovedFresh
<1> QED
  BY <1>1, <1>2

(* The reads of the transactions server.                                   *)
LEMMA ReadFresh ==
  ASSUME SeqInv, NEW w \in Workers, ReadTransaction(w) \/ ReadBalance(w)
  PROVE  Fresh(w)'
<1>0. /\ pc \in [Workers -> PCs] /\ WorkerOK(w) /\ Fresh(w)
      /\ read \in [Workers -> [account : AccountIds \cup {NoAccount},
                               balance : Int, amount : Int]]
  BY DEF SeqInv, Inv, TypeOK
<1>1. CASE Refuse(w)
  BY <1>0, <1>1, IdleFresh DEF Refuse, Return, Goto
<1>2. CASE ReadTransaction(w) /\ ~Refuse(w)
  <2>1. PICK c, seen :
          /\ c = call[w]
          /\ c.op \in {"update_transaction", "delete_transaction"}
          /\ OwnsRow(c.customer, c.transaction)
          /\ seen = [account |-> transactions[c.transaction].account_id,
                     balance |-> 0,
                     amount  |-> transactions[c.transaction].amount]
          /\ read' = [read EXCEPT ![w] = seen]
          /\ Goto(w, "read_account")
          /\ UNCHANGED <<tables, call, locked>>
    BY <1>0, <1>2 DEF ReadTransaction, WorkerOK, Fresh, FreshTransaction
  <2>2. /\ pc'[w] = "read_account" /\ call'[w] = c
        /\ read'[w] = seen /\ locked' = locked
        /\ UNCHANGED tables
    BY <1>0, <2>1 DEF Goto
  <2>3. /\ FreshAccount(c, "read_account", locked[w])
        /\ FreshTransaction(c, "read_account", seen)
        /\ FreshRequest(c, "read_account")
    BY <2>1 DEF FreshAccount, FreshTransaction, FreshRequest
  <2> QED
    BY <2>2, <2>3, MovedFresh
<1>3. CASE ReadBalance(w) /\ ~Refuse(w)
  <2>1. PICK c, a, seen :
          /\ c = call[w]
          /\ c.op \in MoneyOps
          /\ a = IF c.op = "create_transaction" THEN c.account
                                                ELSE read[w].account
          /\ c.op \in {"create_transaction", "update_transaction"} =>
               c.amount # 0
          /\ seen = [account |-> a, balance |-> accounts[a].balance,
                     amount  |-> read[w].amount]
          /\ read' = [read EXCEPT ![w] = seen]
          /\ Goto(w, "write")
          /\ pc[w] = "read_account"
          /\ UNCHANGED <<tables, call, locked>>
    BY <1>0, <1>3 DEF ReadBalance, WorkerOK
  <2>2. /\ pc'[w] = "write" /\ call'[w] = c
        /\ read'[w] = seen /\ locked' = locked
        /\ UNCHANGED tables
    BY <1>0, <2>1 DEF Goto
  <2>3. FreshTransaction(c, "write", seen)
    BY <1>0, <2>1 DEF Fresh, FreshTransaction, MoneyOps
  <2>4. FreshAccount(c, "write", locked[w]) /\ FreshRequest(c, "write")
    BY <2>1 DEF FreshAccount, FreshRequest, MoneyOps
  <2> QED
    BY <2>2, <2>3, <2>4, MovedFresh
<1> QED
  BY <1>1, <1>2, <1>3

(* The reads of the service server.                                        *)
LEMMA ReadRequestFresh ==
  ASSUME SeqInv, NEW w \in Workers, ReadRequest(w)
  PROVE  Fresh(w)'
<1>0. pc \in [Workers -> PCs] /\ WorkerOK(w) /\ Fresh(w)
  BY DEF SeqInv, Inv, TypeOK
<1>1. CASE Refuse(w)
  BY <1>0, <1>1, IdleFresh DEF Refuse, Return, Goto
<1>2. CASE ~Refuse(w)
  <2>1. PICK c :
          /\ c = call[w]
          /\ c.op \in {"set_status", "delete_request"}
          /\ pc[w] = "read_request"
          /\ c.request \in DOMAIN requests
          /\ c.op = "set_status" =>
               c.status \in
                 AllowedStatusTransitions[requests[c.request].status]
          /\ Goto(w, "write")
          /\ UNCHANGED <<tables, call, read, locked>>
    BY <1>0, <1>2 DEF ReadRequest, WorkerOK
  <2>2. /\ pc'[w] = "write" /\ call'[w] = c
        /\ read' = read /\ locked' = locked
        /\ UNCHANGED tables
    BY <1>0, <2>1 DEF Goto
  <2>3. FreshRequest(c, "write")
    BY <1>0, <2>1 DEF Fresh, FreshRequest
  <2>4. FreshAccount(c, "write", locked[w])
        /\ FreshTransaction(c, "write", read[w])
    BY <2>1 DEF FreshAccount, FreshTransaction, MoneyOps
  <2> QED
    BY <2>2, <2>3, <2>4, MovedFresh
<1> QED
  BY <1>1, <1>2

(* delete_account finds its account and what hangs on it.                  *)
LEMMA CascadeFresh ==
  ASSUME SeqInv, NEW w \in Workers,
         FindAccount(w) \/ CascadeTransactions(w) \/ CascadeRequests(w)
  PROVE  Fresh(w)'
<1>0. /\ pc \in [Workers -> PCs] /\ locked \in [Workers -> SUBSET Ids]
      /\ WorkerOK(w) /\ Fresh(w)
  BY DEF SeqInv, Inv, TypeOK
<1>1. CASE Refuse(w)
  BY <1>0, <1>1, IdleFresh DEF Refuse, Return, Goto
<1>2. CASE ~Refuse(w)
  <2>1. PICK c, stage, kept :
          /\ c = call[w]
          /\ c.op = "delete_account"
          /\ c.account \in DOMAIN accounts
          /\ stage \in {"cascade_transactions", "cascade_requests", "write"}
          /\ stage = "cascade_requests" =>
               kept = Atomic!RowsOf(transactions, c.account)
          /\ stage = "write" =>
               kept = Atomic!RowsOf(transactions, c.account)
                        \cup Atomic!RowsOf(requests, c.account)
          /\ pc'[w] = stage
          /\ locked'[w] = kept
          /\ UNCHANGED <<tables, call, read>>
    <3>1. call[w].op = "delete_account"
      BY <1>0, <1>2 DEF FindAccount, CascadeTransactions, CascadeRequests,
                        WorkerOK
    <3>2. CASE FindAccount(w)
      BY <1>0, <1>2, <3>1, <3>2 DEF FindAccount, Goto
    <3>3. CASE CascadeTransactions(w)
      BY <1>0, <3>1, <3>3
         DEF CascadeTransactions, Goto, Fresh, FreshAccount
    <3>4. CASE CascadeRequests(w)
      BY <1>0, <3>1, <3>4 DEF CascadeRequests, Goto, Fresh, FreshAccount
    <3> QED
      BY <3>2, <3>3, <3>4
  <2>2. FreshAccount(c, stage, kept)
    BY <2>1 DEF FreshAccount
  <2>3. FreshTransaction(c, stage, read[w]) /\ FreshRequest(c, stage)
    BY <2>1 DEF FreshTransaction, FreshRequest, MoneyOps
  <2> QED
    BY <2>1, <2>2, <2>3, MovedFresh
<1> QED
  BY <1>1, <1>2

-----------------------------------------------------------------------------
(* Commits keep the balances as the column does.                           *)

(* A balance the column takes is stored in cents and in range.             *)
LEMMA SetBalanceStored ==
  ASSUME Inv, Stored, NEW a \in DOMAIN accounts, NEW balance \in Int,
         Storable(balance), Atomic!SetBalance(a, balance)
  PROVE  Stored'
<1> DEFINE q == Quantise(balance)
<1>1. q \in Int /\ Quantise(q) = q /\ q \in -MaxStored .. MaxStored
  BY QuantiseInt, QuantiseIdempotent DEF Storable
<1>2. accounts' = [accounts EXCEPT ![a].balance = q]
  BY SameMoney DEF Atomic!SetBalance
<1> HIDE DEF q
<1>3. \A b \in DOMAIN accounts : accounts[b] \in Account
  BY DEF Inv, TypeOK, TablesOK, Tables
<1>4. accounts'[a].balance = q
  BY <1>2, <1>3 DEF Account
<1>5. /\ DOMAIN accounts' = DOMAIN accounts
      /\ \A b \in DOMAIN accounts \ {a} : accounts'[b] = accounts[b]
  BY <1>2
<1> QED
  BY <1>1, <1>4, <1>5 DEF Stored

(* Every commit stores what the column can hold.                           *)
LEMMA CommitStored ==
  ASSUME SeqInv, NEW w \in Workers, Commit(w)
  PROVE  Stored'
<1>0. /\ Inv /\ Stored
      /\ \A b \in DOMAIN accounts : accounts[b] \in Account
  BY DEF SeqInv, Inv, TypeOK, TablesOK, Tables
<1>1. CASE UNCHANGED accounts
  BY <1>0, <1>1 DEF Stored
<1>2. CASE CommitCreateAccount(w) /\ ~UNCHANGED accounts
  <2>1. PICK c, a :
          /\ c \in Calls /\ c.op = "create_account"
          /\ Storable(c.balance)
          /\ accounts' = Put(accounts, a, [owner_name  |-> c.owner_name,
                                           balance     |-> Quantise(c.balance),
                                           customer_id |-> c.customer])
    <3>1. PICK c : c = call[w] /\ c \in Calls /\ c.op = "create_account"
      BY <1>0, <1>2 DEF CommitCreateAccount, AtWrite, Inv, WorkerOK
    <3>2. Atomic!CreateAccount(c.customer, c.owner_name, c.balance)
      BY <1>2, <3>1 DEF CommitCreateAccount, Refuse, tables
    <3>3. /\ Atomic!Quantise(c.balance) = Quantise(c.balance)
          /\ Atomic!Storable(c.balance) => Storable(c.balance)
      BY SameMoney
    <3>4. PICK a : accounts' = Put(accounts, a,
                                   [owner_name  |-> c.owner_name,
                                    balance     |-> Atomic!Quantise(c.balance),
                                    customer_id |-> c.customer])
      BY <3>2, SameTables DEF Atomic!CreateAccount
    <3>5. Storable(c.balance)
      BY <3>2, <3>3 DEF Atomic!CreateAccount, Atomic!Acceptable
    <3> QED
      BY <3>1, <3>3, <3>4, <3>5
  <2> DEFINE q == Quantise(c.balance)
  <2>2. q \in Int /\ Quantise(q) = q /\ q \in -MaxStored .. MaxStored
    BY <2>1, CallFields, MoneyAssumption, QuantiseInt, QuantiseIdempotent
       DEF Storable
  <2> HIDE DEF q
  <2>3. \A b \in DOMAIN accounts' :
          accounts'[b].balance = IF b = a THEN q ELSE accounts[b].balance
    BY <2>1 DEF Put, q
  <2>4. DOMAIN accounts' = DOMAIN accounts \cup {a}
    BY <2>1 DEF Put
  <2> QED
    BY <1>0, <2>2, <2>3, <2>4 DEF Stored
<1>3. CASE CommitUpdateAccount(w) /\ ~UNCHANGED accounts
  <2>1. /\ DOMAIN accounts' = DOMAIN accounts
        /\ \A b \in DOMAIN accounts :
             accounts'[b].balance = accounts[b].balance
    BY <1>0, <1>3 DEF CommitUpdateAccount, Refuse, tables, Account
  <2> QED
    BY <1>0, <2>1 DEF Stored
<1>4. CASE CommitDeleteAccount(w)
  BY <1>0, <1>4 DEF CommitDeleteAccount, Remove, Stored
<1>5. CASE /\ \/ CommitCreateTransaction(w)
              \/ CommitUpdateTransaction(w)
              \/ CommitDeleteTransaction(w)
           /\ ~UNCHANGED accounts
  <2>1. /\ Atomic!SetBalance(read[w].account, NewBalance(w))
        /\ BalanceWritable(w)
        /\ pc[w] = "write" /\ call[w].op \in MoneyOps
    BY <1>5 DEF CommitCreateTransaction, CommitUpdateTransaction,
       CommitDeleteTransaction, Refuse, tables, AtWrite, MoneyOps
  <2> QED
    BY <1>0, <2>1, NewBalanceOK, SetBalanceStored DEF BalanceWritable
<1>6. CASE \/ CommitCreateRequest(w) \/ CommitUpdateDetails(w)
           \/ CommitSetStatus(w) \/ CommitDeleteRequest(w)
  BY <1>1, <1>6 DEF CommitCreateRequest, CommitUpdateDetails,
     CommitSetStatus, CommitDeleteRequest, Refuse, tables
<1> QED
  BY <1>1, <1>2, <1>3, <1>4, <1>5, <1>6 DEF Commit

(* Every commit makes a table of a table.                                  *)
LEMMA CommitTable ==
  ASSUME IsTable, NEW w \in Workers, Commit(w)
  PROVE  IsTable'
<1>1. CASE accounts' = accounts
  BY <1>1 DEF IsTable
<1>2. CASE accounts' # accounts
  <2>1. \/ CommitCreateAccount(w) \/ CommitUpdateAccount(w)
        \/ CommitDeleteAccount(w) \/ CommitCreateTransaction(w)
        \/ CommitUpdateTransaction(w) \/ CommitDeleteTransaction(w)
    BY <1>2 DEF Commit, CommitCreateRequest, CommitUpdateDetails,
       CommitSetStatus, CommitDeleteRequest, Refuse, tables
  <2>2. CASE CommitCreateAccount(w)
    <3>1. PICK a, row : accounts' = Put(accounts, a, row)
      BY <1>2, <2>2, SameTables
         DEF CommitCreateAccount, Atomic!CreateAccount, Refuse, tables
    <3> QED
      BY <3>1 DEF Put, IsTable
  <2>3. CASE CommitUpdateAccount(w)
    <3>1. PICK a, row : accounts' = [accounts EXCEPT ![a] = row]
      BY <1>2, <2>3 DEF CommitUpdateAccount, Refuse, tables
    <3> QED
      BY <3>1 DEF IsTable
  <2>4. CASE CommitDeleteAccount(w)
    BY <2>4 DEF CommitDeleteAccount, Remove, IsTable
  <2>5. CASE \/ CommitCreateTransaction(w) \/ CommitUpdateTransaction(w)
             \/ CommitDeleteTransaction(w)
    <3>1. PICK a, row : accounts' = [accounts EXCEPT ![a] = row]
      BY <1>2, <2>5 DEF CommitCreateTransaction, CommitUpdateTransaction,
         CommitDeleteTransaction, Atomic!SetBalance, Refuse, tables
    <3> QED
      BY <3>1 DEF IsTable
  <2> QED
    BY <2>1, <2>2, <2>3, <2>4, <2>5
<1> QED
  BY <1>1, <1>2

(* The invariant of calls that do not overlap.                             *)
LEMMA SeqNext ==
  ASSUME OneWorker, SeqInv, [Next]_vars
  PROVE  SeqInv'
<1>1. PICK w : Workers = {w}
  BY DEF OneWorker
<1>2. Inv'
  BY NextInv DEF SeqInv
<1>3. CASE UNCHANGED vars
  BY <1>2, <1>3 DEF vars, tables, locals, SeqInv, Stored, IsTable, Fresh, FreshAccount,
     FreshTransaction, FreshRequest, OwnsRow, OwnsRequest, Atomic!Owns,
     Atomic!RowsOf
<1>4. CASE Commit(w)
  <2>1. pc'[w] = "idle"
    BY <1>1, <1>4 DEF Commit, CommitCreateAccount, CommitUpdateAccount,
       CommitDeleteAccount, CommitCreateTransaction, CommitUpdateTransaction,
       CommitDeleteTransaction, CommitCreateRequest, CommitUpdateDetails,
       CommitSetStatus, CommitDeleteRequest, Refuse, Return, Goto,
       SeqInv, Inv, TypeOK
  <2> QED
    BY <1>1, <1>2, <1>4, <2>1, CommitStored, CommitTable, IdleFresh
       DEF SeqInv
<1>5. CASE Abort(w)
  <2>1. pc'[w] = "idle" /\ UNCHANGED accounts
    BY <1>1, <1>5 DEF Abort, Refuse, Return, Goto, tables, SeqInv, Inv, TypeOK
  <2> QED
    BY <1>1, <1>2, <2>1, IdleFresh DEF SeqInv, Stored, IsTable
<1>6. CASE Receive(w) \/ (Step(w) /\ ~Commit(w))
  <2>1. UNCHANGED accounts
    BY <1>6 DEF Receive, Step, Authorise, ReadTransaction, ReadBalance,
       FindAccount, ReadRequest, CascadeTransactions, CascadeRequests,
       Refuse, tables
  <2>2. Fresh(w)'
    BY <1>1, <1>6, ReceiveFresh, AuthoriseFresh, ReadFresh, ReadRequestFresh,
       CascadeFresh DEF Step
  <2> QED
    BY <1>1, <1>2, <2>1, <2>2 DEF SeqInv, Stored, IsTable
<1> QED
  BY <1>1, <1>3, <1>4, <1>5, <1>6 DEF Next

-----------------------------------------------------------------------------
(* Every commit is the step of Ledger its call stands for.                 *)

(* The commits of the accounts server.                                     *)
LEMMA AccountsRefine ==
  ASSUME SeqInv, NEW w \in Workers, ~Refuse(w),
         \/ CommitCreateAccount(w)
         \/ CommitUpdateAccount(w)
         \/ CommitDeleteAccount(w)
  PROVE  Atomic!AccountsNext
<1>0. /\ Inv /\ WorkerOK(w) /\ Fresh(w)
      /\ Tables(accounts, AccountIds, Account)
      /\ Tables(transactions, TransactionIds, Transaction)
      /\ Tables(requests, RequestIds, ServiceRequest)
  BY DEF SeqInv, Inv, TypeOK, TablesOK
<1>1. PICK c : c = call[w]
  OBVIOUS
<1>2. CASE CommitCreateAccount(w)
  <2>1. /\ c \in Calls /\ c.op = "create_account"
        /\ Atomic!CreateAccount(c.customer, c.owner_name, c.balance)
    BY <1>0, <1>1, <1>2 DEF CommitCreateAccount, AtWrite, WorkerOK
  <2>2. /\ c.customer \in Customers /\ c.owner_name \in OwnerNames
        /\ c.balance \in OpeningBalances
    BY <2>1, CallFields
  <2> QED
    BY <2>1, <2>2 DEF Atomic!AccountsNext
<1>3. CASE CommitUpdateAccount(w)
  <2>1. /\ c \in Calls /\ c.op = "update_account"
        /\ Atomic!Owns(c.customer, c.account)
        /\ accounts' = [accounts EXCEPT ![c.account].owner_name = c.owner_name]
        /\ UNCHANGED <<transactions, requests, opening, issued>>
    BY <1>0, <1>1, <1>3
       DEF CommitUpdateAccount, AtWrite, WorkerOK, Fresh, FreshAccount
  <2>2. Atomic!UpdateAccount(c.customer, c.account, c.owner_name)
    BY <2>1 DEF Atomic!UpdateAccount
  <2>3. /\ c.customer \in Customers /\ c.owner_name \in OwnerNames
        /\ c.account \in AccountIds
    BY <1>0, <2>1, CallFields, CallArguments DEF Atomic!Owns, Tables
  <2> QED
    BY <2>2, <2>3 DEF Atomic!AccountsNext
<1>4. CASE CommitDeleteAccount(w)
  <2> DEFINE ts == Atomic!RowsOf(transactions, c.account)
             rs == Atomic!RowsOf(requests, c.account)
  <2>1. /\ c.account \in DOMAIN accounts
        /\ accounts' = Remove(accounts, {c.account})
        /\ transactions' = Remove(transactions, ts \cup rs)
        /\ requests' = Remove(requests, ts \cup rs)
        /\ UNCHANGED <<opening, issued>>
    BY <1>0, <1>1, <1>4
       DEF CommitDeleteAccount, AtWrite, Fresh, FreshAccount
  <2>2. /\ DOMAIN transactions \cap rs = {}
        /\ DOMAIN requests \cap ts = {}
    BY <1>0, IdAssumption DEF Atomic!RowsOf, Tables
  <2>3. /\ transactions' = Remove(transactions, ts)
        /\ requests' = Remove(requests, rs)
    <3> HIDE DEF ts, rs
    <3>1. /\ DOMAIN transactions \ (ts \cup rs) = DOMAIN transactions \ ts
          /\ DOMAIN requests \ (ts \cup rs) = DOMAIN requests \ rs
      BY <2>2
    <3> QED
      BY <2>1, <3>1 DEF Remove
  <2>4. Atomic!DeleteAccount(c.account)
    BY <2>1, <2>3, SameTables DEF Atomic!DeleteAccount
  <2> QED
    BY <1>0, <2>1, <2>4 DEF Atomic!AccountsNext, Tables
<1> QED
  BY <1>2, <1>3, <1>4

(* What the commits of the transactions server know of their balance.      *)
LEMMA BalanceFresh ==
  ASSUME SeqInv, NEW w \in Workers, pc[w] = "write", call[w].op \in MoneyOps
  PROVE  /\ read[w].account \in DOMAIN accounts =>
              /\ NewBalance(w) = Adjusted(w, accounts[read[w].account].balance)
              /\ BalanceWritable(w) => Atomic!Acceptable(NewBalance(w))
         /\ Atomic!Owns(call[w].customer, read[w].account)
<1>1. Inv /\ WorkerOK(w) /\ Fresh(w)
  BY DEF SeqInv, Inv
<1>2. /\ read[w].balance = accounts[read[w].account].balance
      /\ Atomic!Owns(call[w].customer, read[w].account)
  BY <1>1 DEF Fresh, FreshTransaction, MoneyOps, OwnsRow
<1>3. BalanceWritable(w) => Atomic!Acceptable(NewBalance(w))
  BY <1>1, SameMoney DEF BalanceWritable, Atomic!Acceptable, WorkerOK
<1> QED
  BY <1>2, <1>3 DEF NewBalance

(* The commits of the transactions server: the balance read is the current *)
(* one.                                                                    *)
LEMMA CreateTransactionRefines ==
  ASSUME SeqInv, NEW w \in Workers, ~Refuse(w), CommitCreateTransaction(w)
  PROVE  Atomic!TransactionsNext
<1>0. /\ Inv /\ WorkerOK(w) /\ Fresh(w)
      /\ Tables(accounts, AccountIds, Account)
  BY DEF SeqInv, Inv, TypeOK, TablesOK
<1>1. PICK c, a : c = call[w] /\ a = c.account
  OBVIOUS
<1>2. /\ pc[w] = "write" /\ c.op = "create_transaction"
      /\ c \in Calls
      /\ a = read[w].account
      /\ c.amount # 0
      /\ BalanceWritable(w) /\ Storable(c.amount)
  BY <1>0, <1>1 DEF CommitCreateTransaction, AtWrite, WorkerOK, Fresh,
                    FreshTransaction
<1>3. /\ Atomic!Owns(c.customer, a)
      /\ NewBalance(w) = accounts[a].balance + c.amount
      /\ Atomic!Acceptable(NewBalance(w))
  BY <1>1, <1>2, BalanceFresh
     DEF Adjusted, MoneyOps, BalanceWritable
<1>4. PICK t \in TransactionIds :
        /\ Atomic!Issue(t)
        /\ transactions' = Put(transactions, t,
                               [account_id |-> a,
                                amount     |-> Quantise(c.amount)])
  BY <1>1, <1>2 DEF CommitCreateTransaction
<1>5. /\ Atomic!SetBalance(a, NewBalance(w))
      /\ UNCHANGED <<requests, opening>>
  BY <1>1, <1>2 DEF CommitCreateTransaction
<1>6. /\ transactions' = Atomic!Put(transactions, t,
                                    [account_id |-> a,
                                     amount |-> Atomic!Quantise(c.amount)])
      /\ Atomic!Storable(c.amount)
  BY <1>2, <1>4, SameMoney, SameTables
<1>7. Atomic!CreateTransaction(c.customer, a, c.amount)
  BY <1>2, <1>3, <1>4, <1>5, <1>6 DEF Atomic!CreateTransaction
<1>8. c.customer \in Customers /\ a \in AccountIds /\ c.amount \in Amounts
  BY <1>0, <1>2, <1>3, CallArguments DEF Atomic!Owns, Tables
<1> QED
  BY <1>7, <1>8 DEF Atomic!TransactionsNext

(* The balance read is the current one, so that the difference is added to *)
(* it.                                                                     *)
LEMMA UpdateTransactionRefines ==
  ASSUME SeqInv, NEW w \in Workers, ~Refuse(w), CommitUpdateTransaction(w)
  PROVE  Atomic!TransactionsNext
<1>0. /\ Inv /\ WorkerOK(w) /\ Fresh(w)
      /\ Tables(transactions, TransactionIds, Transaction)
  BY DEF SeqInv, Inv, TypeOK, TablesOK
<1>1. PICK c, t, a :
        c = call[w] /\ t = c.transaction /\ a = transactions[t].account_id
  OBVIOUS
<1>2. /\ pc[w] = "write" /\ c.op = "update_transaction"
      /\ c \in Calls
      /\ t \in DOMAIN transactions
      /\ a = read[w].account
      /\ transactions[t].amount = read[w].amount
      /\ c.amount # 0
      /\ BalanceWritable(w) /\ Storable(c.amount)
      /\ transactions' =
           [transactions EXCEPT ![t].amount = Quantise(c.amount)]
      /\ Atomic!SetBalance(a, NewBalance(w))
      /\ UNCHANGED <<requests, opening, issued>>
  BY <1>0, <1>1 DEF CommitUpdateTransaction, AtWrite, WorkerOK, Fresh,
                    FreshTransaction, OwnsRow
<1>3. /\ Atomic!Owns(c.customer, a)
      /\ NewBalance(w) =
           accounts[a].balance + (c.amount - transactions[t].amount)
      /\ Atomic!Acceptable(NewBalance(w))
  BY <1>1, <1>2, BalanceFresh
     DEF Adjusted, MoneyOps, BalanceWritable
<1>4. /\ transactions' =
           [transactions EXCEPT ![t].amount = Atomic!Quantise(c.amount)]
      /\ Atomic!Storable(c.amount)
  BY <1>2, SameMoney
<1>5. Atomic!UpdateTransaction(c.customer, t, c.amount)
  BY <1>1, <1>2, <1>3, <1>4 DEF Atomic!UpdateTransaction
<1>6. c.customer \in Customers /\ t \in TransactionIds /\ c.amount \in Amounts
  BY <1>0, <1>2, CallArguments DEF Tables
<1> QED
  BY <1>5, <1>6 DEF Atomic!TransactionsNext

(* A transaction of amount zero leaves the balance alone, as storing it    *)
(* again would.                                                            *)
LEMMA DeleteTransactionRefines ==
  ASSUME SeqInv, NEW w \in Workers, ~Refuse(w), CommitDeleteTransaction(w)
  PROVE  Atomic!TransactionsNext
<1>0. /\ Inv /\ WorkerOK(w) /\ Fresh(w) /\ Stored /\ IsTable
      /\ Tables(accounts, AccountIds, Account)
      /\ Tables(transactions, TransactionIds, Transaction)
  BY DEF SeqInv, Inv, TypeOK, TablesOK
<1>1. PICK c, t, a :
        c = call[w] /\ t = c.transaction /\ a = transactions[t].account_id
  OBVIOUS
<1>2. /\ pc[w] = "write" /\ c.op = "delete_transaction"
      /\ c \in Calls
      /\ t \in DOMAIN transactions
      /\ a = read[w].account
      /\ transactions[t].amount = read[w].amount
      /\ transactions' = Remove(transactions, {t})
      /\ UNCHANGED <<requests, opening, issued>>
  BY <1>0, <1>1 DEF CommitDeleteTransaction, AtWrite, WorkerOK, Fresh,
                    FreshTransaction, OwnsRow
<1>3. /\ Atomic!Owns(c.customer, a)
      /\ a \in DOMAIN accounts
      /\ NewBalance(w) = accounts[a].balance - transactions[t].amount
  BY <1>1, <1>2, BalanceFresh DEF Adjusted, MoneyOps, Atomic!Owns
<1>4. Atomic!Acceptable(NewBalance(w)) /\ Atomic!SetBalance(a, NewBalance(w))
  <2>1. CASE transactions[t].amount # 0
    <3>1. BalanceWritable(w) /\ Atomic!SetBalance(a, NewBalance(w))
      BY <1>1, <1>2, <2>1 DEF CommitDeleteTransaction
    <3> QED
      BY <1>1, <1>2, <1>3, <3>1, BalanceFresh DEF MoneyOps
  <2>2. CASE transactions[t].amount = 0
    <3>1. PICK b : b = accounts[a].balance
      OBVIOUS
    <3>2. /\ accounts' = accounts
          /\ b \in Int /\ b >= 0 /\ Quantise(b) = b
          /\ b \in -MaxStored .. MaxStored
          /\ NewBalance(w) = b
      BY <1>0, <1>1, <1>2, <1>3, <2>2, <3>1
         DEF CommitDeleteTransaction, Stored, Inv, NeverOverdrawn,
             Atomic!NeverOverdrawn
    <3>3. accounts = [accounts EXCEPT ![a].balance = b]
      <4>1. accounts[a] \in Account
        BY <1>0, <1>3 DEF Tables
      <4>2. accounts[a] = [accounts[a] EXCEPT !.balance = b]
        BY <3>1, <4>1 DEF Account
      <4>3. accounts = [d \in DOMAIN accounts |-> accounts[d]]
        BY <1>0 DEF IsTable
      <4> QED
        BY <1>3, <4>2, <4>3
    <3> QED
      BY <3>2, <3>3, SameMoney
         DEF Atomic!Acceptable, Atomic!SetBalance, Storable
  <2> QED
    BY <2>1, <2>2
<1>5. Atomic!DeleteTransaction(c.customer, t)
  BY <1>1, <1>2, <1>3, <1>4, SameTables DEF Atomic!DeleteTransaction
<1>6. c.customer \in Customers /\ t \in TransactionIds
  BY <1>0, <1>2, CallArguments DEF Tables
<1> QED
  BY <1>5, <1>6 DEF Atomic!TransactionsNext

(* The commits of the service server.                                      *)
LEMMA ServiceRefines ==
  ASSUME SeqInv, NEW w \in Workers, ~Refuse(w),
         \/ CommitCreateRequest(w)
         \/ CommitUpdateDetails(w)
         \/ CommitSetStatus(w)
         \/ CommitDeleteRequest(w)
  PROVE  Atomic!ServiceNext
<1>0. /\ Inv /\ WorkerOK(w) /\ Fresh(w)
      /\ Tables(accounts, AccountIds, Account)
      /\ Tables(requests, RequestIds, ServiceRequest)
  BY DEF SeqInv, Inv, TypeOK, TablesOK
<1>1. PICK c, r : c = call[w] /\ r = c.request
  OBVIOUS
<1>2. CASE CommitCreateRequest(w)
  <2>1. /\ c \in Calls /\ c.op = "create_request"
        /\ Atomic!Owns(c.customer, c.account)
        /\ UNCHANGED <<accounts, transactions, opening>>
    BY <1>0, <1>1, <1>2
       DEF CommitCreateRequest, AtWrite, WorkerOK, Fresh, FreshRequest
  <2>2. PICK i \in RequestIds :
          /\ Atomic!Issue(i)
          /\ requests' = Put(requests, i, [account_id |-> c.account,
                                           status     |-> "pending",
                                           details    |-> c.details])
    BY <1>1, <1>2 DEF CommitCreateRequest
  <2>3. Atomic!CreateServiceRequest(c.customer, c.account, c.details)
    BY <2>1, <2>2, SameTables DEF Atomic!CreateServiceRequest
  <2>4. /\ c.customer \in Customers /\ c.account \in AccountIds
        /\ c.details \in Details
    BY <2>1, CallFields, CallArguments
  <2> QED
    BY <2>3, <2>4 DEF Atomic!ServiceNext
<1>3. CASE CommitUpdateDetails(w)
  <2>1. /\ c \in Calls /\ c.op = "update_details"
        /\ r \in DOMAIN requests
        /\ Atomic!UpdateDetails(c.customer, r, c.details)
    BY <1>0, <1>1, <1>3
       DEF CommitUpdateDetails, AtWrite, WorkerOK, Fresh, FreshRequest,
           OwnsRequest, Atomic!UpdateDetails
  <2>2. /\ c.customer \in Customers /\ r \in RequestIds
        /\ c.details \in Details
    BY <1>0, <2>1, CallFields, CallArguments DEF Tables
  <2> QED
    BY <2>1, <2>2 DEF Atomic!ServiceNext
<1>4. CASE CommitSetStatus(w)
  <2>1. /\ c \in Calls /\ c.op = "set_status"
        /\ r \in DOMAIN requests
        /\ c.status \in AllowedStatusTransitions[requests[r].status]
        /\ requests' = [requests EXCEPT ![r].status = c.status]
        /\ UNCHANGED <<accounts, transactions, opening, issued>>
    BY <1>0, <1>1, <1>4
       DEF CommitSetStatus, AtWrite, WorkerOK, Fresh, FreshRequest
  <2>2. Atomic!SetStatus(r, c.status)
    BY <2>1 DEF Atomic!SetStatus, Atomic!AllowedStatusTransitions,
                AllowedStatusTransitions, Atomic!Statuses, Statuses
  <2>3. r \in RequestIds /\ c.status \in Statuses
    BY <1>0, <2>1, CallFields DEF Tables
  <2> QED
    BY <2>2, <2>3 DEF Atomic!ServiceNext, Atomic!Statuses, Statuses
<1>5. CASE CommitDeleteRequest(w)
  <2>1. /\ c \in Calls /\ c.op = "delete_request"
        /\ OwnsRequest(c.customer, r)
        /\ requests' = Remove(requests, {r})
        /\ UNCHANGED <<accounts, transactions, opening, issued>>
    BY <1>0, <1>1, <1>5
       DEF CommitDeleteRequest, AtWrite, WorkerOK, Fresh, FreshRequest
  <2>2. Atomic!DeleteServiceRequest(c.customer, r)
    BY <2>1, SameTables DEF Atomic!DeleteServiceRequest, OwnsRequest
  <2>3. c.customer \in Customers /\ r \in RequestIds
    BY <1>0, <2>1, CallArguments DEF Tables, OwnsRequest
  <2> QED
    BY <2>2, <2>3 DEF Atomic!ServiceNext
<1> QED
  BY <1>2, <1>3, <1>4, <1>5

(* Every step is a step of Ledger or leaves the tables alone.              *)
LEMMA StepRefines ==
  ASSUME SeqInv, [Next]_vars
  PROVE  [Atomic!Next]_(Atomic!vars)
<1>1. CASE UNCHANGED tables
  BY <1>1 DEF tables, Atomic!vars
<1>2. CASE ~UNCHANGED tables
  <2>1. PICK w \in Workers : Commit(w) /\ ~Refuse(w)
    BY <1>2 DEF Next, Receive, Step, Authorise, ReadTransaction, ReadBalance,
       FindAccount, ReadRequest, CascadeTransactions, CascadeRequests, Abort,
       Refuse, vars, tables
  <2> QED
    BY <2>1, AccountsRefine, CreateTransactionRefines,
       UpdateTransactionRefines, DeleteTransactionRefines, ServiceRefines
       DEF Commit, Atomic!Next
<1> QED
  BY <1>1, <1>2

(* On the event loop, where calls do not overlap, the servers implement    *)
(* the atomic Ledger, for all ids, amounts and operations: what is proved  *)
(* of Ledger holds of them.                                                *)
THEOREM Sequential == OneWorker => (Spec => ImplementsLedger)
<1> SUFFICES ASSUME OneWorker PROVE Spec => ImplementsLedger
  OBVIOUS
<1>1. Init => Atomic!Init
  BY DEF Init
<1>2. SeqInv /\ [Next]_vars => SeqInv'
  BY SeqNext
<1>3. SeqInv /\ [Next]_vars => [Atomic!Next]_(Atomic!vars)
  BY StepRefines
<1> QED
  BY <1>1, <1>2, <1>3, SeqInit, PTL DEF Spec, ImplementsLedger, Atomic!Spec

-----------------------------------------------------------------------------
(* What is proved of Ledger, for a single worker.                          *)

(* LedgerProofs speaks of the same Ledger.                                 *)
LEMMA SameLedger == Atomic!Spec => Books!Spec
<1>1. Atomic!Init => Books!Init
  BY DEF Atomic!Init, Books!Init
<1>2. [Atomic!Next]_(Atomic!vars) => [Books!Next]_(Books!vars)
  BY DEF Atomic!vars, Books!vars, Atomic!Next, Books!Next,
         Atomic!AccountsNext, Books!AccountsNext,
         Atomic!TransactionsNext, Books!TransactionsNext,
         Atomic!ServiceNext, Books!ServiceNext,
         Atomic!NoEffect, Books!NoEffect,
         Atomic!CreateAccount, Books!CreateAccount,
         Atomic!UpdateAccount, Books!UpdateAccount,
         Atomic!DeleteAccount, Books!DeleteAccount,
         Atomic!CreateTransaction, Books!CreateTransaction,
         Atomic!UpdateTransaction, Books!UpdateTransaction,
         Atomic!DeleteTransaction, Books!DeleteTransaction,
         Atomic!CreateServiceRequest, Books!CreateServiceRequest,
         Atomic!UpdateDetails, Books!UpdateDetails,
         Atomic!SetStatus, Books!SetStatus,
         Atomic!DeleteServiceRequest, Books!DeleteServiceRequest,
         Atomic!Owns, Books!Owns, Atomic!RowsOf, Books!RowsOf,
         Atomic!Acceptable, Books!Acceptable,
         Atomic!SetBalance, Books!SetBalance, Atomic!Issue, Books!Issue,
         Atomic!Quantise, Books!Quantise, Atomic!Storable, Books!Storable,
         Atomic!Put, Books!Put, Atomic!Remove, Books!Remove,
         Atomic!Statuses, Books!Statuses,
         Atomic!AllowedStatusTransitions, Books!AllowedStatusTransitions
<1> QED
  BY <1>1, <1>2, PTL DEF Atomic!Spec, Books!Spec

(* The assumptions LedgerProofs makes are those of this module.            *)
LEMMA SameAssumptions == Books!MoneyAssumption /\ Books!IdAssumption
BY MoneyAssumption, IdAssumption
   DEF Books!MoneyAssumption, Books!IdAssumption

(* On the event loop "create/update/delete all atomically keep balance in  *)
(* sync with the transaction ledger" (transactions_server.py:1-3), for     *)
(* amounts in whole cents.  With two workers it fails: run                 *)
(* servers_lost_update.                                                    *)
THEOREM SequentialBooks ==
  OneWorker /\ WholeCents(Amounts) => (Spec => []LedgerInSync)
<1> SUFFICES ASSUME OneWorker, WholeCents(Amounts)
             PROVE  Spec => []LedgerInSync
  OBVIOUS
<1>1. Books!WholeCents(Amounts)
  BY DEF WholeCents, Books!WholeCents, Quantise, Books!Quantise
<1>2. Books!Spec => []Books!LedgerInSync
  BY <1>1, SameAssumptions, Books!BooksBalance
<1>3. Books!LedgerInSync => LedgerInSync
  BY DEF LedgerInSync, Atomic!LedgerInSync, Books!LedgerInSync,
         Atomic!LedgerBalance, Books!LedgerBalance,
         Atomic!AmountsOf, Books!AmountsOf, Atomic!RowsOf, Books!RowsOf,
         Atomic!SumFunction, Books!SumFunction,
         Atomic!SumFunctionOnSet, Books!SumFunctionOnSet,
         Atomic!FoldFunctionOnSet, Books!FoldFunctionOnSet,
         Atomic!MapThenFoldSet, Books!MapThenFoldSet
<1> QED
  BY <1>2, <1>3, Sequential, SameLedger, PTL DEF ImplementsLedger

(* On the event loop, whatever the amounts: a deleted account leaves no    *)
(* row behind, and no balance falls behind its ledger.  With two workers   *)
(* both fail.                                                              *)
THEOREM SequentialTables ==
  OneWorker => (Spec => [](NoOrphans /\ Atomic!BalanceNeverBelowLedger))
<1> SUFFICES ASSUME OneWorker
             PROVE  Spec => [](NoOrphans /\ Atomic!BalanceNeverBelowLedger)
  OBVIOUS
<1>1. Books!Spec => []Books!NoOrphans /\ []Books!BalanceNeverBelowLedger
  BY SameAssumptions, Books!CascadeComplete, Books!NeverBehind, PTL
<1>2. Books!NoOrphans => NoOrphans
  BY DEF NoOrphans, Atomic!NoOrphans, Books!NoOrphans
<1>3. Books!BalanceNeverBelowLedger => Atomic!BalanceNeverBelowLedger
  BY DEF Atomic!BalanceNeverBelowLedger, Books!BalanceNeverBelowLedger,
         Atomic!LedgerBalance, Books!LedgerBalance,
         Atomic!AmountsOf, Books!AmountsOf, Atomic!RowsOf, Books!RowsOf,
         Atomic!SumFunction, Books!SumFunction,
         Atomic!SumFunctionOnSet, Books!SumFunctionOnSet,
         Atomic!FoldFunctionOnSet, Books!FoldFunctionOnSet,
         Atomic!MapThenFoldSet, Books!MapThenFoldSet
<1> QED
  BY <1>1, <1>2, <1>3, Sequential, SameLedger, PTL DEF ImplementsLedger

(* And a request moves along its lifecycle only: no status change is       *)
(* checked against a status that another one has replaced.  With two       *)
(* workers one is.                                                         *)
THEOREM SequentialLifecycle == OneWorker => (Spec => StatusLifecycle)
<1> SUFFICES ASSUME OneWorker PROVE Spec => StatusLifecycle
  OBVIOUS
<1>1. Books!Spec => Books!StatusLifecycle
  BY SameAssumptions, Books!Lifecycle
<1>2. Books!StatusLifecycle => StatusLifecycle
  <2>1. [\A r \in DOMAIN requests \cap DOMAIN requests' :
           requests'[r].status # requests[r].status =>
             requests'[r].status \in
               Books!AllowedStatusTransitions[requests[r].status]]_(Books!vars)
        =>
        [\A r \in DOMAIN requests \cap DOMAIN requests' :
           requests'[r].status # requests[r].status =>
             requests'[r].status \in
               Atomic!AllowedStatusTransitions[requests[r].status]]_(Atomic!vars)
    <3>1. Books!AllowedStatusTransitions = Atomic!AllowedStatusTransitions
      BY DEF Atomic!AllowedStatusTransitions, Books!AllowedStatusTransitions,
             Atomic!Statuses, Books!Statuses
    <3>2. UNCHANGED Books!vars => UNCHANGED Atomic!vars
      BY DEF Atomic!vars, Books!vars
    <3> QED
      BY <3>1, <3>2
  <2> QED
    BY <2>1, PTL DEF StatusLifecycle, Books!StatusLifecycle,
       Atomic!StatusLifecycle
<1> QED
  BY <1>1, <1>2, Sequential, SameLedger, PTL DEF ImplementsLedger
=============================================================================
