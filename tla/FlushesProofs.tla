---------------------------- MODULE FlushesProofs ---------------------------
(***************************************************************************)
(* Which calls may deadlock, for any number of calls.  A call other than   *)
(* delete_account locks the account before the row, and only it waits      *)
(* with an account in hand: whoever it waits for has locked its last row   *)
(* and waits for nobody.                                                   *)
(***************************************************************************)
EXTENDS Flushes, TLAPS

TransactionEdits == {"update_transaction", "delete_transaction"}
RequestEdits == {"update_request", "delete_request"}
AccountOnly == {"update_account", "create_transaction"}

(* The account is being locked, or is locked.                              *)
AtAccount(w) ==
  \/ want[w] = {call[w].account} /\ holds[w] = {}
  \/ want[w] = {} /\ holds[w] = {call[w].account}

(* The row is being locked, or is locked, or was not found.                *)
AtRow(w) ==
  \/ want[w] = {call[w].row} /\ holds[w] \subseteq {call[w].account}
  \/ want[w] = {} /\ holds[w] \subseteq {call[w].account, call[w].row}

(* How far a call is, and what it has locked by then.                      *)
Shape(w) ==
  \/ Idle(w)
  \/ /\ call[w].op = "delete_account" /\ call[w].account \in AccountIds
     /\ plan[w] \in {<<"transactions", "requests", "account">>,
                     <<"requests", "account">>, <<"account">>}
  \/ /\ call[w].op \in AccountOnly /\ call[w].account \in AccountIds
     /\ plan[w] = <<"account">> /\ AtAccount(w)
  \/ /\ call[w].op \in TransactionEdits /\ call[w].account \in AccountIds
     /\ call[w].row \in ChildIds
     /\ plan[w] = <<"account", "row">> /\ AtAccount(w)
  \/ /\ call[w].op \in TransactionEdits \cup RequestEdits
     /\ call[w].account \in AccountIds /\ call[w].row \in ChildIds
     /\ plan[w] = <<"row">> /\ AtRow(w)

(* The transactions and requests it handles are its own, or its account's. *)
OwnRows(w) ==
  \A x \in (want[w] \cup holds[w]) \cap DOMAIN account_id :
    x = call[w].row \/ account_id[x] = call[w].account

(* The row a call will insert is nobody else's.                            *)
NewRow(w) ==
  call[w].op = "create_transaction" =>
    /\ call[w].row \in TransactionIds \ DOMAIN account_id
    /\ \A v \in Workers \ {w} :
         call[w].row # call[v].row /\ call[w].row \notin want[v]

(* The row a call is about to delete is locked, or has gone.               *)
LastRow(w) ==
  /\ call[w].op \in {"delete_transaction", "delete_request"}
  /\ plan[w] = <<"row">> /\ want[w] = {}
  => call[w].row \in holds[w] \/ call[w].row \notin Rows

IInv ==
  /\ TypeOK
  /\ \A w \in Workers : Shape(w)
  /\ \A w \in Workers : OwnRows(w)
  /\ \A w \in Workers : NewRow(w)
  /\ \A w \in Workers : LastRow(w)

-----------------------------------------------------------------------------
(* The statements of a plan                                                *)

(* What sequences make of the plans.                                       *)
LEMMA Pieces ==
  /\ Head(<<"account", "row">>) = "account" /\ Len(<<"account", "row">>) = 2
  /\ Tail(<<"account", "row">>) = <<"row">> /\ <<"account", "row">>[2] = "row"
  /\ Head(<<"transactions", "requests", "account">>) = "transactions"
  /\ Len(<<"transactions", "requests", "account">>) = 3
  /\ Tail(<<"transactions", "requests", "account">>) = <<"requests", "account">>
  /\ <<"transactions", "requests", "account">>[2] = "requests"
  /\ Tail(<<"requests", "account">>) = <<"account">>
  /\ Len(<<"requests", "account">>) = 2
  /\ Head(<<"requests", "account">>) = "requests"
  /\ <<"requests", "account">>[2] = "account"
  /\ Head(<<"account">>) = "account" /\ Len(<<"account">>) = 1
  /\ Head(<<"row">>) = "row" /\ Len(<<"row">>) = 1
  /\ Len(<< >>) = 0
OBVIOUS

(* The plans are different sequences.                                      *)
LEMMA Different ==
  /\ << >> # <<"account">> /\ << >> # <<"row">>
  /\ << >> # <<"account", "row">> /\ << >> # <<"requests", "account">>
  /\ << >> # <<"transactions", "requests", "account">>
  /\ <<"account">> # <<"row">> /\ <<"account">> # <<"account", "row">>
  /\ <<"row">> # <<"account", "row">>
  /\ <<"row">> # <<"requests", "account">>
  /\ <<"row">> # <<"transactions", "requests", "account">>
OBVIOUS

(* The statement after the first, where there is one.                      *)
LEMMA Onward ==
  ASSUME NEW p \in Remainders, Len(p) > 1
  PROVE  \/ p = <<"account", "row">> /\ Tail(p) = <<"row">> /\ p[2] = "row"
         \/ /\ p = <<"requests", "account">>
            /\ Tail(p) = <<"account">> /\ p[2] = "account"
         \/ /\ p = <<"transactions", "requests", "account">>
            /\ Tail(p) = <<"requests", "account">> /\ p[2] = "requests"
<1>1. p \notin {<< >>, <<"account">>, <<"row">>}
  BY Pieces
<1>2. p \in {<<"account", "row">>, <<"requests", "account">>,
             <<"transactions", "requests", "account">>}
  BY <1>1 DEF Remainders
<1> QED
  BY <1>2, Pieces

-----------------------------------------------------------------------------
(* Steps                                                                   *)

(* A call that fails forgets what it held.                                 *)
LEMMA RollbackStep ==
  ASSUME IInv, NEW w \in Workers, Rollback(w)
  PROVE  IInv'
<1> USE DisjointAssumption, Different
        DEF IInv, TypeOK, Remainders, Operations, NoRow, NoCall, Idle, ChildIds,
            Rows, tables, calls, TransactionEdits, RequestEdits, AccountOnly,
            Rollback, Release
<1>1. TypeOK'
  BY DEF Free
<1>2. \A v \in Workers : Shape(v)'
  BY DEF Shape, AtAccount, AtRow
<1>3. \A v \in Workers : OwnRows(v)'
  BY DEF OwnRows
<1>4. \A v \in Workers : NewRow(v)'
  BY DEF NewRow
<1>5. \A v \in Workers : LastRow(v)'
  BY DEF LastRow
<1> QED
  BY <1>1, <1>2, <1>3, <1>4, <1>5

(* A new account: no call knows its id, nor the orphans put aside.         *)
LEMMA CreateAccountStep ==
  ASSUME IInv, NEW a \in AccountIds, CreateAccount(a)
  PROVE  IInv'
<1> USE DisjointAssumption, Different
        DEF IInv, TypeOK, Remainders, Operations, NoRow, NoCall, Idle, ChildIds,
            Rows, tables, calls, TransactionEdits, RequestEdits, AccountOnly,
            CreateAccount, Unused
<1>1. TypeOK'
  <2>1. \A v \in Workers : holds[v] \subseteq Rows'
    <3>1. SUFFICES ASSUME NEW v \in Workers, NEW x \in holds[v] \cap DOMAIN account_id
                   PROVE  account_id[x] # a
      OBVIOUS
    <3>2. x = call[v].row \/ account_id[x] = call[v].account
      BY DEF OwnRows
    <3> QED
      BY <3>2
  <2>2. UNCHANGED calls /\ accounts' \subseteq AccountIds
    OBVIOUS
  <2>3. DOMAIN account_id' \subseteq ChildIds
        /\ \A x \in DOMAIN account_id' : account_id'[x] \in AccountIds
    OBVIOUS
  <2> QED
    BY <2>1, <2>2, <2>3 DEF Free
<1>2. \A v \in Workers : Shape(v)'
  BY DEF Shape, AtAccount, AtRow
<1>3. \A v \in Workers : OwnRows(v)'
  BY DEF OwnRows
<1>4. \A v \in Workers : NewRow(v)'
  BY DEF NewRow
<1>5. \A v \in Workers : LastRow(v)'
  BY DEF LastRow
<1> QED
  BY <1>1, <1>2, <1>3, <1>4, <1>5

(* A new request: no call knows its id.                                    *)
LEMMA CreateRequestStep ==
  ASSUME IInv, NEW a \in AccountIds, NEW r \in RequestIds,
         CreateRequest(a, r)
  PROVE  IInv'
<1> USE DisjointAssumption, Different
        DEF IInv, TypeOK, Remainders, Operations, NoRow, NoCall, Idle, ChildIds,
            Rows, tables, calls, TransactionEdits, RequestEdits, AccountOnly,
            CreateRequest, Unused
<1>1. TypeOK'
  BY DEF Free
<1>2. \A v \in Workers : Shape(v)'
  BY DEF Shape, AtAccount, AtRow
<1>3. \A v \in Workers : OwnRows(v)'
  BY DEF OwnRows
<1>4. \A v \in Workers : NewRow(v)'
  BY DEF NewRow
<1>5. \A v \in Workers : LastRow(v)'
  BY DEF LastRow
<1> QED
  BY <1>1, <1>2, <1>3, <1>4, <1>5

(* A call on an account locks it first, or finds the rows below it.        *)
LEMMA StartOnAccountStep ==
  ASSUME IInv, NEW w \in Workers, NEW a \in AccountIds, NEW op \in Operations,
         StartOnAccount(w, op, a)
  PROVE  IInv'
<1> USE DisjointAssumption, Different
        DEF IInv, TypeOK, Remainders, Operations, NoRow, NoCall, Idle, ChildIds,
            Rows, tables, calls, TransactionEdits, RequestEdits, AccountOnly,
            StartOnAccount, Start, Plans, Found
<1>1. TypeOK'
  BY DEF Free
<1>2. \A v \in Workers : Shape(v)'
  BY DEF Shape, AtAccount, AtRow
<1>3. \A v \in Workers : OwnRows(v)'
  BY DEF OwnRows
<1>4. \A v \in Workers : NewRow(v)'
  BY DEF NewRow
<1>5. \A v \in Workers : LastRow(v)'
  BY DEF LastRow
<1> QED
  BY <1>1, <1>2, <1>3, <1>4, <1>5

(* A transaction is created under an id nobody else has.                   *)
LEMMA StartCreateStep ==
  ASSUME IInv, NEW w \in Workers, NEW a \in AccountIds, NEW x \in TransactionIds,
         StartCreate(w, a, x)
  PROVE  IInv'
<1> USE DisjointAssumption, Different
        DEF IInv, TypeOK, Remainders, Operations, NoRow, NoCall, Idle, ChildIds,
            Rows, tables, calls, TransactionEdits, RequestEdits, AccountOnly,
            StartCreate, Start, Plans, Found, Unused
<1>1. TypeOK'
  <2>1. PICK p \in Plans("create_transaction") :
               /\ plan' = [plan EXCEPT ![w] = p]
               /\ want' = [want EXCEPT ![w] =
                    Found([op |-> "create_transaction", account |-> a, row |-> x], Head(p))]
    OBVIOUS
  <2>2. p = <<"account">>
    OBVIOUS
  <2>3. want' = [want EXCEPT ![w] = {a}]
    BY <2>1, <2>2, Pieces
  <2>4. call' \in [Workers -> [op : Operations \cup {"none"},
                                account : AccountIds \cup {NoRow},
                                row : ChildIds \cup {NoRow}]]
    OBVIOUS
  <2>5. plan' \in [Workers -> Remainders]
    BY <2>1, <2>2
  <2>6. want' \in [Workers -> SUBSET (AccountIds \cup ChildIds)]
    BY <2>3
  <2>7. \A v \in Workers : plan'[v] = << >> =>
           call'[v] = NoCall /\ want'[v] = {} /\ holds'[v] = {}
    BY <2>1, <2>2, <2>3
  <2> QED
    BY <2>4, <2>5, <2>6, <2>7 DEF Free
<1>2. \A v \in Workers : Shape(v)'
  BY DEF Shape, AtAccount, AtRow
<1>3. \A v \in Workers : OwnRows(v)'
  BY DEF OwnRows
<1>4. \A v \in Workers : NewRow(v)'
  BY DEF NewRow
<1>5. \A v \in Workers : LastRow(v)'
  BY DEF LastRow
<1> QED
  BY <1>1, <1>2, <1>3, <1>4, <1>5

(* An edit locks the account and then the row, or the row alone.           *)
LEMMA StartOnChildStep ==
  ASSUME IInv, NEW w \in Workers, NEW x \in ChildIds, NEW op \in Operations,
         StartOnChild(w, op, x)
  PROVE  IInv'
<1> USE DisjointAssumption, Different
        DEF IInv, TypeOK, Remainders, Operations, NoRow, NoCall, Idle, ChildIds,
            Rows, tables, calls, TransactionEdits, RequestEdits, AccountOnly,
            StartOnChild, Start, Plans, Found
<1>1. TypeOK'
  BY DEF Free
<1>2. \A v \in Workers : Shape(v)'
  BY DEF Shape, AtAccount, AtRow
<1>3. \A v \in Workers : OwnRows(v)'
  BY DEF OwnRows
<1>4. \A v \in Workers : NewRow(v)'
  BY DEF NewRow
<1>5. \A v \in Workers : LastRow(v)'
  BY DEF LastRow
<1> QED
  BY <1>1, <1>2, <1>3, <1>4, <1>5

(* A row is locked that nobody else has locked.                            *)
LEMMA LockStep ==
  ASSUME IInv, NEW w \in Workers, NEW x, Lock(w, x)
  PROVE  IInv'
<1> USE DisjointAssumption, Different
        DEF IInv, TypeOK, Remainders, Operations, NoRow, NoCall, Idle, ChildIds,
            Rows, tables, calls, TransactionEdits, RequestEdits, AccountOnly,
            Lock
<1>1. TypeOK'
  BY DEF Free
<1>2. \A v \in Workers : Shape(v)'
  BY DEF Shape, AtAccount, AtRow
<1>3. \A v \in Workers : OwnRows(v)'
  BY DEF OwnRows
<1>4. \A v \in Workers : NewRow(v)'
  BY DEF NewRow
<1>5. \A v \in Workers : LastRow(v)'
  <2>1. SUFFICES ASSUME NEW v \in Workers PROVE LastRow(v)'
    OBVIOUS
  <2>2. CASE v # w
    BY <2>2 DEF LastRow
  <2>3. CASE v = w
    <3>1. call[w].op \in {"delete_transaction", "delete_request"}
          /\ plan[w] = <<"row">> => x = call[w].row
      BY DEF Shape, AtAccount, AtRow
    <3> QED
      BY <2>3, <3>1 DEF LastRow
  <2> QED
    BY <2>2, <2>3
<1> QED
  BY <1>1, <1>2, <1>3, <1>4, <1>5

(* A row has gone: an edit fails, a deletion goes on without it.           *)
LEMMA MissStep ==
  ASSUME IInv, NEW w \in Workers, NEW x, Miss(w, x)
  PROVE  IInv'
<1>1. CASE Rollback(w)
  BY <1>1, RollbackStep
<1>2. CASE /\ Deletes(w)
           /\ want' = [want EXCEPT ![w] = @ \ {x}]
           /\ UNCHANGED <<tables, call, plan, holds>>
  <2> USE <1>2, DisjointAssumption, Different
      DEF IInv, TypeOK, Remainders, Operations, NoRow, NoCall, Idle, ChildIds,
          Rows, tables, calls, TransactionEdits, RequestEdits, AccountOnly
  <2>1. x \in want[w] \ Rows
    BY DEF Miss
  <2>2. TypeOK'
    BY DEF Free
  <2>3. \A v \in Workers : Shape(v)'
    <3>1. SUFFICES ASSUME NEW v \in Workers PROVE Shape(v)'
      OBVIOUS
    <3>2. CASE v # w
      BY <3>2 DEF Shape, AtAccount, AtRow
    <3>3. CASE v = w /\ call[w].op = "delete_account"
      BY <3>3 DEF Shape
    <3>4. CASE v = w /\ call[w].op # "delete_account"
      <4>1. plan[w] = <<"row">>
        BY <2>1, <3>4, Pieces DEF Shape, AtAccount, Deletes
      <4> QED
        BY <2>1, <3>4, <4>1 DEF Shape, AtRow
    <3> QED
      BY <3>2, <3>3, <3>4
  <2>4. \A v \in Workers : OwnRows(v)'
    BY DEF OwnRows
  <2>5. \A v \in Workers : NewRow(v)'
    BY DEF NewRow
  <2>6. \A v \in Workers : LastRow(v)'
    <3>1. SUFFICES ASSUME NEW v \in Workers PROVE LastRow(v)'
      OBVIOUS
    <3>2. CASE v # w
      BY <3>2 DEF LastRow
    <3>3. CASE v = w
      <4>1. call[w].op \in {"delete_transaction", "delete_request"}
            /\ plan[w] = <<"row">> => x = call[w].row
        BY <2>1 DEF Shape, AtAccount, AtRow
      <4> QED
        BY <2>1, <3>3, <4>1 DEF LastRow
    <3> QED
      BY <3>2, <3>3
  <2> QED
    BY <2>2, <2>3, <2>4, <2>5, <2>6
<1> QED
  BY <1>1, <1>2 DEF Miss

(* The next statement finds its rows.                                      *)
LEMMA NextStatementStep ==
  ASSUME IInv, NEW w \in Workers, NextStatement(w)
  PROVE  IInv'
<1> USE DisjointAssumption, Different
        DEF IInv, TypeOK, Remainders, Operations, NoRow, NoCall, Idle, ChildIds,
            Rows, tables, calls, TransactionEdits, RequestEdits, AccountOnly,
            NextStatement, Found
<1>1. TypeOK'
  <2>0. plan[w] \in Remainders /\ Len(plan[w]) > 1
    OBVIOUS
  <2>1. Tail(plan[w]) \in Remainders \ {<< >>}
    BY <2>0, Onward
  <2>2. want'[w] \subseteq AccountIds \cup ChildIds
    BY Pieces DEF Shape
  <2>3. want' \in [Workers -> SUBSET (AccountIds \cup ChildIds)]
    BY <2>2
  <2> QED
    BY <2>1, <2>3 DEF Free
<1>2. \A v \in Workers : Shape(v)'
  <2>1. SUFFICES ASSUME NEW v \in Workers PROVE Shape(v)'
    OBVIOUS
  <2>2. CASE v # w
    BY <2>2 DEF Shape, AtAccount, AtRow
  <2>3. CASE v = w /\ call[w].op = "delete_account"
    <3>1. plan'[w] \in {<<"requests", "account">>, <<"account">>}
      <4>1. plan[w] \in Remainders /\ Len(plan[w]) > 1
        OBVIOUS
      <4>2. plan[w] # <<"account", "row">> /\ plan'[w] = Tail(plan[w])
        BY <2>3 DEF Shape
      <4> QED
        BY <4>1, <4>2, Onward
    <3> QED
      BY <2>3, <3>1 DEF Shape
  <2>4. CASE v = w /\ call[w].op # "delete_account"
    <3>1. plan[w] = <<"account", "row">> /\ AtAccount(w)
          /\ call[w].op \in TransactionEdits
      BY <2>4, Pieces DEF Shape
    <3>2. plan'[w] = <<"row">> /\ want'[w] = {call[w].row}
      BY <3>1, Pieces
    <3> QED
      BY <2>4, <3>1, <3>2 DEF Shape, AtAccount, AtRow
  <2> QED
    BY <2>2, <2>3, <2>4
<1>3. \A v \in Workers : OwnRows(v)'
  BY DEF OwnRows
<1>4. \A v \in Workers : NewRow(v)'
  BY DEF NewRow
<1>5. \A v \in Workers : LastRow(v)'
  <2>1. SUFFICES ASSUME NEW v \in Workers PROVE LastRow(v)'
    OBVIOUS
  <2>2. CASE v # w
    BY <2>2 DEF LastRow
  <2>3. CASE v = w
    <3>1. plan'[w] = <<"row">> => want'[w] = {call[w].row}
      <4>1. plan[w] \in Remainders /\ Len(plan[w]) > 1
        OBVIOUS
      <4>2. plan'[w] = Tail(plan[w])
        OBVIOUS
      <4>3. Tail(plan[w]) = <<"row">> => plan[w][2] = "row"
        BY <4>1, Onward
      <4> QED
        BY <4>2, <4>3
    <3> QED
      BY <2>3, <3>1 DEF LastRow
  <2> QED
    BY <2>2, <2>3
<1> QED
  BY <1>1, <1>2, <1>3, <1>4, <1>5

(* A commit removes only rows that it has locked.                          *)
LEMMA CommitStep ==
  ASSUME IInv, NEW w \in Workers, Commit(w)
  PROVE  IInv'
<1> DEFINE gone == CASE call[w].op = "delete_account" -> holds[w]
                     [] call[w].op \in {"delete_transaction", "delete_request"} ->
                          {call[w].row}
                     [] OTHER -> {}
           new == IF call[w].op = "create_transaction" THEN {call[w].row} ELSE {}
<1>1. /\ accounts' = accounts \ gone
      /\ account_id' = [x \in (DOMAIN account_id \cup new) \ gone |->
                          IF x \in new THEN call[w].account ELSE account_id[x]]
      /\ want[w] = {} /\ Len(plan[w]) = 1
      /\ Release(w)
  BY DEF Commit
<1>2. plan[w] # << >> /\ Len(plan[w]) = 1
  BY <1>1, Pieces
<1>3. gone \cap Rows \subseteq holds[w]
  <2>1. CASE call[w].op \in {"delete_transaction", "delete_request"}
    <3>1. plan[w] = <<"row">>
      BY <2>1, <1>2, Pieces
         DEF IInv, Shape, Idle, AccountOnly, TransactionEdits, RequestEdits
    <3> QED
      BY <2>1, <3>1, <1>1 DEF IInv, LastRow
  <2> QED
    BY <2>1
<1>4. /\ new \subseteq TransactionIds \ DOMAIN account_id
      /\ new # {} => call[w].account \in AccountIds
      /\ \A x \in new, v \in Workers \ {w} : x # call[v].row /\ x \notin want[v]
  BY <1>2 DEF IInv, NewRow, Shape, Idle, AccountOnly, TransactionEdits,
              RequestEdits
<1>5. Rows' = (Rows \cup new) \ gone
  BY <1>1 DEF Rows
<1> HIDE DEF gone, new
<1> USE DisjointAssumption, Different, <1>1, <1>3, <1>4, <1>5
    DEF IInv, TypeOK, Remainders, NoRow, NoCall, Idle, ChildIds, Release
<1>6. TypeOK'
  <2>1. \A v \in Workers \ {w} : holds[v] \cap gone = {}
    BY DEF Free, Rows
  <2>2. \A v \in Workers : holds'[v] \subseteq Rows'
    BY <2>1
  <2>3. accounts' \subseteq AccountIds /\ DOMAIN account_id' \subseteq ChildIds
        /\ \A x \in DOMAIN account_id' : account_id'[x] \in AccountIds
    OBVIOUS
  <2>4. /\ call' \in [Workers -> [op : Operations \cup {"none"},
                                  account : AccountIds \cup {NoRow},
                                  row : ChildIds \cup {NoRow}]]
        /\ plan' \in [Workers -> Remainders]
        /\ want' \in [Workers -> SUBSET (AccountIds \cup ChildIds)]
    OBVIOUS
  <2>5. holds' \in [Workers -> SUBSET Rows']
    BY <2>2
  <2>6. \A v \in Workers :
           /\ plan'[v] = << >> =>
                call'[v] = NoCall /\ want'[v] = {} /\ holds'[v] = {}
           /\ \A x \in holds'[v] : Free(v, x)'
    BY DEF Free
  <2> QED
    BY <2>3, <2>4, <2>5, <2>6
<1>7. \A v \in Workers : Shape(v)'
  BY DEF Shape, AtAccount, AtRow
<1>8. \A v \in Workers : OwnRows(v)'
  <2>1. \A v \in Workers \ {w} : holds[v] \cap new = {}
    BY DEF Rows
  <2>2. DOMAIN account_id' \subseteq DOMAIN account_id \cup new
        /\ \A x \in DOMAIN account_id' \ new : account_id'[x] = account_id[x]
    OBVIOUS
  <2> QED
    BY <2>1, <2>2 DEF OwnRows
<1>9. \A v \in Workers : NewRow(v)'
  <2>1. DOMAIN account_id' \subseteq DOMAIN account_id \cup new
    OBVIOUS
  <2> QED
    BY <2>1 DEF NewRow
<1>10. \A v \in Workers : LastRow(v)'
  <2>1. SUFFICES ASSUME NEW v \in Workers \ {w} PROVE LastRow(v)'
    BY DEF LastRow
  <2>2. call[v].row \notin new
    OBVIOUS
  <2> QED
    BY <2>1, <2>2 DEF LastRow
<1> QED
  BY <1>6, <1>7, <1>8, <1>9, <1>10

(* Nothing changes.                                                        *)
LEMMA StutterStep ==
  ASSUME IInv, UNCHANGED vars
  PROVE  IInv'
BY DEF IInv, TypeOK, Rows, Idle, Free, Shape, AtAccount, AtRow, OwnRows, NewRow,
       LastRow, vars, tables, calls

-----------------------------------------------------------------------------

(* There are no rows and no calls at first.                                *)
LEMMA InitOK == Init => IInv
BY DEF Init, IInv, TypeOK, Remainders, NoCall, NoRow, Rows, Idle, Free, Shape,
       OwnRows, NewRow, LastRow

(* Every step keeps the invariant.                                         *)
LEMMA IInvStep == IInv /\ [Next]_vars => IInv'
<1> SUFFICES ASSUME IInv, [Next]_vars PROVE IInv'
  OBVIOUS
<1>1. CASE \E a \in AccountIds : CreateAccount(a)
  BY <1>1, CreateAccountStep
<1>2. CASE \E a \in AccountIds, r \in RequestIds : CreateRequest(a, r)
  BY <1>2, CreateRequestStep
<1>3. CASE \E w \in Workers : Receive(w)
  BY <1>3, StartOnAccountStep, StartCreateStep, StartOnChildStep DEF Receive
<1>4. CASE \E w \in Workers : Step(w)
  BY <1>4, LockStep, MissStep, NextStatementStep, CommitStep DEF Step
<1>5. CASE \E w \in Workers : BreakDeadlock(w) \/ Abort(w)
  BY <1>5, RollbackStep DEF BreakDeadlock, Abort
<1>6. CASE UNCHANGED vars
  BY <1>6, StutterStep
<1> QED
  BY <1>1, <1>2, <1>3, <1>4, <1>5, <1>6 DEF Next

(* A call that waits and is no delete_account holds an account at most,    *)
(* and if somebody waits for it, wants a row.                              *)
LEMMA WaitingHoldsAccounts ==
  ASSUME IInv, NEW w \in Workers, call[w].op # "delete_account", want[w] # {}
  PROVE  /\ holds[w] \subseteq AccountIds
         /\ holds[w] # {} => want[w] \subseteq ChildIds
BY DEF IInv, TypeOK, Shape, AtAccount, AtRow, Idle

(* Without a delete_account, calls do not wait in a circle: one that is    *)
(* waited for wants a row, and whoever holds that waits for nobody.        *)
LEMMA NoCircle == IInv => DeadlocksNeedACascade
<1> SUFFICES ASSUME IInv, NEW C \in SUBSET Workers, Deadlocked(C),
                    \A w \in C : call[w].op # "delete_account"
             PROVE  FALSE
  BY DEF DeadlocksNeedACascade
<1>1. PICK w \in C : TRUE
  BY DEF Deadlocked
<1>2. PICK v \in C : want[w] \cap holds[v] # {}
  BY <1>1 DEF Deadlocked, Waits
<1>3. PICK u \in C : want[v] \cap holds[u] # {}
  BY <1>2 DEF Deadlocked, Waits
<1>4. PICK z \in C : want[u] \cap holds[z] # {}
  BY <1>3 DEF Deadlocked, Waits
<1>5. want[v] \subseteq ChildIds
  BY <1>2, <1>3, WaitingHoldsAccounts
<1>6. holds[u] \subseteq AccountIds
  BY <1>3, <1>4, WaitingHoldsAccounts
<1> QED
  BY <1>3, <1>5, <1>6, DisjointAssumption

(* The invariant holds throughout.                                         *)
THEOREM Invariance == Spec => []IInv
BY InitOK, IInvStep, PTL DEF Spec

(* Types, and locks that exclude each other, of rows that are there.       *)
THEOREM TypeCorrect == Spec => []TypeOK
<1>1. IInv => TypeOK
  BY DEF IInv
<1> QED
  BY <1>1, Invariance, PTL

(* However many calls overlap, only a delete_account can make them         *)
(* deadlock (crud_accounts.py:55-58, crud_transactions.py:93, 118).        *)
THEOREM OnlyCascadesDeadlock == Spec => []DeadlocksNeedACascade
BY Invariance, NoCircle, PTL
=============================================================================
