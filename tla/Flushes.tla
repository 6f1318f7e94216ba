------------------------------ MODULE Flushes -------------------------------
(***************************************************************************)
(* The row locks of calls that overlap.  Servers takes each write of a     *)
(* call as one step; here it is the statements SQLAlchemy sends, each of   *)
(* which locks its rows one by one until the commit, and waits for a row   *)
(* another call has locked.  PostgreSQL breaks a circle of waiting calls   *)
(* by failing one of them.                                                 *)
(*                                                                         *)
(* Rows have no contents here.  An id is used again once no row and no     *)
(* call has it, which keeps the tables small: calls that know each other's *)
(* rows never see it happen.                                               *)
(***************************************************************************)
EXTENDS Naturals, Sequences

CONSTANTS
  Workers,
  AccountIds,
  TransactionIds,
  RequestIds

ChildIds == TransactionIds \cup RequestIds

ASSUME DisjointAssumption ==
  /\ AccountIds \cap ChildIds = {}
  /\ TransactionIds \cap RequestIds = {}
  /\ "none" \notin AccountIds \cup ChildIds

VARIABLES
  accounts,    (* the accounts there are                                   *)
  account_id,  (* the account of each transaction and request there is     *)
  call,        (* the call a worker is running                             *)
  plan,        (* its statements, from the current one on                  *)
  want,        (* the rows the current statement has still to lock         *)
  holds        (* the rows the call has locked                             *)

tables == <<accounts, account_id>>
calls == <<call, plan, want, holds>>
vars == <<tables, calls>>

Rows == accounts \cup DOMAIN account_id

Operations == {"update_account", "delete_account", "create_transaction",
               "update_transaction", "delete_transaction", "update_request",
               "delete_request"}

NoRow == "none"
NoCall == [op |-> "none", account |-> NoRow, row |-> NoRow]
Idle(w) == plan[w] = << >>

Init ==
  /\ accounts = {} /\ account_id = << >>
  /\ call = [w \in Workers |-> NoCall]
  /\ plan = [w \in Workers |-> << >>]
  /\ want = [w \in Workers |-> {}]
  /\ holds = [w \in Workers |-> {}]

-----------------------------------------------------------------------------
(* Statements                                                              *)

(* Mutant: the row is flushed before the balance.                          *)
PlansRowFirst(op) ==
  CASE op = "delete_account" -> {<<"transactions", "requests", "account">>}
    [] op \in {"update_account", "create_transaction"} -> {<<"account">>}
    [] op = "update_transaction" -> {<<"account", "row">>, <<"row">>}
    [] op = "delete_transaction" -> {<<"row", "account">>, <<"row">>}
    [] OTHER -> {<<"row">>}

(* A flush writes changed objects table by table, accounts first, and then *)
(* deletes; an object that has not changed is not written.                 *)
Plans(op) ==
  CASE op = "delete_account" -> {<<"transactions", "requests", "account">>}
    [] op \in {"update_account", "create_transaction"} -> {<<"account">>}
    [] op \in {"update_transaction", "delete_transaction"} ->
         {<<"account", "row">>, <<"row">>}
    [] OTHER -> {<<"row">>}

(* The rows a statement finds when it starts.                              *)
Found(c, statement) ==
  CASE statement = "account" -> {c.account}
    [] statement = "row" -> {c.row}
    [] OTHER ->
         {x \in DOMAIN account_id :
            /\ account_id[x] = c.account
            /\ x \in (IF statement = "requests" THEN RequestIds
                                                ELSE TransactionIds)}

Deletes(w) ==
  \/ call[w].op = "delete_account"
  \/ /\ call[w].op \in {"delete_transaction", "delete_request"}
     /\ Head(plan[w]) = "row"

Free(w, x) == \A v \in Workers \ {w} : x \notin holds[v]

(* Mutant: the session is not closed, and keeps its locks.                 *)
ReleaseNothing(w) ==
  /\ call' = [call EXCEPT ![w] = NoCall]
  /\ plan' = [plan EXCEPT ![w] = << >>]
  /\ want' = [want EXCEPT ![w] = {}]
  /\ UNCHANGED holds

Release(w) ==
  /\ call' = [call EXCEPT ![w] = NoCall]
  /\ plan' = [plan EXCEPT ![w] = << >>]
  /\ want' = [want EXCEPT ![w] = {}]
  /\ holds' = [holds EXCEPT ![w] = {}]

Rollback(w) == Release(w) /\ UNCHANGED tables

-----------------------------------------------------------------------------
(* Calls.  What a call reads before it writes takes no locks.              *)

Start(w, op, a, x) ==
  /\ Idle(w)
  /\ call' = [call EXCEPT ![w] = [op |-> op, account |-> a, row |-> x]]
  /\ \E p \in Plans(op) :
       /\ plan' = [plan EXCEPT ![w] = p]
       /\ want' = [want EXCEPT ![w] =
                     Found([op |-> op, account |-> a, row |-> x], Head(p))]
  /\ UNCHANGED <<tables, holds>>

StartOnAccount(w, op, a) ==
  /\ op \in {"update_account", "delete_account"}
  /\ a \in accounts
  /\ Start(w, op, a, NoRow)

(* No row has the id, and no call.                                         *)
Unused(x) ==
  /\ x \notin Rows
  /\ \A w \in Workers :
       x \notin {call[w].account, call[w].row} \cup want[w]

(* Calls that only insert wait for nobody: one step.  With an account's id *)
(* used again, the orphans of the account that had it are put aside.       *)
CreateAccount(a) ==
  LET orphans == {x \in DOMAIN account_id : account_id[x] = a} IN
  /\ Unused(a)
  /\ \A w \in Workers : call[w].row \notin orphans
  /\ accounts' = accounts \cup {a}
  /\ account_id' = [x \in DOMAIN account_id \ orphans |-> account_id[x]]
  /\ UNCHANGED calls

(* The account is not looked up again after the authorisation.             *)
CreateRequest(a, r) ==
  /\ a \in accounts /\ Unused(r)
  /\ account_id' = [x \in DOMAIN account_id \cup {r} |->
                      IF x = r THEN a ELSE account_id[x]]
  /\ UNCHANGED <<accounts, calls>>

StartCreate(w, a, x) ==
  /\ a \in accounts /\ Unused(x)
  /\ Start(w, "create_transaction", a, x)

(* Staff alone may edit a request whose account has gone.                  *)
StartOnChild(w, op, x) ==
  /\ x \in DOMAIN account_id
  /\ op # "update_request" => account_id[x] \in accounts
  /\ op \in (IF x \in TransactionIds
               THEN {"update_transaction", "delete_transaction"}
               ELSE {"update_request", "delete_request"})
  /\ Start(w, op, account_id[x], x)

(* The statement locks a row that nobody else has locked.                  *)
Lock(w, x) ==
  /\ x \in want[w] \cap Rows
  /\ Free(w, x)
  /\ want' = [want EXCEPT ![w] = @ \ {x}]
  /\ holds' = [holds EXCEPT ![w] = @ \cup {x}]
  /\ UNCHANGED <<tables, call, plan>>

(* Mutant: an UPDATE that finds no row is sent again.                      *)
MissRetries(w, x) ==
  /\ x \in want[w] \ Rows
  /\ Deletes(w)
  /\ want' = [want EXCEPT ![w] = @ \ {x}]
  /\ UNCHANGED <<tables, call, plan, holds>>

(* A row that has gone is not missed by a DELETE; an UPDATE that finds no  *)
(* row raises.                                                             *)
Miss(w, x) ==
  /\ x \in want[w] \ Rows
  /\ \/ /\ Deletes(w)
        /\ want' = [want EXCEPT ![w] = @ \ {x}]
        /\ UNCHANGED <<tables, call, plan, holds>>
     \/ ~Deletes(w) /\ Rollback(w)

NextStatement(w) ==
  /\ want[w] = {} /\ Len(plan[w]) > 1
  /\ plan' = [plan EXCEPT ![w] = Tail(@)]
  /\ want' = [want EXCEPT ![w] = Found(call[w], plan[w][2])]
  /\ UNCHANGED <<tables, call, holds>>

Commit(w) ==
  LET gone == CASE call[w].op = "delete_account" -> holds[w]
                [] call[w].op \in {"delete_transaction", "delete_request"} ->
                     {call[w].row}
                [] OTHER -> {}
      new == IF call[w].op = "create_transaction" THEN {call[w].row} ELSE {}
  IN
  /\ want[w] = {} /\ Len(plan[w]) = 1
  /\ accounts' = accounts \ gone
  /\ account_id' = [x \in (DOMAIN account_id \cup new) \ gone |->
                      IF x \in new THEN call[w].account ELSE account_id[x]]
  /\ Release(w)

-----------------------------------------------------------------------------
(* Waiting                                                                 *)

(* w can go on only when v has released a row.                             *)
Waits(w, v) ==
  /\ want[w] \cap holds[v] # {}
  /\ \A x \in want[w] : x \in Rows /\ ~Free(w, x)

(* The calls of C wait for one another.                                    *)
Deadlocked(C) == C # {} /\ \A w \in C : \E v \in C \ {w} : Waits(w, v)

(* PostgreSQL's detector fails one call of a circle.                       *)
BreakDeadlock(w) ==
  /\ \E C \in SUBSET Workers :
       /\ w \in C /\ Deadlocked(C)
       /\ \A D \in SUBSET C : Deadlocked(D) => D = C
  /\ Rollback(w)

(* Any statement may fail, and the process may die.                        *)
Abort(w) == ~Idle(w) /\ Rollback(w)

-----------------------------------------------------------------------------

Receive(w) ==
  \/ \E a \in AccountIds, op \in Operations : StartOnAccount(w, op, a)
  \/ \E a \in AccountIds, x \in TransactionIds : StartCreate(w, a, x)
  \/ \E x \in ChildIds, op \in Operations : StartOnChild(w, op, x)

(* A step of the call a worker is running.                                 *)
Step(w) ==
  \/ \E x \in AccountIds \cup ChildIds : Lock(w, x) \/ Miss(w, x)
  \/ NextStatement(w)
  \/ Commit(w)

Next ==
  \/ \E a \in AccountIds : CreateAccount(a)
  \/ \E a \in AccountIds, r \in RequestIds : CreateRequest(a, r)
  \/ \E w \in Workers : Receive(w) \/ Step(w) \/ BreakDeadlock(w) \/ Abort(w)

Spec == Init /\ [][Next]_vars

(* Calls need not arrive and nothing need fail.  A call that can go on     *)
(* does: strongly fair, because PostgreSQL queues the waiters of a row.    *)
(* The detector runs after every deadlock_timeout of waiting.              *)
Fairness ==
  /\ \A w \in Workers : SF_vars(Step(w))
  /\ WF_vars(\E w \in Workers : BreakDeadlock(w))

FairSpec == Spec /\ Fairness

-----------------------------------------------------------------------------
(* Properties                                                              *)

Remainders ==
  {<< >>, <<"account">>, <<"row">>, <<"account", "row">>,
   <<"requests", "account">>, <<"transactions", "requests", "account">>}

(* The variables have their types, and only calls hold locks, of rows that *)
(* are there and that nobody else has locked.                              *)
TypeOK ==
  /\ accounts \subseteq AccountIds
  /\ DOMAIN account_id \subseteq ChildIds
  /\ \A x \in DOMAIN account_id : account_id[x] \in AccountIds
  /\ call \in [Workers -> [op : Operations \cup {"none"},
                           account : AccountIds \cup {NoRow},
                           row : ChildIds \cup {NoRow}]]
  /\ plan \in [Workers -> Remainders]
  /\ want \in [Workers -> SUBSET (AccountIds \cup ChildIds)]
  /\ holds \in [Workers -> SUBSET Rows]
  /\ \A w \in Workers :
       /\ Idle(w) => call[w] = NoCall /\ want[w] = {} /\ holds[w] = {}
       /\ \A x \in holds[w] : Free(w, x)

(* Edits of transactions never deadlock with one another, however many     *)
(* there are: every circle of waiting calls has a delete_account in it,    *)
(* whose cascade takes the rows in the other order (crud_accounts.py:      *)
(* 55-58, crud_transactions.py:93, 118).                                   *)
DeadlocksNeedACascade ==
  \A C \in SUBSET Workers :
    Deadlocked(C) => \E w \in C : call[w].op = "delete_account"

(* Every call that was received returns, whatever locks the others hold.   *)
EveryCallReturns == \A w \in Workers : ~Idle(w) ~> Idle(w)
=============================================================================
