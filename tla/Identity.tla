------------------------------ MODULE Identity ------------------------------
(***************************************************************************)
(* Who a request acts for (auth.py and the routers that log in and         *)
(* register).  Customers register themselves; staff are added by a script  *)
(* and removed by hand in the database.  A token names a user by username  *)
(* and is not stored anywhere: only its expiry, or the row going away,     *)
(* ends it.                                                                *)
(*                                                                         *)
(* A worker is a request, or a run of the script, in some process: tokens  *)
(* are checked in the thread pool, and scripts and other backend processes *)
(* work on the same tables.  Each database call is a step of its own.      *)
(***************************************************************************)
EXTENDS Naturals

CONSTANTS
  Usernames,  (* after strip(), not empty                                  *)
  Workers,    (* requests handled side by side                             *)
  NoName,     (* no username                                               *)
  MaxRows     (* bounds how many users are ever added                      *)

ASSUME IdentityAssumption ==
  /\ NoName \notin Usernames
  /\ MaxRows \in Nat

Kinds == {"staff", "customer"}

VARIABLES
  users,      (* tables staff_users and customers; ids are numbered        *)
  removed,    (* history: the rows removed                                 *)
  added,      (* how many rows were ever added                             *)
  tokens,     (* those issued and not expired, with the row each is for    *)
  pc,         (* where a worker is                                         *)
  kind,       (* which of the two logins it is about                       *)
  username,   (* the name asked for, or the "sub" of the token presented   *)
  row,        (* the row it has added or found, 0 for none                 *)
  presented,  (* history: the row the presented token is for               *)
  gone        (* history: the rows removed before it was presented         *)

tables == <<users, removed, added>>
locals == <<pc, kind, username, row, presented, gone>>
vars == <<tables, tokens, locals>>

Rows == [kind : Kinds, username : Usernames, id : 1 .. MaxRows]
Tokens == [typ : Kinds, sub : Usernames, for : 0 .. MaxRows]

Init ==
  /\ users = {} /\ removed = {} /\ added = 0
  /\ tokens = {}
  /\ pc = [w \in Workers |-> "idle"]
  /\ kind = [w \in Workers |-> "customer"]
  /\ username = [w \in Workers |-> NoName]
  /\ row = [w \in Workers |-> 0]
  /\ presented = [w \in Workers |-> 0]
  /\ gone = [w \in Workers |-> {}]

(* SELECT ... WHERE username = :name in the table of that kind.            *)
Named(k, n) == {u \in users : u.kind = k /\ u.username = n}

Forget(w) ==
  /\ pc' = [pc EXCEPT ![w] = "idle"]
  /\ kind' = [kind EXCEPT ![w] = "customer"]
  /\ username' = [username EXCEPT ![w] = NoName]
  /\ row' = [row EXCEPT ![w] = 0]
  /\ presented' = [presented EXCEPT ![w] = 0]
  /\ gone' = [gone EXCEPT ![w] = {}]

Goto(w, stage) == pc' = [pc EXCEPT ![w] = stage]

-----------------------------------------------------------------------------
(* Registration, and the script that adds staff                            *)

(* Mutant: a name of blanks only is not refused.                           *)
RegisterBlank(w, k, n) ==
  /\ pc[w] = "idle"
  /\ Named(k, NoName) = {}
  /\ kind' = [kind EXCEPT ![w] = k]
  /\ username' = [username EXCEPT ![w] = NoName]
  /\ Goto(w, "insert")
  /\ UNCHANGED <<tables, tokens, row, presented, gone>>

(* A name that is taken is refused, as are short passwords: no effect.     *)
Register(w, k, n) ==
  /\ pc[w] = "idle"
  /\ Named(k, n) = {}
  /\ kind' = [kind EXCEPT ![w] = k]
  /\ username' = [username EXCEPT ![w] = n]
  /\ Goto(w, "insert")
  /\ UNCHANGED <<tables, tokens, row, presented, gone>>

(* Mutant: the table without its unique index.                             *)
InsertUnindexed(w) ==
  /\ pc[w] = "insert" /\ added < MaxRows
  /\ added' = added + 1
  /\ users' = users \cup {[kind |-> kind[w], username |-> username[w],
                           id |-> added + 1]}
  /\ row' = [row EXCEPT ![w] = added + 1]
  /\ Goto(w, "issue")
  /\ UNCHANGED <<removed, tokens, kind, username, presented, gone>>

(* The unique index lets the row in.  Only a customer is given a token.    *)
Insert(w) ==
  /\ pc[w] = "insert" /\ added < MaxRows
  /\ Named(kind[w], username[w]) = {}
  /\ added' = added + 1
  /\ users' = users \cup {[kind |-> kind[w], username |-> username[w],
                           id |-> added + 1]}
  /\ \/ /\ kind[w] = "customer"
        /\ row' = [row EXCEPT ![w] = added + 1]
        /\ Goto(w, "issue")
        /\ UNCHANGED <<kind, username, presented, gone>>
     \/ kind[w] = "staff" /\ Forget(w)
  /\ UNCHANGED <<removed, tokens>>

(* Mutant: the failed commit is taken to mean the user exists already.     *)
InsertSwallowed(w) ==
  /\ pc[w] = "insert"
  /\ Named(kind[w], username[w]) # {}
  /\ Goto(w, "issue")
  /\ UNCHANGED <<tables, tokens, kind, username, row, presented, gone>>

(* Another worker has taken the name since: IntegrityError, which no       *)
(* handler maps, ends the request.                                         *)
InsertFails(w) ==
  /\ pc[w] = "insert"
  /\ Named(kind[w], username[w]) # {}
  /\ Forget(w)
  /\ UNCHANGED <<tables, tokens>>

-----------------------------------------------------------------------------
(* Login.  A wrong password is refused: no effect.                         *)

LogIn(w, u) ==
  /\ pc[w] = "idle"
  /\ kind' = [kind EXCEPT ![w] = u.kind]
  /\ username' = [username EXCEPT ![w] = u.username]
  /\ row' = [row EXCEPT ![w] = u.id]
  /\ Goto(w, "issue")
  /\ UNCHANGED <<tables, tokens, presented, gone>>

(* create_access_token: nobody looks at the row again.                     *)
IssueToken(w) ==
  /\ pc[w] = "issue"
  /\ tokens' = tokens \cup
       {[typ |-> kind[w], sub |-> username[w], for |-> row[w]]}
  /\ Forget(w)
  /\ UNCHANGED tables

-----------------------------------------------------------------------------
(* A protected request: _decode_subject, the row, the handler              *)

(* Mutant: the signature and the expiry are checked, the type is not.      *)
PresentAnyType(w, t, k) ==
  /\ pc[w] = "idle"
  /\ kind' = [kind EXCEPT ![w] = k]
  /\ username' = [username EXCEPT ![w] = t.sub]
  /\ presented' = [presented EXCEPT ![w] = t.for]
  /\ gone' = [gone EXCEPT ![w] = {u.id : u \in removed}]
  /\ Goto(w, "fetch")
  /\ UNCHANGED <<tables, tokens, row>>

(* A token of the other type is refused, and so is an expired one.         *)
Present(w, t, k) ==
  /\ pc[w] = "idle"
  /\ t.typ = k
  /\ kind' = [kind EXCEPT ![w] = k]
  /\ username' = [username EXCEPT ![w] = t.sub]
  /\ presented' = [presented EXCEPT ![w] = t.for]
  /\ gone' = [gone EXCEPT ![w] = {u.id : u \in removed}]
  /\ Goto(w, "fetch")
  /\ UNCHANGED <<tables, tokens, row>>

(* Mutant: the token is trusted for as long as it lives.                   *)
FetchNothing(w) ==
  /\ pc[w] = "fetch"
  /\ row' = [row EXCEPT ![w] = presented[w]]
  /\ Goto(w, "handle")
  /\ UNCHANGED <<tables, tokens, kind, username, presented, gone>>

Fetch(w) ==
  /\ pc[w] = "fetch"
  /\ \E u \in Named(kind[w], username[w]) : row' = [row EXCEPT ![w] = u.id]
  /\ Goto(w, "handle")
  /\ UNCHANGED <<tables, tokens, kind, username, presented, gone>>

FetchFails(w) ==
  /\ pc[w] = "fetch"
  /\ Named(kind[w], username[w]) = {}
  /\ Forget(w)
  /\ UNCHANGED <<tables, tokens>>

(* The handler acts for the row fetched, however long it takes.            *)
Handle(w) ==
  /\ pc[w] = "handle"
  /\ Forget(w)
  /\ UNCHANGED <<tables, tokens>>

-----------------------------------------------------------------------------

(* A staff row is deleted by hand; customers are never deleted.            *)
RemoveStaff(u) ==
  /\ u.kind = "staff"
  /\ users' = users \ {u}
  /\ removed' = removed \cup {u}
  /\ UNCHANGED <<added, tokens, locals>>

(* Sixty minutes pass at any moment.                                       *)
Expire(t) ==
  /\ tokens' = tokens \ {t}
  /\ UNCHANGED <<tables, locals>>

(* A statement fails or the process dies, before or after its commit.      *)
Abort(w) ==
  /\ pc[w] # "idle"
  /\ Forget(w)
  /\ UNCHANGED <<tables, tokens>>

Request(w) ==
  \/ \E k \in Kinds, n \in Usernames : Register(w, k, n)
  \/ Insert(w) \/ InsertFails(w)
  \/ \E u \in users : LogIn(w, u)
  \/ IssueToken(w)
  \/ \E t \in tokens, k \in Kinds : Present(w, t, k)
  \/ Fetch(w) \/ FetchFails(w) \/ Handle(w)
  \/ Abort(w)

Next ==
  \/ \E w \in Workers : Request(w)
  \/ \E u \in users : RemoveStaff(u)
  \/ \E t \in tokens : Expire(t)

Spec == Init /\ [][Next]_vars

-----------------------------------------------------------------------------
(* Properties                                                              *)

(* The variables have their types.                                         *)
TypeOK ==
  /\ users \subseteq Rows
  /\ removed \subseteq Rows
  /\ added \in 0 .. MaxRows
  /\ tokens \subseteq Tokens
  /\ pc \in [Workers -> {"idle", "insert", "issue", "fetch", "handle"}]
  /\ kind \in [Workers -> Kinds]
  /\ username \in [Workers -> Usernames \cup {NoName}]
  /\ row \in [Workers -> 0 .. MaxRows]
  /\ presented \in [Workers -> 0 .. MaxRows]
  /\ gone \in [Workers -> SUBSET (1 .. MaxRows)]

(* Registrations that race each other, and staff that go and come back,    *)
(* leave one row per username, so that scalar_one_or_none() never raises   *)
(* (auth.py:73, 91, 105, 121).                                             *)
OneUserPerName ==
  \A u, v \in users :
    u.kind = v.kind /\ u.username = v.username => u = v

(* A customer's name stands for one customer for as long as any token      *)
(* says it: of two registrations that race, never do both get a token, and *)
(* nobody who comes later is given the name of a customer whose token is   *)
(* still good.  The token is made of the name alone, after the commit      *)
(* (customer_router.py:44-53), by somebody who looked before.              *)
OneCustomerPerName ==
  \A t, v \in tokens :
    t.typ = "customer" /\ v.typ = "customer" /\ t.sub = v.sub => t.for = v.for

(* A token is only given out for a row that was committed and that has the *)
(* token's name and type, also to the loser of a registration race and to  *)
(* a staff member removed while logging in.                                *)
TokensNameRealUsers ==
  \A t \in tokens :
    [kind |-> t.typ, username |-> t.sub, id |-> t.for] \in users \cup removed

(* "the two are never structurally interchangeable" (auth.py:10-11), and   *)
(* nobody acts for another: the row a handler acts for is the one its      *)
(* token was given out for, or that one was removed and its name, of the   *)
(* same kind, given to another.                                            *)
ActsForItsOwner ==
  \A w \in Workers : pc[w] = "handle" =>
    \/ row[w] = presented[w]
    \/ [kind |-> kind[w], username |-> username[w], id |-> presented[w]]
         \in removed

(* "a deleted staff account stops working immediately rather than staying  *)
(* valid until the token expires" (auth.py:85-86): no handler acts for a   *)
(* row that was gone before its request began.                             *)
DeletedStopsWorking ==
  \A w \in Workers : pc[w] = "handle" => row[w] \notin gone[w]
=============================================================================
