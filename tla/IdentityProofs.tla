---------------------------- MODULE IdentityProofs --------------------------
(***************************************************************************)
(* What tokens and users keep true, for any usernames and any number of    *)
(* requests side by side.  The unique index and the row fetched again do   *)
(* the work: a username stands for one row at a time, ids are never used   *)
(* again, and so the row found is the token's own, or that one is gone.    *)
(***************************************************************************)
EXTENDS Identity, TLAPS

Known == users \cup removed

(* Every row has an id of its own; none comes back.  No customer is ever   *)
(* removed.                                                                *)
IdsOK ==
  /\ \A u \in Known : u.id <= added
  /\ \A u, v \in Known : u.id = v.id => u = v
  /\ users \cap removed = {}
  /\ \A u \in removed : u.kind = "staff"

(* What a request has in hand at each of its stages.                       *)
RequestOK(w) ==
  /\ pc[w] = "insert" => username[w] \in Usernames
  /\ pc[w] = "issue" =>
       [kind |-> kind[w], username |-> username[w], id |-> row[w]] \in Known
  /\ pc[w] \in {"fetch", "handle"} =>
       [kind |-> kind[w], username |-> username[w], id |-> presented[w]]
         \in Known
  /\ \A i \in gone[w] : \E u \in removed : u.id = i

IInv ==
  /\ TypeOK
  /\ IdsOK
  /\ OneUserPerName
  /\ TokensNameRealUsers
  /\ \A w \in Workers : RequestOK(w)
  /\ ActsForItsOwner
  /\ DeletedStopsWorking

-----------------------------------------------------------------------------
(* Steps                                                                   *)

(* A registration only remembers a name that was free.                     *)
LEMMA RegisterStep ==
  ASSUME IInv, NEW w \in Workers, NEW k \in Kinds, NEW n \in Usernames,
         Register(w, k, n)
  PROVE  IInv'
<1> USE IdentityAssumption DEF IInv, TypeOK, Rows, Tokens, Kinds, Known, tables,
                               locals, Goto, Forget, Named, Register
<1>1. TypeOK'
  OBVIOUS
<1>2. IdsOK'
  BY DEF IdsOK
<1>3. OneUserPerName'
  BY DEF OneUserPerName
<1>4. TokensNameRealUsers'
  BY DEF TokensNameRealUsers
<1>5. \A v \in Workers : RequestOK(v)'
  BY DEF RequestOK, IdsOK
<1>6. ActsForItsOwner'
  BY DEF ActsForItsOwner, RequestOK
<1>7. DeletedStopsWorking'
  BY DEF DeletedStopsWorking, RequestOK
<1> QED
  BY <1>1, <1>2, <1>3, <1>4, <1>5, <1>6, <1>7

(* The index keeps a name from being used twice; the id is a new one.      *)
LEMMA InsertStep ==
  ASSUME IInv, NEW w \in Workers, Insert(w)
  PROVE  IInv'
<1> USE IdentityAssumption DEF IInv, TypeOK, Rows, Tokens, Kinds, Known, tables,
                               locals, Goto, Forget, Named, Insert
<1>1. TypeOK'
  <2>1. username[w] \in Usernames /\ kind[w] \in Kinds
    BY DEF RequestOK
  <2>2. added + 1 \in 1 .. MaxRows
    OBVIOUS
  <2>3. [kind |-> kind[w], username |-> username[w], id |-> added + 1] \in Rows
    BY <2>1, <2>2
  <2>4. users' \subseteq Rows
    BY <2>3
  <2> QED
    BY <2>2, <2>4
<1>2. IdsOK'
  BY DEF IdsOK
<1>3. OneUserPerName'
  BY DEF OneUserPerName
<1>4. TokensNameRealUsers'
  BY DEF TokensNameRealUsers
<1>5. \A v \in Workers : RequestOK(v)'
  <2>1. \A v \in Workers : RequestOK(v)
    OBVIOUS
  <2>2. Known \subseteq Known' /\ removed' = removed
    OBVIOUS
  <2>3. [kind |-> kind[w], username |-> username[w], id |-> added + 1] \in Known'
    OBVIOUS
  <2>4. RequestOK(w)'
    BY <2>1, <2>2, <2>3 DEF RequestOK
  <2>5. ASSUME NEW v \in Workers \ {w} PROVE RequestOK(v)'
    BY <2>1, <2>2 DEF RequestOK
  <2> QED
    BY <2>4, <2>5
<1>6. ActsForItsOwner'
  BY DEF ActsForItsOwner, RequestOK
<1>7. DeletedStopsWorking'
  BY DEF DeletedStopsWorking, RequestOK
<1> QED
  BY <1>1, <1>2, <1>3, <1>4, <1>5, <1>6, <1>7

(* The loser of a race leaves nothing behind.                              *)
LEMMA InsertFailsStep ==
  ASSUME IInv, NEW w \in Workers, InsertFails(w)
  PROVE  IInv'
<1> USE IdentityAssumption DEF IInv, TypeOK, Rows, Tokens, Kinds, Known, tables,
                               locals, Goto, Forget, Named, InsertFails
<1>1. TypeOK'
  OBVIOUS
<1>2. IdsOK'
  BY DEF IdsOK
<1>3. OneUserPerName'
  BY DEF OneUserPerName
<1>4. TokensNameRealUsers'
  BY DEF TokensNameRealUsers
<1>5. \A v \in Workers : RequestOK(v)'
  BY DEF RequestOK, IdsOK
<1>6. ActsForItsOwner'
  BY DEF ActsForItsOwner, RequestOK
<1>7. DeletedStopsWorking'
  BY DEF DeletedStopsWorking, RequestOK
<1> QED
  BY <1>1, <1>2, <1>3, <1>4, <1>5, <1>6, <1>7

(* The row whose password was given is a known one.                        *)
LEMMA LogInStep ==
  ASSUME IInv, NEW w \in Workers, NEW u \in users, LogIn(w, u)
  PROVE  IInv'
<1> USE IdentityAssumption DEF IInv, TypeOK, Rows, Tokens, Kinds, Known, tables,
                               locals, Goto, Forget, Named, LogIn
<1>1. TypeOK'
  OBVIOUS
<1>2. IdsOK'
  BY DEF IdsOK
<1>3. OneUserPerName'
  BY DEF OneUserPerName
<1>4. TokensNameRealUsers'
  BY DEF TokensNameRealUsers
<1>5. \A v \in Workers : RequestOK(v)'
  <2>1. u = [kind |-> u.kind, username |-> u.username, id |-> u.id]
    OBVIOUS
  <2> QED
    BY <2>1 DEF RequestOK
<1>6. ActsForItsOwner'
  BY DEF ActsForItsOwner, RequestOK
<1>7. DeletedStopsWorking'
  BY DEF DeletedStopsWorking, RequestOK
<1> QED
  BY <1>1, <1>2, <1>3, <1>4, <1>5, <1>6, <1>7

(* The token is for the row in hand, which is known for good.              *)
LEMMA IssueTokenStep ==
  ASSUME IInv, NEW w \in Workers, IssueToken(w)
  PROVE  IInv'
<1> USE IdentityAssumption DEF IInv, TypeOK, Rows, Tokens, Kinds, Known, tables,
                               locals, Goto, Forget, Named, IssueToken
<1>1. TypeOK'
  <2>1. [kind |-> kind[w], username |-> username[w], id |-> row[w]] \in Rows
    BY DEF RequestOK
  <2>2. kind[w] \in Kinds /\ username[w] \in Usernames /\ row[w] \in 0 .. MaxRows
    BY <2>1
  <2>3. [typ |-> kind[w], sub |-> username[w], for |-> row[w]] \in Tokens
    BY <2>2
  <2>4. tokens' \subseteq Tokens
    BY <2>3
  <2> QED
    BY <2>4
<1>2. IdsOK'
  BY DEF IdsOK
<1>3. OneUserPerName'
  BY DEF OneUserPerName
<1>4. TokensNameRealUsers'
  <2> DEFINE t == [typ |-> kind[w], sub |-> username[w], for |-> row[w]]
  <2>1. [kind |-> t.typ, username |-> t.sub, id |-> t.for] \in Known
    BY DEF RequestOK
  <2>2. tokens' = tokens \cup {t} /\ Known' = Known
    OBVIOUS
  <2> HIDE DEF t
  <2> QED
    BY <2>1, <2>2 DEF TokensNameRealUsers
<1>5. \A v \in Workers : RequestOK(v)'
  BY DEF RequestOK, IdsOK
<1>6. ActsForItsOwner'
  BY DEF ActsForItsOwner, RequestOK
<1>7. DeletedStopsWorking'
  BY DEF DeletedStopsWorking, RequestOK
<1> QED
  BY <1>1, <1>2, <1>3, <1>4, <1>5, <1>6, <1>7

(* A token names a known row of its own type.                              *)
LEMMA PresentStep ==
  ASSUME IInv, NEW w \in Workers, NEW t \in tokens, NEW k \in Kinds,
         Present(w, t, k)
  PROVE  IInv'
<1> USE IdentityAssumption DEF IInv, TypeOK, Rows, Tokens, Kinds, Known, tables,
                               locals, Goto, Forget, Named, Present
<1>1. TypeOK'
  OBVIOUS
<1>2. IdsOK'
  BY DEF IdsOK
<1>3. OneUserPerName'
  BY DEF OneUserPerName
<1>4. TokensNameRealUsers'
  BY DEF TokensNameRealUsers
<1>5. \A v \in Workers : RequestOK(v)'
  BY DEF RequestOK, TokensNameRealUsers
<1>6. ActsForItsOwner'
  BY DEF ActsForItsOwner, RequestOK
<1>7. DeletedStopsWorking'
  BY DEF DeletedStopsWorking, RequestOK
<1> QED
  BY <1>1, <1>2, <1>3, <1>4, <1>5, <1>6, <1>7

(* The row found is the token's own, or that one was removed.              *)
LEMMA FetchStep ==
  ASSUME IInv, NEW w \in Workers, Fetch(w)
  PROVE  IInv'
<1> USE IdentityAssumption DEF IInv, TypeOK, Rows, Tokens, Kinds, Known, tables,
                               locals, Goto, Forget, Named, Fetch
<1>1. TypeOK'
  OBVIOUS
<1>2. IdsOK'
  BY DEF IdsOK
<1>3. OneUserPerName'
  BY DEF OneUserPerName
<1>4. TokensNameRealUsers'
  BY DEF TokensNameRealUsers
<1>5. \A v \in Workers : RequestOK(v)'
  BY DEF RequestOK, IdsOK
<1>6. ActsForItsOwner'
  <2>1. PICK u \in Named(kind[w], username[w]) :
               row' = [row EXCEPT ![w] = u.id]
    OBVIOUS
  <2>2. DEFINE p == [kind |-> kind[w], username |-> username[w],
                     id |-> presented[w]]
  <2>3. p \in removed \/ p = u
    <3>1. p \in Known
      BY DEF RequestOK
    <3>2. u \in users /\ u.kind = p.kind /\ u.username = p.username
      OBVIOUS
    <3> QED
      BY <3>1, <3>2 DEF OneUserPerName
  <2>4. p \in removed \/ row'[w] = presented[w]
    BY <2>1, <2>3
  <2> QED
    BY <2>4 DEF ActsForItsOwner
<1>7. DeletedStopsWorking'
  <2>1. PICK u \in Named(kind[w], username[w]) :
               row' = [row EXCEPT ![w] = u.id]
    OBVIOUS
  <2>2. u \in users
    OBVIOUS
  <2>3. \A x \in removed : x.id # u.id
    BY <2>2 DEF IdsOK
  <2>4. u.id \notin gone[w]
    BY <2>3 DEF RequestOK
  <2> QED
    BY <2>1, <2>4 DEF DeletedStopsWorking
<1> QED
  BY <1>1, <1>2, <1>3, <1>4, <1>5, <1>6, <1>7

(* A request whose user is gone is refused.                                *)
LEMMA FetchFailsStep ==
  ASSUME IInv, NEW w \in Workers, FetchFails(w)
  PROVE  IInv'
<1> USE IdentityAssumption DEF IInv, TypeOK, Rows, Tokens, Kinds, Known, tables,
                               locals, Goto, Forget, Named, FetchFails
<1>1. TypeOK'
  OBVIOUS
<1>2. IdsOK'
  BY DEF IdsOK
<1>3. OneUserPerName'
  BY DEF OneUserPerName
<1>4. TokensNameRealUsers'
  BY DEF TokensNameRealUsers
<1>5. \A v \in Workers : RequestOK(v)'
  BY DEF RequestOK, IdsOK
<1>6. ActsForItsOwner'
  BY DEF ActsForItsOwner, RequestOK
<1>7. DeletedStopsWorking'
  BY DEF DeletedStopsWorking, RequestOK
<1> QED
  BY <1>1, <1>2, <1>3, <1>4, <1>5, <1>6, <1>7

(* A handler is done.                                                      *)
LEMMA HandleStep ==
  ASSUME IInv, NEW w \in Workers, Handle(w)
  PROVE  IInv'
<1> USE IdentityAssumption DEF IInv, TypeOK, Rows, Tokens, Kinds, Known, tables,
                               locals, Goto, Forget, Named, Handle
<1>1. TypeOK'
  OBVIOUS
<1>2. IdsOK'
  BY DEF IdsOK
<1>3. OneUserPerName'
  BY DEF OneUserPerName
<1>4. TokensNameRealUsers'
  BY DEF TokensNameRealUsers
<1>5. \A v \in Workers : RequestOK(v)'
  BY DEF RequestOK, IdsOK
<1>6. ActsForItsOwner'
  BY DEF ActsForItsOwner, RequestOK
<1>7. DeletedStopsWorking'
  BY DEF DeletedStopsWorking, RequestOK
<1> QED
  BY <1>1, <1>2, <1>3, <1>4, <1>5, <1>6, <1>7

(* A row removed stays known.                                              *)
LEMMA RemoveStaffStep ==
  ASSUME IInv, NEW u \in users, RemoveStaff(u)
  PROVE  IInv'
<1> USE IdentityAssumption DEF IInv, TypeOK, Rows, Tokens, Kinds, Known, tables,
                               locals, Goto, Forget, Named, RemoveStaff
<1>1. TypeOK'
  OBVIOUS
<1>2. IdsOK'
  BY DEF IdsOK
<1>3. OneUserPerName'
  BY DEF OneUserPerName
<1>4. TokensNameRealUsers'
  BY DEF TokensNameRealUsers
<1>5. \A v \in Workers : RequestOK(v)'
  BY DEF RequestOK, IdsOK
<1>6. ActsForItsOwner'
  BY DEF ActsForItsOwner, RequestOK
<1>7. DeletedStopsWorking'
  BY DEF DeletedStopsWorking, RequestOK
<1> QED
  BY <1>1, <1>2, <1>3, <1>4, <1>5, <1>6, <1>7

(* A token less.                                                           *)
LEMMA ExpireStep ==
  ASSUME IInv, NEW t \in tokens, Expire(t)
  PROVE  IInv'
<1> USE IdentityAssumption DEF IInv, TypeOK, Rows, Tokens, Kinds, Known, tables,
                               locals, Goto, Forget, Named, Expire
<1>1. TypeOK'
  OBVIOUS
<1>2. IdsOK'
  BY DEF IdsOK
<1>3. OneUserPerName'
  BY DEF OneUserPerName
<1>4. TokensNameRealUsers'
  BY DEF TokensNameRealUsers
<1>5. \A v \in Workers : RequestOK(v)'
  BY DEF RequestOK, IdsOK
<1>6. ActsForItsOwner'
  BY DEF ActsForItsOwner, RequestOK
<1>7. DeletedStopsWorking'
  BY DEF DeletedStopsWorking, RequestOK
<1> QED
  BY <1>1, <1>2, <1>3, <1>4, <1>5, <1>6, <1>7

(* A request that dies leaves nothing but what it committed.               *)
LEMMA AbortStep ==
  ASSUME IInv, NEW w \in Workers, Abort(w)
  PROVE  IInv'
<1> USE IdentityAssumption DEF IInv, TypeOK, Rows, Tokens, Kinds, Known, tables,
                               locals, Goto, Forget, Named, Abort
<1>1. TypeOK'
  OBVIOUS
<1>2. IdsOK'
  BY DEF IdsOK
<1>3. OneUserPerName'
  BY DEF OneUserPerName
<1>4. TokensNameRealUsers'
  BY DEF TokensNameRealUsers
<1>5. \A v \in Workers : RequestOK(v)'
  BY DEF RequestOK, IdsOK
<1>6. ActsForItsOwner'
  BY DEF ActsForItsOwner, RequestOK
<1>7. DeletedStopsWorking'
  BY DEF DeletedStopsWorking, RequestOK
<1> QED
  BY <1>1, <1>2, <1>3, <1>4, <1>5, <1>6, <1>7

(* Nothing changes.                                                        *)
LEMMA StutterStep ==
  ASSUME IInv, UNCHANGED vars
  PROVE  IInv'
BY DEF IInv, TypeOK, Rows, Tokens, IdsOK, Known, OneUserPerName,
       TokensNameRealUsers, RequestOK, ActsForItsOwner, DeletedStopsWorking,
       vars, tables, locals

-----------------------------------------------------------------------------

(* There is nobody at first.                                               *)
LEMMA InitOK == Init => IInv
BY IdentityAssumption
   DEF Init, IInv, TypeOK, Rows, Tokens, Kinds, IdsOK, Known, OneUserPerName,
       TokensNameRealUsers, RequestOK, ActsForItsOwner, DeletedStopsWorking

(* The step of a request.                                                  *)
LEMMA RequestStep ==
  ASSUME IInv, NEW w \in Workers, Request(w)
  PROVE  IInv'
BY RegisterStep, InsertStep, InsertFailsStep, LogInStep, IssueTokenStep,
   PresentStep, FetchStep, FetchFailsStep, HandleStep, AbortStep DEF Request

(* Every step keeps the invariant.                                         *)
LEMMA IInvStep == IInv /\ [Next]_vars => IInv'
<1> SUFFICES ASSUME IInv, [Next]_vars PROVE IInv'
  OBVIOUS
<1>1. CASE \E w \in Workers : Request(w)
  BY <1>1, RequestStep
<1>2. CASE \E u \in users : RemoveStaff(u)
  BY <1>2, RemoveStaffStep
<1>3. CASE \E t \in tokens : Expire(t)
  BY <1>3, ExpireStep
<1>4. CASE UNCHANGED vars
  BY <1>4, StutterStep
<1> QED
  BY <1>1, <1>2, <1>3, <1>4 DEF Next

(* The invariant holds throughout.                                         *)
THEOREM Invariance == Spec => []IInv
BY InitOK, IInvStep, PTL DEF Spec

(* The types of tables, tokens and what requests keep.                     *)
THEOREM TypeCorrect == Spec => []TypeOK
<1>1. IInv => TypeOK
  BY DEF IInv
<1> QED
  BY <1>1, Invariance, PTL

(* A customer's name stands for one customer, however registrations race   *)
(* (customer_router.py:44-53): the rows of two tokens of one name are both *)
(* in the table still, which has one row of that name.                     *)
THEOREM CustomersDistinct == Spec => []OneCustomerPerName
<1>1. IInv => OneCustomerPerName
  <2> SUFFICES ASSUME IInv, NEW t \in tokens, NEW v \in tokens,
                      t.typ = "customer", v.typ = "customer", t.sub = v.sub
               PROVE  t.for = v.for
    BY DEF OneCustomerPerName
  <2> DEFINE RowOf(x) == [kind |-> x.typ, username |-> x.sub, id |-> x.for]
  <2>1. RowOf(t) \in users /\ RowOf(v) \in users
    BY DEF IInv, TokensNameRealUsers, IdsOK
  <2>2. RowOf(t) = RowOf(v)
    BY <2>1 DEF IInv, OneUserPerName
  <2> QED
    BY <2>2
<1> QED
  BY <1>1, Invariance, PTL

(* Every token was given out for a row that was committed.                 *)
THEOREM TokensEarned == Spec => []TokensNameRealUsers
<1>1. IInv => TokensNameRealUsers
  BY DEF IInv
<1> QED
  BY <1>1, Invariance, PTL

(* Nobody acts for another, and staff and customers never for each other   *)
(* (auth.py:54-63, 81-126).                                                *)
THEOREM OwnersActed == Spec => []ActsForItsOwner
<1>1. IInv => ActsForItsOwner
  BY DEF IInv
<1> QED
  BY <1>1, Invariance, PTL

(* A removed user's requests are refused from then on (auth.py:83-86).     *)
THEOREM Revocation == Spec => []DeletedStopsWorking
<1>1. IInv => DeletedStopsWorking
  BY DEF IInv
<1> QED
  BY <1>1, Invariance, PTL
=============================================================================
