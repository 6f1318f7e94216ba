--------------------------- MODULE SessionsProofs ---------------------------
(***************************************************************************)
(* Types for any number of backend processes, and what one process keeps   *)
(* true of its sessions, for any number of sessions and customers and      *)
(* wherever statements fail or the process crashes.  With a second process *)
(* only the types hold.                                                    *)
(***************************************************************************)
EXTENDS Sessions, TLAPS

OneProcess == \E p : Processes = {p}

(* Only a sweep has a list and no customer.                                *)
JobTyped(p) ==
  /\ pc[p] \in {"verify", "bind", "touch", "turn"} => customer[p] \in Customers
  /\ pc[p] \notin {"sweep", "delete_thread", "delete_row"} => todo[p] = {}

TypeInv == TypeOK /\ \A p \in Processes : JobTyped(p)

(* What the process has established of its session at each stage: it       *)
(* expires only what is idle, it deletes the row of a session of which     *)
(* nothing else is left, and it talks only to the customer it is bound to. *)
JobOK(p) ==
  /\ JobTyped(p)
  /\ pc[p] \in {"delete_thread", "delete_row"} => Expired(session[p])
  /\ pc[p] = "delete_row" => Known(session[p]) = {}
  /\ pc[p] = "bind" => Bound(session[p]) = NoCustomer
  /\ pc[p] \in {"touch", "turn"} =>
       /\ session[p] \in DOMAIN rows
       /\ Bound(session[p]) = customer[p]
  /\ \A s \in todo[p] : Expired(s)
  /\ pc[p] \in {"delete_thread", "delete_row"} => session[p] \notin todo[p]

Inv ==
  /\ TypeOK
  /\ NothingOutlivesTheBinding
  /\ \A p \in Processes : JobOK(p)

(* Init establishes the invariant.                                         *)
LEMMA InitInv == Init => Inv
<1> USE CustomerAssumption
<1> SUFFICES ASSUME Init PROVE Inv
  OBVIOUS
<1>1. TypeOK
  BY DEF Init, TypeOK, PCs
<1>2. NothingOutlivesTheBinding
  BY DEF Init, NothingOutlivesTheBinding, Known
<1>3. \A p \in Processes : JobOK(p)
  BY DEF Init, JobOK, JobTyped
<1> QED
  BY <1>1, <1>2, <1>3 DEF Inv

(* The types are kept whatever the number of processes.                    *)
LEMMA TypeStep ==
  ASSUME TypeInv, [Next]_vars
  PROVE  TypeOK'
<1> USE DEF TypeInv, TypeOK, PCs, Goto, stores, job
<1>1. ASSUME NEW p \in Processes, NEW s \in SessionIds, DeleteThread(p, s)
      PROVE  TypeOK'
  BY <1>1 DEF DeleteThread
<1>2. ASSUME NEW p \in Processes, NEW s \in SessionIds, DeleteRow(p, s)
      PROVE  TypeOK'
  BY <1>2 DEF DeleteRow
<1>3. ASSUME NEW p \in Processes, StartSweep(p)
      PROVE  TypeOK'
  BY <1>3 DEF StartSweep
<1>4. ASSUME NEW p \in Processes, NEW s \in SessionIds, SweepNext(p, s)
      PROVE  TypeOK'
  BY <1>4 DEF SweepNext
<1>5. ASSUME NEW p \in Processes, SweepDone(p)
      PROVE  TypeOK'
  BY <1>5 DEF SweepDone
<1>6. ASSUME NEW p \in Processes, Chat(p)
      PROVE  TypeOK'
  BY <1>6 DEF Chat, JobTyped
<1>7. ASSUME NEW p \in Processes, VerifyCustomer(p)
      PROVE  TypeOK'
  BY <1>7 DEF VerifyCustomer
<1>8. ASSUME NEW p \in Processes, BindCustomer(p)
      PROVE  TypeOK'
  BY <1>8 DEF BindCustomer, SetRow
<1>9. ASSUME NEW p \in Processes, Touch(p)
      PROVE  TypeOK'
  BY <1>9 DEF Touch, SetRow, Bound
<1>10. ASSUME NEW p \in Processes, Superstep(p)
       PROVE  TypeOK'
  <2>1. customer[p] \in Customers /\ session[p] \in SessionIds
    BY <1>10 DEF Superstep, JobTyped
  <2>2. thread' \in [SessionIds -> SUBSET Customers]
    BY <1>10, <2>1 DEF Superstep
  <2>3. memory' \in [Processes -> [SessionIds -> SUBSET Customers]]
    <3>1. CASE UNCHANGED memory
      BY <3>1
    <3>2. CASE memory' = [memory EXCEPT ![p][session[p]] =
                            memory[p][session[p]] \cup {customer[p]}]
      <4>1. memory[p] \in [SessionIds -> SUBSET Customers]
        OBVIOUS
      <4>2. [memory[p] EXCEPT ![session[p]] =
               memory[p][session[p]] \cup {customer[p]}]
              \in [SessionIds -> SUBSET Customers]
        BY <2>1, <4>1
      <4> QED
        BY <3>2, <4>2
    <3> QED
      BY <1>10, <3>1, <3>2 DEF Superstep
  <2> QED
    BY <1>10, <2>2, <2>3 DEF Superstep
<1>11. ASSUME NEW p \in Processes, Reply(p)
       PROVE  TypeOK'
  BY <1>11 DEF Reply
<1>12. ASSUME NEW p \in Processes, Fail(p)
       PROVE  TypeOK'
  BY <1>12 DEF Fail
<1>13. ASSUME NEW p \in Processes, Crash(p)
       PROVE  TypeOK'
  BY <1>13 DEF Crash
<1>14. ASSUME NEW s \in SessionIds, GoIdle(s)
       PROVE  TypeOK'
  BY <1>14 DEF GoIdle
<1>15. CASE UNCHANGED vars
  BY <1>15 DEF vars
<1> QED
  BY <1>1, <1>2, <1>3, <1>4, <1>5, <1>6, <1>7, <1>8, <1>9, <1>10, <1>11,
     <1>12, <1>13, <1>14, <1>15 DEF Next, Expire, Sweep, Request

(* And so is which processes have a list, a customer, or neither.          *)
LEMMA TypedStep ==
  ASSUME TypeInv, [Next]_vars, NEW q \in Processes
  PROVE  JobTyped(q)'
<1> USE CustomerAssumption DEF TypeInv, TypeOK, JobTyped, Goto, stores, job
<1>1. ASSUME NEW p \in Processes, NEW s \in SessionIds,
             DeleteThread(p, s) \/ DeleteRow(p, s) \/ SweepNext(p, s)
      PROVE  JobTyped(q)'
  BY <1>1 DEF DeleteThread, DeleteRow, SweepNext
<1>2. ASSUME NEW p \in Processes, StartSweep(p) \/ SweepDone(p)
      PROVE  JobTyped(q)'
  BY <1>2 DEF StartSweep, SweepDone
<1>3. ASSUME NEW p \in Processes, Chat(p)
      PROVE  JobTyped(q)'
  BY <1>3 DEF Chat
<1>4. ASSUME NEW p \in Processes, Request(p) \/ Superstep(p)
      PROVE  JobTyped(q)'
  BY <1>4 DEF Request, VerifyCustomer, BindCustomer, Touch, Reply, Superstep
<1>5. ASSUME NEW p \in Processes, Fail(p) \/ Crash(p)
      PROVE  JobTyped(q)'
  BY <1>5 DEF Fail, Crash
<1>6. CASE (\E s \in SessionIds : GoIdle(s)) \/ UNCHANGED vars
  BY <1>6 DEF GoIdle, vars
<1> QED
  BY <1>1, <1>2, <1>3, <1>4, <1>5, <1>6 DEF Next, Expire, Sweep

(* A process that is alone keeps its job and its sessions in order.        *)
LEMMA JobStep ==
  ASSUME Inv, TypeOK', [Next]_vars, NEW p, Processes = {p}
  PROVE  JobOK(p)'
<1> USE CustomerAssumption DEF Inv, JobOK, JobTyped, Goto, stores, job
<1>1. CASE \E s \in SessionIds : DeleteThread(p, s)
  BY <1>1 DEF DeleteThread, Expired, Known, TypeOK
<1>2. CASE \E s \in SessionIds : DeleteRow(p, s)
  <2> PICK s \in SessionIds : DeleteRow(p, s)
    BY <1>2
  <2>1. /\ session[p] = s
        /\ customer[p] = NoCustomer \/ customer[p] \in Customers
        /\ s \notin todo[p]
    BY DEF DeleteRow, TypeOK
  <2> QED
    BY <2>1 DEF DeleteRow, Expired, TypeOK
<1>3. CASE StartSweep(p)
  BY <1>3 DEF StartSweep, Expired, Known, Bound, TypeOK
<1>4. CASE \E s \in SessionIds : SweepNext(p, s)
  BY <1>4 DEF SweepNext, Expired, Known, Bound, TypeOK
<1>5. CASE SweepDone(p)
  BY <1>5 DEF SweepDone, TypeOK
<1>6. CASE Chat(p)
  BY <1>6 DEF Chat, Expired, TypeOK
<1>7. CASE VerifyCustomer(p)
  BY <1>7 DEF VerifyCustomer, Bound, Expired, TypeOK
<1>8. CASE BindCustomer(p)
  BY <1>8 DEF BindCustomer, SetRow, Bound, TypeOK
<1>9. CASE Touch(p)
  BY <1>9 DEF Touch, SetRow, Bound, TypeOK
<1>10. CASE Superstep(p)
  BY <1>10 DEF Superstep, Bound, TypeOK
<1>11. CASE Reply(p)
  BY <1>11 DEF Reply, TypeOK
<1>12. CASE Fail(p)
  BY <1>12 DEF Fail, TypeOK
<1>13. CASE Crash(p)
  BY <1>13 DEF Crash, TypeOK
<1>14. CASE \E s \in SessionIds : GoIdle(s)
  BY <1>14 DEF GoIdle, Expired, Known, Bound, TypeOK
<1>15. CASE UNCHANGED vars
  BY <1>15 DEF vars, Expired, Known, Bound
<1> QED
  BY <1>1, <1>2, <1>3, <1>4, <1>5, <1>6, <1>7, <1>8, <1>9, <1>10, <1>11,
     <1>12, <1>13, <1>14, <1>15 DEF Next, Expire, Sweep, Request

(* Only a bound customer's turn adds to a session, and a row goes after    *)
(* everything else.                                                        *)
LEMMA BindingStep ==
  ASSUME Inv, [Next]_vars, NEW p, Processes = {p}
  PROVE  NothingOutlivesTheBinding'
<1> USE CustomerAssumption
    DEF Inv, JobOK, JobTyped, Goto, stores, job,
        NothingOutlivesTheBinding, Known, Bound
<1>1. CASE \E s \in SessionIds : DeleteThread(p, s)
  BY <1>1 DEF DeleteThread, TypeOK
<1>2. CASE \E s \in SessionIds : DeleteRow(p, s)
  BY <1>2 DEF DeleteRow, TypeOK
<1>3. CASE StartSweep(p)
  BY <1>3 DEF StartSweep
<1>4. CASE \E s \in SessionIds : SweepNext(p, s)
  BY <1>4 DEF SweepNext
<1>5. CASE SweepDone(p)
  BY <1>5 DEF SweepDone
<1>6. CASE Chat(p)
  BY <1>6 DEF Chat
<1>7. CASE VerifyCustomer(p)
  BY <1>7 DEF VerifyCustomer
<1>8. CASE BindCustomer(p)
  BY <1>8 DEF BindCustomer, SetRow, TypeOK
<1>9. CASE Touch(p)
  BY <1>9 DEF Touch, SetRow, TypeOK
<1>10. CASE Superstep(p)
  BY <1>10 DEF Superstep, TypeOK
<1>11. CASE Reply(p)
  BY <1>11 DEF Reply
<1>12. CASE Fail(p)
  BY <1>12 DEF Fail
<1>13. CASE Crash(p)
  BY <1>13 DEF Crash, TypeOK
<1>14. CASE \E s \in SessionIds : GoIdle(s)
  BY <1>14 DEF GoIdle, TypeOK
<1>15. CASE UNCHANGED vars
  BY <1>15 DEF vars
<1> QED
  BY <1>1, <1>2, <1>3, <1>4, <1>5, <1>6, <1>7, <1>8, <1>9, <1>10, <1>11,
     <1>12, <1>13, <1>14, <1>15 DEF Next, Expire, Sweep, Request

-----------------------------------------------------------------------------

(* The strengthened invariant holds of a single process.                   *)
THEOREM Invariance == OneProcess => (Spec => []Inv)
<1> SUFFICES ASSUME OneProcess PROVE Spec => []Inv
  OBVIOUS
<1>1. Inv /\ [Next]_vars => Inv'
  <2> SUFFICES ASSUME Inv, [Next]_vars PROVE Inv'
    OBVIOUS
  <2>1. PICK p : Processes = {p}
    BY DEF OneProcess
  <2>2. TypeOK'
    BY TypeStep DEF Inv, JobOK, TypeInv
  <2>3. JobOK(p)'
    BY <2>1, <2>2, JobStep
  <2>4. NothingOutlivesTheBinding'
    BY <2>1, BindingStep
  <2> QED
    BY <2>1, <2>2, <2>3, <2>4 DEF Inv
<1> QED
  BY InitInv, <1>1, PTL DEF Spec

(* The variables keep their types, and only a sweep keeps a list of expired*)
(* sessions, however many processes there are.                             *)
THEOREM TypeCorrect == Spec => []TypeOK
<1>1. Init => TypeInv
  BY InitInv DEF Inv, JobOK, TypeInv
<1>2. TypeInv /\ [Next]_vars => TypeInv'
  BY TypeStep, TypedStep DEF TypeInv
<1>3. TypeInv => TypeOK
  BY DEF TypeInv
<1> QED
  BY <1>1, <1>2, <1>3, PTL DEF Spec

(* What is left of a conversation is that of the customer its session is   *)
(* bound to, and nothing is left of a session without a row, wherever an   *)
(* expiry was interrupted (graph._expire_session deletes the row last).    *)
THEOREM Isolation == OneProcess => (Spec => []NothingOutlivesTheBinding)
<1>1. Inv => NothingOutlivesTheBinding
  BY DEF Inv
<1> QED
  BY <1>1, Invariance, PTL

(* No session in use is taken apart, by the sweep or by a request.         *)
THEOREM Patience == OneProcess => (Spec => OnlyIdleSessionsExpire)
<1> SUFFICES ASSUME OneProcess PROVE Spec => OnlyIdleSessionsExpire
  OBVIOUS
<1> DEFINE Step ==
      \A s \in SessionIds :
        /\ s \in DOMAIN rows /\ s \notin DOMAIN rows' => rows[s].idle
        /\ thread[s] # {} /\ thread'[s] = {} => rows[s].idle
<1>1. Inv /\ [Next]_vars => [Step]_vars
  <2> SUFFICES ASSUME Inv, Next, NEW s \in SessionIds
               PROVE  /\ s \in DOMAIN rows /\ s \notin DOMAIN rows' =>
                           rows[s].idle
                      /\ thread[s] # {} /\ thread'[s] = {} => rows[s].idle
    OBVIOUS
  <2> USE DEF Inv, TypeOK, JobOK, JobTyped, Expired, stores, job
  <2>1. ASSUME NEW p \in Processes, NEW t \in SessionIds, DeleteThread(p, t)
        PROVE  rows' = rows /\ (thread'[s] # thread[s] => rows[s].idle)
    BY <2>1 DEF DeleteThread
  <2>2. ASSUME NEW p \in Processes, NEW t \in SessionIds, DeleteRow(p, t)
        PROVE  /\ s \in DOMAIN rows /\ s \notin DOMAIN rows' => rows[s].idle
               /\ thread' = thread
    BY <2>2 DEF DeleteRow
  <2>3. ASSUME NEW p \in Processes, Sweep(p)
        PROVE  rows' = rows /\ thread' = thread
    BY <2>3 DEF Sweep, StartSweep, SweepNext, SweepDone
  <2>4. ASSUME NEW p \in Processes,
               Chat(p) \/ VerifyCustomer(p) \/ Reply(p) \/ Fail(p) \/ Crash(p)
        PROVE  rows' = rows /\ thread' = thread
    BY <2>4 DEF Chat, VerifyCustomer, Reply, Fail, Crash
  <2>5. ASSUME NEW p \in Processes, BindCustomer(p) \/ Touch(p)
        PROVE  DOMAIN rows \subseteq DOMAIN rows' /\ thread' = thread
    BY <2>5 DEF BindCustomer, Touch, SetRow
  <2>6. ASSUME NEW p \in Processes, Superstep(p)
        PROVE  rows' = rows /\ thread[s] \subseteq thread'[s]
    BY <2>6 DEF Superstep
  <2>7. ASSUME NEW t \in SessionIds, GoIdle(t)
        PROVE  DOMAIN rows' = DOMAIN rows /\ thread' = thread
    BY <2>7 DEF GoIdle
  <2> QED
    BY <2>1, <2>2, <2>3, <2>4, <2>5, <2>6, <2>7 DEF Next, Expire, Request
<1> QED
  BY <1>1, Invariance, PTL DEF Spec, OnlyIdleSessionsExpire
=============================================================================
