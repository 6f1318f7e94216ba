--------------------------- MODULE ToolCallsProofs --------------------------
(***************************************************************************)
(* What idempotent (tool_utils.py) keeps true of a conversation, for any   *)
(* set of calls and any number of threads: it refuses only what was done,  *)
(* and lets nothing be done again in a later message.                      *)
(***************************************************************************)
EXTENDS ToolCalls, TLAPS

(* A call that is about to be recorded has its row.                        *)
Inv ==
  /\ TypeOK
  /\ RefusedOnlyIfDone
  /\ \A t \in Threads : pc[t] = "record" => rows[key[t]] > 0

(* Every step keeps the invariant.                                         *)
LEMMA InvStep == Inv /\ [Next]_vars => Inv'
<1> USE KeyAssumption DEF Attempts
<1> SUFFICES ASSUME Inv, [Next]_vars PROVE Inv'
  OBVIOUS
<1> USE DEF Inv, TypeOK, RefusedOnlyIfDone, Goto, NoCalls
<1>1. CASE Message
  BY <1>1 DEF Message
<1>2. CASE ModelReplies
  BY <1>2 DEF ModelReplies
<1>3. CASE ModelCalls
  BY <1>3 DEF ModelCalls
<1>4. CASE ModelFails
  BY <1>4 DEF ModelFails
<1>5. CASE ToolsDone
  BY <1>5 DEF ToolsDone
<1>6. ASSUME NEW t \in Threads, Check(t)
      PROVE  Inv'
  BY <1>6 DEF Check
<1>7. ASSUME NEW t \in Threads, RunCommits(t)
      PROVE  Inv'
  BY <1>7 DEF RunCommits, CommitRow
<1>8. ASSUME NEW t \in Threads, RunRefuses(t)
      PROVE  Inv'
  BY <1>8 DEF RunRefuses
<1>9. ASSUME NEW t \in Threads, RunRaises(t)
      PROVE  Inv'
  BY <1>9 DEF RunRaises, CommitRow
<1>10. ASSUME NEW t \in Threads, Record(t)
       PROVE  Inv'
  BY <1>10 DEF Record
<1>11. CASE Crash
  BY <1>11 DEF Crash
<1>12. CASE ExpireSession
  BY <1>12 DEF ExpireSession
<1>13. CASE UNCHANGED vars
  BY <1>13 DEF vars
<1> QED
  BY <1>1, <1>2, <1>3, <1>4, <1>5, <1>6, <1>7, <1>8, <1>9, <1>10, <1>11,
     <1>12, <1>13 DEF Next, Call

(* The strengthened invariant holds with any number of threads.            *)
THEOREM Invariance == Spec => []Inv
<1>1. Init => Inv
  BY KeyAssumption DEF Init, Inv, TypeOK, RefusedOnlyIfDone, Attempts
<1> QED
  BY <1>1, InvStep, PTL DEF Spec

(* The variables keep their types.                                         *)
THEOREM TypeCorrect == Spec => []TypeOK
<1>1. Inv => TypeOK
  BY DEF Inv
<1> QED
  BY <1>1, Invariance, PTL

(* Whatever failed may be asked for again: a call is refused as already    *)
(* completed only if its row was committed in this conversation.           *)
THEOREM NothingLost == Spec => []RefusedOnlyIfDone
<1>1. Inv => RefusedOnlyIfDone
  BY DEF Inv
<1> QED
  BY <1>1, Invariance, PTL

-----------------------------------------------------------------------------
(* Calls made again                                                        *)

(* Two threads work at one key only if their message held it twice.        *)
HoldersApart ==
  \A t, u \in Threads :
    t # u /\ key[t] = key[u] /\ pc[t] # "done" /\ pc[u] # "done"
      => key[t] \in doubled

(* A call that has passed its check is not yet recorded.                   *)
RunningUnrecorded ==
  \A t \in Threads : pc[t] \in {"run", "record"} /\ key[t] \notin doubled
                      => key[t] \notin completed

(* Every row of a key but the one its running call has just committed is   *)
(* accounted for.                                                          *)
RowAccounted(k) ==
  \/ k \in unrecorded \cup doubled
  \/ k \in completed /\ rows[k] = 1
  \/ rows[k] = 1 /\ \E t \in Threads : pc[t] = "record" /\ key[t] = k
  \/ rows[k] = 0 /\ \A t \in Threads : key[t] = k => pc[t] # "record"

Accounted ==
  /\ HoldersApart
  /\ RunningUnrecorded
  /\ \A k \in Keys : RowAccounted(k)

(* No call of an undoubled key runs while another of it is between its     *)
(* commit and its record.                                                  *)
LEMMA AccountedStep == Inv /\ Accounted /\ [Next]_vars => Accounted'
<1> USE KeyAssumption
<1> SUFFICES ASSUME Inv, Accounted, [Next]_vars PROVE Accounted'
  OBVIOUS
<1> USE DEF Inv, TypeOK, Accounted, HoldersApart, RunningUnrecorded,
            RowAccounted, Goto, NoCalls
<1>1. CASE Message
  BY <1>1 DEF Message
<1>2. CASE ModelReplies
  BY <1>2 DEF ModelReplies
<1>3. CASE ModelCalls
  BY <1>3 DEF ModelCalls
<1>4. CASE ModelFails
  BY <1>4 DEF ModelFails
<1>5. CASE ToolsDone
  BY <1>5 DEF ToolsDone
<1>6. ASSUME NEW t \in Threads, Check(t)
      PROVE  Accounted'
  BY <1>6 DEF Check
<1>7. ASSUME NEW t \in Threads, RunCommits(t)
      PROVE  Accounted'
  BY <1>7 DEF RunCommits, CommitRow
<1>8. ASSUME NEW t \in Threads, RunRefuses(t)
      PROVE  Accounted'
  BY <1>8 DEF RunRefuses
<1>9. ASSUME NEW t \in Threads, RunRaises(t)
      PROVE  Accounted'
  BY <1>9 DEF RunRaises, CommitRow
<1>10. ASSUME NEW t \in Threads, Record(t)
       PROVE  Accounted'
  BY <1>10 DEF Record
<1>11. CASE Crash
  BY <1>11 DEF Crash
<1>12. CASE ExpireSession
  BY <1>12 DEF ExpireSession
<1>13. CASE UNCHANGED vars
  BY <1>13 DEF vars
<1> QED
  BY <1>1, <1>2, <1>3, <1>4, <1>5, <1>6, <1>7, <1>8, <1>9, <1>10, <1>11,
     <1>12, <1>13 DEF Next, Call

(* Whatever the model asks for again in a later message is not done again, *)
(* unless the process died or the call raised after its commit.            *)
THEOREM NotRepeated == Spec => []NotDoneAgain
<1>1. Init => Accounted
  BY KeyAssumption
     DEF Init, Accounted, HoldersApart, RunningUnrecorded, RowAccounted
<1>2. Inv /\ Accounted => NotDoneAgain
  BY DEF Inv, Accounted, RowAccounted, NotDoneAgain, TypeOK
<1> QED
  BY <1>1, <1>2, AccountedStep, Invariance, PTL DEF Spec
=============================================================================
