----------------------------- MODULE ToolCalls ------------------------------
(***************************************************************************)
(* One conversation's create_* tool calls: the supervisor graph asks the   *)
(* model what to do, runs the tool calls of its answer side by side, and   *)
(* asks again.  The model may ask for a call it has made before, because   *)
(* the supervisor delegates a finished request once more; idempotent       *)
(* (tool_utils.py) is there to stop it.                                    *)
(*                                                                         *)
(* Which calls the model makes is free.  Identical calls, the same tool    *)
(* with the same arguments, are one key.                                   *)
(***************************************************************************)
EXTENDS Naturals

CONSTANTS
  Keys,      (* the distinct create calls the model may make               *)
  Threads,   (* the calls one message may hold, each run in its thread     *)
  NoKey,     (* no call                                                    *)
  MaxRows    (* bounds how often one key is committed                      *)

ASSUME KeyAssumption == NoKey \notin Keys /\ MaxRows \in Nat

Attempts == 3

VARIABLES
  turn,      (* "waiting" for the customer, in the "model", in the "tools" *)
  attempt,   (* which attempt of _invoke is running                        *)
  key,       (* the call of each thread                                    *)
  pc,        (* where that call is                                         *)
  completed, (* _completed_calls[thread_id]                                *)
  rows,      (* history: the rows committed for each key in this           *)
             (* conversation                                               *)
  unrecorded,(* history: the keys of commits of which the process no       *)
             (* longer knows                                               *)
  doubled    (* history: the keys one message held more than once          *)

vars == <<turn, attempt, key, pc, completed, rows, unrecorded, doubled>>

NoCalls ==
  /\ key' = [t \in Threads |-> NoKey]
  /\ pc' = [t \in Threads |-> "done"]

Init ==
  /\ turn = "waiting"
  /\ attempt = 1
  /\ key = [t \in Threads |-> NoKey]
  /\ pc = [t \in Threads |-> "done"]
  /\ completed = {}
  /\ rows = [k \in Keys |-> 0]
  /\ unrecorded = {}
  /\ doubled = {}

Goto(t, stage) == pc' = [pc EXCEPT ![t] = stage]

-----------------------------------------------------------------------------
(* The turn                                                                *)

Message ==
  /\ turn = "waiting"
  /\ turn' = "model"
  /\ attempt' = 1
  /\ UNCHANGED <<key, pc, completed, rows, unrecorded, doubled>>

ModelReplies ==
  /\ turn = "model"
  /\ turn' = "waiting"
  /\ UNCHANGED <<attempt, key, pc, completed, rows, unrecorded, doubled>>

ModelCalls ==
  /\ turn = "model"
  /\ turn' = "tools"
  /\ key' \in [Threads -> Keys \cup {NoKey}]
  /\ pc' = [t \in Threads |-> IF key'[t] = NoKey THEN "done" ELSE "check"]
  /\ doubled' = doubled \cup
       {k \in Keys : \E t, u \in Threads : t # u /\ key'[t] = k /\ key'[u] = k}
  /\ UNCHANGED <<attempt, completed, rows, unrecorded>>

(* A rejected or timed out answer is asked for again, from the checkpoint: *)
(* the calls before it are not repeated.  The attempts are those of the    *)
(* whole request.                                                          *)
ModelFails ==
  /\ turn = "model"
  /\ \/ attempt < Attempts /\ attempt' = attempt + 1 /\ UNCHANGED turn
     \/ attempt = Attempts /\ turn' = "waiting" /\ UNCHANGED attempt
  /\ UNCHANGED <<key, pc, completed, rows, unrecorded, doubled>>

(* Mutant: the calls of a finished superstep are not put away.             *)
ToolsNeverCleared ==
  /\ turn = "tools"
  /\ \A t \in Threads : pc[t] \in {"done", "raised"}
  /\ turn' = IF \E t \in Threads : pc[t] = "raised" THEN "waiting" ELSE "model"
  /\ UNCHANGED <<attempt, key, pc, completed, rows, unrecorded, doubled>>

(* The next superstep waits for all the calls of this one; an exception    *)
(* that is none of the domain's ends the request.                          *)
ToolsDone ==
  /\ turn = "tools"
  /\ \A t \in Threads : pc[t] \in {"done", "raised"}
  /\ turn' = IF \E t \in Threads : pc[t] = "raised" THEN "waiting" ELSE "model"
  /\ NoCalls
  /\ UNCHANGED <<attempt, completed, rows, unrecorded, doubled>>

-----------------------------------------------------------------------------
(* A tool call: idempotent(tool_safe(server function))                     *)

(* Mutant: the call is recorded before it has run.                         *)
CheckAndRecord(t) ==
  /\ pc[t] = "check"
  /\ Goto(t, IF key[t] \in completed THEN "done" ELSE "run")
  /\ completed' = completed \cup {key[t]}
  /\ UNCHANGED <<turn, attempt, key, rows, unrecorded, doubled>>

Check(t) ==
  /\ pc[t] = "check"
  /\ Goto(t, IF key[t] \in completed THEN "done" ELSE "run")
  /\ UNCHANGED <<turn, attempt, key, completed, rows, unrecorded, doubled>>

CommitRow(t) == rows' = [rows EXCEPT ![key[t]] = @ + 1]

(* The server function commits its row and returns.                        *)
RunCommits(t) ==
  /\ pc[t] = "run"
  /\ rows[key[t]] < MaxRows
  /\ CommitRow(t)
  /\ Goto(t, "record")
  /\ UNCHANGED <<turn, attempt, key, completed, unrecorded, doubled>>

(* It refuses the call: the exception becomes a message to the model.      *)
RunRefuses(t) ==
  /\ pc[t] = "run"
  /\ Goto(t, "done")
  /\ UNCHANGED <<turn, attempt, key, completed, rows, unrecorded, doubled>>

(* A statement raises something else: before the commit, or after it, when *)
(* the connection is lost or the committed row cannot be read back.        *)
RunRaises(t) ==
  /\ pc[t] = "run"
  /\ \/ UNCHANGED <<rows, unrecorded>>
     \/ /\ rows[key[t]] < MaxRows
        /\ CommitRow(t)
        /\ unrecorded' = unrecorded \cup {key[t]}
  /\ Goto(t, "raised")
  /\ UNCHANGED <<turn, attempt, key, completed, doubled>>

(* Mutant: the call is not recorded.                                       *)
RecordNothing(t) ==
  /\ pc[t] = "record"
  /\ Goto(t, "done")
  /\ UNCHANGED <<turn, attempt, key, completed, rows, unrecorded, doubled>>

Record(t) ==
  /\ pc[t] = "record"
  /\ completed' = completed \cup {key[t]}
  /\ Goto(t, "done")
  /\ UNCHANGED <<turn, attempt, key, rows, unrecorded, doubled>>

-----------------------------------------------------------------------------

(* The process dies and is restarted; the rows and the checkpoints stay.   *)
Crash ==
  /\ turn' = "waiting"
  /\ NoCalls
  /\ unrecorded' = unrecorded \cup completed
                     \cup {key[t] : t \in {u \in Threads : pc[u] = "record"}}
  /\ completed' = {}
  /\ UNCHANGED <<attempt, rows, doubled>>

(* The idle session is expired: a new conversation under the same id.      *)
ExpireSession ==
  /\ turn = "waiting"
  /\ completed' = {}
  /\ rows' = [k \in Keys |-> 0]
  /\ unrecorded' = {}
  /\ doubled' = {}
  /\ UNCHANGED <<turn, attempt, key, pc>>

Call(t) ==
  \/ Check(t)
  \/ RunCommits(t) \/ RunRefuses(t) \/ RunRaises(t)
  \/ Record(t)

Next ==
  \/ Message \/ ModelReplies \/ ModelCalls \/ ModelFails \/ ToolsDone
  \/ \E t \in Threads : Call(t)
  \/ Crash
  \/ ExpireSession

Spec == Init /\ [][Next]_vars

-----------------------------------------------------------------------------
(* Properties                                                              *)

(* The variables have their types, and calls run only in their superstep.  *)
TypeOK ==
  /\ turn \in {"waiting", "model", "tools"}
  /\ attempt \in 1 .. Attempts
  /\ key \in [Threads -> Keys \cup {NoKey}]
  /\ pc \in [Threads -> {"check", "run", "record", "done", "raised"}]
  /\ completed \subseteq Keys
  /\ rows \in [Keys -> 0 .. MaxRows]
  /\ unrecorded \subseteq Keys
  /\ doubled \subseteq Keys
  /\ \A t \in Threads : pc[t] # "done" => turn = "tools" /\ key[t] \in Keys

(* A call is refused as "already completed earlier in this conversation"   *)
(* (tool_utils.py:80-86) only if it was: one that failed can be made again.*)
RefusedOnlyIfDone == \A k \in completed : rows[k] > 0

(* A call that the model makes again in a later message, as it does when   *)
(* the supervisor delegates the same work twice (tool_utils.py:48-55), is  *)
(* not done again, whatever else the messages hold, unless the process     *)
(* died or the call raised after its commit, so that nobody recorded it.   *)
NotDoneAgain == \A k \in Keys : rows[k] > 1 => k \in unrecorded \cup doubled

(* A duplicate call is "a no-op instead of a second real deposit/          *)
(* withdrawal/row, regardless of why the LLM issued it twice"              *)
(* (tool_utils.py:56-58).                                                  *)
AtMostOnce == \A k \in Keys : rows[k] > 1 => k \in unrecorded
=============================================================================
