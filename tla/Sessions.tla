------------------------------ MODULE Sessions ------------------------------
(***************************************************************************)
(* The chat sessions of the backend: whose conversation a session id names,*)
(* and how an idle one is taken apart.  A conversation lives in three      *)
(* places, which no transaction spans: the checkpoints of its LangGraph    *)
(* thread, two maps in the memory of a backend process, and the sessions   *)
(* row, which alone says which customer it belongs to and when it was last *)
(* used.                                                                   *)
(*                                                                         *)
(* A process does one thing at a time: /chat and the sweep run to their    *)
(* end on its event loop without yielding.  Other processes, failing       *)
(* statements and crashes may come between any two of its steps.           *)
(***************************************************************************)
EXTENDS FiniteSets

CONSTANTS
  Processes,    (* backend processes                                       *)
  Customers,    (* customer ids                                            *)
  SessionIds,   (* session ids, chosen by the clients                      *)
  NoCustomer    (* no customer: an unbound row, or the sweep's job         *)

ASSUME CustomerAssumption == NoCustomer \notin Customers

VARIABLES
  rows,      (* the sessions table: who is bound, and whether updated_at   *)
             (* is further back than SESSION_IDLE_TIMEOUT                  *)
  thread,    (* the customers whose messages a thread's checkpoints hold   *)
  memory,    (* the customers whose calls and names a process's            *)
             (* _completed_calls and _token_maps hold for a session        *)
  pc,        (* what a process does next, "idle" between two jobs          *)
  session,   (* the session it is working on                               *)
  customer,  (* the customer it works for, NoCustomer during a sweep       *)
  todo       (* the expired sessions its sweep has still to clean up       *)

stores == <<rows, thread, memory>>
job == <<pc, session, customer, todo>>
vars == <<stores, job>>

PCs == {"idle", "sweep", "delete_thread", "delete_row",
        "verify", "bind", "touch", "turn"}

Init ==
  /\ rows = << >>
  /\ thread = [s \in SessionIds |-> {}]
  /\ memory = [p \in Processes |-> [s \in SessionIds |-> {}]]
  /\ pc = [p \in Processes |-> "idle"]
  /\ session \in [Processes -> SessionIds]
  /\ customer = [p \in Processes |-> NoCustomer]
  /\ todo = [p \in Processes |-> {}]

Goto(p, stage) == pc' = [pc EXCEPT ![p] = stage]

Expired(s) == s \in DOMAIN rows /\ rows[s].idle

Bound(s) == IF s \in DOMAIN rows THEN rows[s].customer ELSE NoCustomer

SetRow(s, c) ==
  rows' = [t \in DOMAIN rows \cup {s} |->
             IF t = s THEN [customer |-> c, idle |-> FALSE] ELSE rows[t]]

-----------------------------------------------------------------------------
(* Taking a session apart.  The row goes last.                             *)

(* Mutant: the maps drift out of sync with the thread.                     *)
DeleteThreadOnly(p, s) ==
  /\ pc[p] = "delete_thread"
  /\ session[p] = s
  /\ thread' = [thread EXCEPT ![s] = {}]
  /\ Goto(p, "delete_row")
  /\ UNCHANGED <<rows, memory, session, customer, todo>>

(* The two maps belong to the process that expires the session: nobody     *)
(* else sees them between the deletion of the thread and their own.        *)
DeleteThread(p, s) ==
  /\ pc[p] = "delete_thread"
  /\ session[p] = s
  /\ thread' = [thread EXCEPT ![s] = {}]
  /\ memory' = [memory EXCEPT ![p][s] = {}]
  /\ Goto(p, "delete_row")
  /\ UNCHANGED <<rows, session, customer, todo>>

DeleteRow(p, s) ==
  /\ pc[p] = "delete_row"
  /\ session[p] = s
  /\ rows' = [t \in DOMAIN rows \ {s} |-> rows[t]]
  /\ Goto(p, IF customer[p] = NoCustomer THEN "sweep" ELSE "verify")
  /\ UNCHANGED <<thread, memory, session, customer, todo>>

-----------------------------------------------------------------------------
(* The sweep                                                               *)

(* Mutants: the cutoff is lost; nobody sweeps.                             *)
SweepEverything(p) ==
  /\ pc[p] = "idle"
  /\ todo' = [todo EXCEPT ![p] = DOMAIN rows]
  /\ customer' = [customer EXCEPT ![p] = NoCustomer]
  /\ Goto(p, "sweep")
  /\ UNCHANGED <<stores, session>>

NoSweep(p) == FALSE

(* One query lists the expired sessions; they are not looked at again.     *)
StartSweep(p) ==
  /\ pc[p] = "idle"
  /\ todo' = [todo EXCEPT ![p] = {s \in SessionIds : Expired(s)}]
  /\ customer' = [customer EXCEPT ![p] = NoCustomer]
  /\ Goto(p, "sweep")
  /\ UNCHANGED <<stores, session>>

SweepNext(p, s) ==
  /\ pc[p] = "sweep"
  /\ s \in todo[p]
  /\ session' = [session EXCEPT ![p] = s]
  /\ todo' = [todo EXCEPT ![p] = @ \ {s}]
  /\ Goto(p, "delete_thread")
  /\ UNCHANGED <<stores, customer>>

SweepDone(p) ==
  /\ pc[p] = "sweep"
  /\ todo[p] = {}
  /\ Goto(p, "idle")
  /\ UNCHANGED <<stores, session, customer, todo>>

-----------------------------------------------------------------------------
(* A /chat request                                                         *)

(* Whoever asks, an idle session is expired before anything else.          *)
Chat(p) ==
  /\ pc[p] = "idle"
  /\ \E s \in SessionIds, c \in Customers :
       /\ session' = [session EXCEPT ![p] = s]
       /\ customer' = [customer EXCEPT ![p] = c]
       /\ Goto(p, IF Expired(s) THEN "delete_thread" ELSE "verify")
  /\ UNCHANGED <<stores, todo>>

(* The binding is read here; a session of someone else's is refused.       *)
VerifyCustomer(p) ==
  LET bound == Bound(session[p]) IN
  /\ pc[p] = "verify"
  /\ Goto(p, CASE bound = NoCustomer  -> "bind"
               [] bound = customer[p] -> "touch"
               [] OTHER               -> "idle")
  /\ UNCHANGED <<stores, session, customer, todo>>

(* The row is read once more, but the customer in it is overwritten.       *)
BindCustomer(p) ==
  /\ pc[p] = "bind"
  /\ SetRow(session[p], customer[p])
  /\ Goto(p, "touch")
  /\ UNCHANGED <<thread, memory, session, customer, todo>>

(* A row that has gone is created anew, bound to nobody.                   *)
Touch(p) ==
  /\ pc[p] = "touch"
  /\ SetRow(session[p], Bound(session[p]))
  /\ Goto(p, "turn")
  /\ UNCHANGED <<thread, memory, session, customer, todo>>

(* The graph checkpoints after every superstep, and the tools it runs fill *)
(* the two maps.                                                           *)
Superstep(p) ==
  LET s == session[p] IN
  /\ pc[p] = "turn"
  /\ thread' = [thread EXCEPT ![s] = @ \cup {customer[p]}]
  /\ \/ memory' = [memory EXCEPT ![p][s] = @ \cup {customer[p]}]
     \/ UNCHANGED memory
  /\ UNCHANGED <<rows, job>>

Reply(p) ==
  /\ pc[p] = "turn"
  /\ Goto(p, "idle")
  /\ UNCHANGED <<stores, session, customer, todo>>

-----------------------------------------------------------------------------

(* Mutant: the list of a failed sweep is kept.                             *)
FailKeepingList(p) ==
  /\ pc[p] \notin {"idle", "sweep"}
  /\ Goto(p, "idle")
  /\ UNCHANGED <<stores, session, customer, todo>>

(* A statement fails: the request ends in an error, the sweep is logged    *)
(* and left until the next one.                                            *)
Fail(p) ==
  /\ pc[p] \notin {"idle", "sweep"}
  /\ Goto(p, "idle")
  /\ todo' = [todo EXCEPT ![p] = {}]
  /\ UNCHANGED <<stores, session, customer>>

(* The process dies and is restarted with empty maps.                      *)
Crash(p) ==
  /\ Goto(p, "idle")
  /\ memory' = [memory EXCEPT ![p] = [s \in SessionIds |-> {}]]
  /\ todo' = [todo EXCEPT ![p] = {}]
  /\ UNCHANGED <<rows, thread, session, customer>>

(* Ten minutes pass since the row was last written.                        *)
GoIdle(s) ==
  /\ s \in DOMAIN rows
  /\ rows' = [rows EXCEPT ![s].idle = TRUE]
  /\ UNCHANGED <<thread, memory, job>>

Expire(p) == \E s \in SessionIds : DeleteThread(p, s) \/ DeleteRow(p, s)

Sweep(p) ==
  StartSweep(p) \/ (\E s \in SessionIds : SweepNext(p, s)) \/ SweepDone(p)

Request(p) == VerifyCustomer(p) \/ BindCustomer(p) \/ Touch(p) \/ Reply(p)

Next ==
  \/ \E p \in Processes :
       \/ Chat(p) \/ Request(p) \/ Superstep(p)
       \/ Expire(p) \/ Sweep(p)
       \/ Fail(p) \/ Crash(p)
  \/ \E s \in SessionIds : GoIdle(s)

Spec == Init /\ [][Next]_vars

(* A request that is running ends.  The sweep's timer goes on ticking      *)
(* between requests, and no statement fails, and no crash hits, at the     *)
(* same place for ever.                                                    *)
Fairness ==
  \A p \in Processes :
    /\ WF_vars(Request(p))
    /\ WF_vars(SweepDone(p))
    /\ SF_vars(StartSweep(p))
    /\ \A s \in SessionIds :
         /\ SF_vars(SweepNext(p, s))
         /\ SF_vars(DeleteThread(p, s))
         /\ SF_vars(DeleteRow(p, s))

FairSpec == Spec /\ Fairness

-----------------------------------------------------------------------------
(* Properties                                                              *)

(* Rows, maps and jobs have their types, and a list of expired sessions is *)
(* kept only by a sweep.                                                   *)
TypeOK ==
  /\ DOMAIN rows \subseteq SessionIds
  /\ \A s \in DOMAIN rows :
       rows[s] \in [customer : Customers \cup {NoCustomer}, idle : BOOLEAN]
  /\ thread \in [SessionIds -> SUBSET Customers]
  /\ memory \in [Processes -> [SessionIds -> SUBSET Customers]]
  /\ pc \in [Processes -> PCs]
  /\ session \in [Processes -> SessionIds]
  /\ customer \in [Processes -> Customers \cup {NoCustomer}]
  /\ todo \in [Processes -> SUBSET SessionIds]
  /\ \A p \in Processes : todo[p] # {} => customer[p] = NoCustomer

(* The customers a session still knows anything about.                     *)
Known(s) == thread[s] \cup UNION {memory[p][s] : p \in Processes}

(* Whatever is left of a conversation, wherever expiry was interrupted, is *)
(* that of the customer its row is bound to; without a row nothing is left *)
(* ("so none of them drift out of sync", graph.py:157-162).                *)
NothingOutlivesTheBinding == \A s \in SessionIds : Known(s) \subseteq {Bound(s)}

(* Only a session that has been idle for the whole timeout is taken apart. *)
(* (test_session_sweep.py: test_sweep_removes_only_expired_sessions).      *)
OnlyIdleSessionsExpire ==
  [][\A s \in SessionIds :
       /\ s \in DOMAIN rows /\ s \notin DOMAIN rows' => rows[s].idle
       /\ thread[s] # {} /\ thread'[s] = {} => rows[s].idle]_vars

(* A session nobody uses any more is cleaned up, although requests come    *)
(* first, statements fail and the process crashes                          *)
(* (sweep_expired_sessions).                                               *)
AbandonedSessionsGo ==
  \A s \in SessionIds : Expired(s) ~> ~Expired(s)
=============================================================================
