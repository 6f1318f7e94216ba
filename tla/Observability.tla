---------------------------- MODULE Observability ---------------------------
(***************************************************************************)
(* The usage log (observability.py) and its report                         *)
(* (observability_router.py).  A callback handler notes each call of the   *)
(* model or of a tool when it starts, in a dictionary, and writes a row    *)
(* when it ends.  Calls nest and run in threads, so several are pending at *)
(* a time.  The report asks the table twice, and another process may log   *)
(* in between.                                                             *)
(***************************************************************************)
EXTENDS Naturals, FiniteSets, Functions

CONSTANTS
  Runs,       (* calls of the model and of tools: LangChain's run_id       *)
  Customers,
  Nobody,     (* no customer                                               *)
  Days,       (* how many days the log spans                               *)
  TokenCounts (* tokens the model may report, 0 for none reported          *)

ASSUME UsageAssumption ==
  /\ Nobody \notin Customers
  /\ Days \in Nat \ {0}
  /\ TokenCounts \subseteq Nat
  /\ 0 \in TokenCounts

Types == {"llm_call", "tool_call"}

VARIABLES
  pc,         (* where a run is                                            *)
  type,       (* whether it is the model or a tool                         *)
  customer,   (* in the metadata of its request                            *)
  pending,    (* _pending: the customer noted when a run started           *)
  context,    (* the customer a finished run has taken from there          *)
  log,        (* table agent_event_log                                     *)
  today,
  report,     (* how far the report is: "none", "totals", "complete"       *)
  totals,     (* its totals,                                               *)
  by_day,     (* and its days                                              *)
  late        (* history: the rows committed between its two queries       *)

runs == <<pc, type, customer, pending, context>>
reporting == <<report, totals, by_day>>
vars == <<runs, log, today, reporting, late>>

Events == [run : Runs, type : Types, customer : Customers \cup {Nobody},
           total_tokens : TokenCounts, success : BOOLEAN, day : 1 .. Days]

OfType(rows, t) == {e \in rows : e.type = t}
Sum(rows) == SumFunction([e \in rows |-> e.total_tokens])

(* The first query fetches the rows, and Python adds them up.              *)
UsageTotals(rows) ==
  [total_events  |-> Cardinality(rows),
   llm_calls     |-> Cardinality(OfType(rows, "llm_call")),
   tool_calls    |-> Cardinality(OfType(rows, "tool_call")),
   total_tokens  |-> Sum(rows),
   failed_events |-> Cardinality({e \in rows : ~e.success})]

(* The second groups them by day and type; a group without rows adds       *)
(* nothing to its day, and only the model's groups add tokens.             *)
DailyUsage(rows) ==
  LET of(d) == {e \in rows : e.day = d} IN
  [d \in {e.day : e \in rows} |->
    [llm_calls    |-> Cardinality(OfType(of(d), "llm_call")),
     tool_calls   |-> Cardinality(OfType(of(d), "tool_call")),
     total_tokens |-> Sum(OfType(of(d), "llm_call"))]]

NoTotals == UsageTotals({})
NoDays == DailyUsage({})

Init ==
  /\ pc = [r \in Runs |-> "new"]
  /\ type \in [Runs -> Types]
  /\ customer \in [Runs -> Customers]
  /\ pending = << >>
  /\ context = [r \in Runs |-> Nobody]
  /\ log = {}
  /\ today = 1
  /\ report = "none" /\ totals = NoTotals /\ by_day = NoDays
  /\ late = {}

Goto(r, stage) == pc' = [pc EXCEPT ![r] = stage]

-----------------------------------------------------------------------------
(* The callbacks                                                           *)

(* Mutant: the metadata is not looked at.                                  *)
StartWithoutMetadata(r) ==
  /\ pc[r] = "new"
  /\ pending' = [q \in DOMAIN pending \cup {r} |->
                   IF q = r THEN Nobody ELSE pending[q]]
  /\ Goto(r, "running")
  /\ UNCHANGED <<type, customer, context, log, today, reporting, late>>

(* on_chat_model_start, on_llm_start, on_tool_start.                       *)
Start(r) ==
  /\ pc[r] = "new"
  /\ pending' = [q \in DOMAIN pending \cup {r} |->
                   IF q = r THEN customer[r] ELSE pending[q]]
  /\ Goto(r, "running")
  /\ UNCHANGED <<type, customer, context, log, today, reporting, late>>

(* Mutant: the note is read but stays in the dictionary.                   *)
FinishKeeping(r) ==
  /\ pc[r] = "running"
  /\ context' = [context EXCEPT ![r] = pending[r]]
  /\ Goto(r, "ended")
  /\ UNCHANGED <<type, customer, pending, log, today, reporting, late>>

(* Mutant: the customer is kept in one attribute of the handler.           *)
FinishAny(r) ==
  /\ pc[r] = "running"
  /\ \E q \in DOMAIN pending : context' = [context EXCEPT ![r] = pending[q]]
  /\ pending' = [q \in DOMAIN pending \ {r} |-> pending[q]]
  /\ Goto(r, "ended")
  /\ UNCHANGED <<type, customer, log, today, reporting, late>>

(* A run without a note is logged for nobody.                              *)
NoteOf(r) == IF r \in DOMAIN pending THEN pending[r] ELSE Nobody

(* _finish: the end or the error of a run takes its note out.              *)
Finish(r) ==
  /\ pc[r] = "running"
  /\ context' = [context EXCEPT ![r] = NoteOf(r)]
  /\ pending' = [q \in DOMAIN pending \ {r} |-> pending[q]]
  /\ Goto(r, "ended")
  /\ UNCHANGED <<type, customer, log, today, reporting, late>>

(* What is written of it: tokens only if the model answered, and then only *)
(* if it reported them.                                                    *)
Row(r, tokens, success) ==
  [run |-> r, type |-> type[r], customer |-> context[r],
   total_tokens |-> tokens, success |-> success, day |-> today]

(* Mutant: the tokens of a tool's answer are counted too.                  *)
RecordToolTokens(r) ==
  /\ pc[r] = "ended"
  /\ \E tokens \in TokenCounts, success \in BOOLEAN :
       /\ log' = log \cup {Row(r, tokens, success)}
       /\ late' = IF report = "totals" THEN late \cup {Row(r, tokens, success)}
                                       ELSE late
  /\ Goto(r, "over")
  /\ UNCHANGED <<type, customer, pending, context, today, reporting>>

Record(r) ==
  /\ pc[r] = "ended"
  /\ \E tokens \in TokenCounts, success \in BOOLEAN :
       /\ tokens # 0 => type[r] = "llm_call" /\ success
       /\ log' = log \cup {Row(r, tokens, success)}
       /\ late' = IF report = "totals" THEN late \cup {Row(r, tokens, success)}
                                       ELSE late
  /\ Goto(r, "over")
  /\ UNCHANGED <<type, customer, pending, context, today, reporting>>

(* "A logging failure must never break a real chat request": it is only    *)
(* logged.                                                                 *)
RecordFails(r) ==
  /\ pc[r] = "ended"
  /\ Goto(r, "over")
  /\ UNCHANGED <<type, customer, pending, context, log, today, reporting, late>>

(* A process dies: what was pending in it is never written.  One variable  *)
(* stands for the dictionaries of all processes; gone are the runs of the  *)
(* one that died.                                                          *)
Crash(gone) ==
  /\ pc' = [r \in Runs |-> IF r \in gone /\ pc[r] # "new" THEN "over" ELSE pc[r]]
  /\ pending' = [q \in DOMAIN pending \ gone |-> pending[q]]
  /\ UNCHANGED <<type, customer, context, log, today, reporting, late>>

-----------------------------------------------------------------------------
(* GET /observability/usage                                                *)

ReadTotals ==
  /\ report = "none"
  /\ totals' = UsageTotals(log)
  /\ report' = "totals"
  /\ late' = {}
  /\ UNCHANGED <<runs, log, today, by_day>>

ReadDays ==
  /\ report = "totals"
  /\ by_day' = DailyUsage(log)
  /\ report' = "complete"
  /\ UNCHANGED <<runs, log, today, totals, late>>

(* The answer is sent, or a query fails.                                   *)
ReportEnds ==
  /\ report # "none"
  /\ report' = "none" /\ totals' = NoTotals /\ by_day' = NoDays
  /\ late' = {}
  /\ UNCHANGED <<runs, log, today>>

Midnight ==
  /\ today < Days
  /\ today' = today + 1
  /\ UNCHANGED <<runs, log, reporting, late>>

Callback(r) == Start(r) \/ Finish(r) \/ Record(r) \/ RecordFails(r)

Next ==
  \/ \E r \in Runs : Callback(r)
  \/ \E gone \in SUBSET Runs : Crash(gone)
  \/ ReadTotals \/ ReadDays \/ ReportEnds
  \/ Midnight

Spec == Init /\ [][Next]_vars

-----------------------------------------------------------------------------
(* Properties                                                              *)

(* The variables have their types.                                         *)
TypeOK ==
  /\ pc \in [Runs -> {"new", "running", "ended", "over"}]
  /\ type \in [Runs -> Types]
  /\ customer \in [Runs -> Customers]
  /\ DOMAIN pending \subseteq Runs
  /\ \A r \in DOMAIN pending : pending[r] \in Customers
  /\ context \in [Runs -> Customers \cup {Nobody}]
  /\ log \subseteq Events
  /\ today \in 1 .. Days
  /\ report \in {"none", "totals", "complete"}
  /\ late \subseteq log

(* "one AgentEventLog row per LLM call and per tool call"                  *)
(* (observability.py:2): at most one, under the customer whose request     *)
(* started it, however calls nest and overlap.                             *)
LoggedForItsCustomer ==
  /\ \A e \in log : e.type = type[e.run] /\ e.customer = customer[e.run]
  /\ \A e, f \in log : e.run = f.run => e = f

(* The dictionary holds the calls that are running and no other: it does   *)
(* not grow with the log, and no call that ends misses its note            *)
(* (observability.py:78-81).                                               *)
PendingWhileRunning == DOMAIN pending = {r \in Runs : pc[r] = "running"}

(* The report's days add up to its totals, but for the rows committed      *)
(* between its two queries, whatever those are (observability_router.py).  *)
ReportAddsUp ==
  LET days(count(_)) == SumFunction([d \in DOMAIN by_day |-> count(by_day[d])])
  IN report = "complete" =>
       /\ totals.total_events = totals.llm_calls + totals.tool_calls
       /\ days(LAMBDA u : u.llm_calls)
            = totals.llm_calls + Cardinality(OfType(late, "llm_call"))
       /\ days(LAMBDA u : u.tool_calls)
            = totals.tool_calls + Cardinality(OfType(late, "tool_call"))
       /\ days(LAMBDA u : u.total_tokens) = totals.total_tokens + Sum(late)
=============================================================================
