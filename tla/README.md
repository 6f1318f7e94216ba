# The bank platform in TLA+

TLA+ specifications of the backend in `src/bank_platform`: the servers that
keep accounts, transactions and service requests, down to the row locks of
their statements; the chat sessions; the supervisor's tool calls and the token
map that hides names from the model; who a request acts for; and the usage log.
TLC checks them on small instances, TLAPS proves the main results for all
values of the constants. Paths below are relative to the repository's
`src/bank_platform` unless they say otherwise.

## 1. The system

A FastAPI process serves a REST API and a chat. Both reach the same three
in-process "servers" (plain Python modules), which open a SQLAlchemy session
per call on one PostgreSQL database. A chat request runs a LangGraph
supervisor, whose agents call the servers through tools. The process runs one
event loop; the REST handlers, `/chat` and the session sweep are coroutines
that never await while they touch the database, so on one process they run one
after the other. Three things do run at the same time: the tool calls of *one*
model message, which LangGraph runs in threads; FastAPI's plain-function
dependencies that check tokens (`auth.py:81, 113`), which run in its thread
pool; and separate processes, be it more backend processes
(`docker-compose.prod.yml` discusses running more than one worker) or the script
that adds staff.

| component | state | operations | talks to | what makes it correct |
|---|---|---|---|---|
| accounts server (`accounts_server.py`, `crud_accounts.py`, router, tools) | table `accounts` | create, update, delete with a hand-written cascade | PostgreSQL; deletes rows of both other servers | no orphaned rows, only the owner changes an account, deleted rows stay deleted |
| transactions server (`transactions_server.py`, `crud_transactions.py`, ...) | table `transactions` and `accounts.balance` | create, update, delete, each adjusting the balance | PostgreSQL | balance = opening balance + ledger; never overdrawn; edits do not deadlock |
| service server (`service_server.py`, `crud_service.py`, ...) | table `service_requests` | create, edit details, change status, delete | PostgreSQL | status follows its lifecycle |
| ownership (`authz.py`) | none | `require_owner`, `owner_guard` around every tool | its own sessions, before the call | the check still holds when the call writes |
| chat sessions (`session_store.py`, `graph.py:156-225`, sweep in `main.py:46-63`) | table `sessions`; LangGraph checkpoints; `_completed_calls` and `_token_maps` in memory | bind, touch, lazy expiry, sweep | PostgreSQL, checkpointer, tool layer, PII layer | a conversation belongs to one customer; only idle ones are expired; all idle ones are, at last |
| supervisor graph (`graph.py`, `llm.py`) | the checkpointed conversation | ask the model, run tools, retry three times | model, tools | retries do not repeat what is done |
| idempotent tools (`tool_utils.py`) | `_completed_calls` per conversation | `idempotent(tool_safe(f))` | the servers | a create call asked for again is not done again, and is refused only if it was done |
| PII tokens (`pii_guard.py`) | `_token_maps` per conversation | tokenise results, detokenise arguments and replies, sanitise messages, forget | tool layer, graph | a token the map put into the conversation leads back to its name, before it is stored or shown |
| authentication (`auth.py`, `auth_router.py`, `customer_router.py`, `scripts/create_staff_user.py`) | tables `customers` and `staff_users`; JWTs, stored nowhere | register, add staff, log in, check a token | PostgreSQL | a customer's name stands for one customer; a token acts for the user it was given out for and stops with it |
| observability (`observability.py`, `observability_router.py`) | table `agent_event_log`, the handler's pending dictionary | callbacks, usage report | LangChain callbacks, PostgreSQL | each call logged once and for its customer; the report's halves agree |
| rate limit, HTTP wiring, evaluation harness, deployment | in-memory limiter, configuration | - | - | no state logic of their own |

What is hard here: two calls that overlap each read a balance, a status, a
binding, a counter or a username and write afterwards; ownership is checked in
an earlier session than the one that writes; there are no foreign keys, so the
cascade is a sequence of statements, and it locks rows in another order than
the flushes do; money is rounded by two columns separately; a conversation is
spread over three stores that share no transaction, and one of them dies with
the process; tokens (both kinds) outlive what they stand for; the model may ask
for the same call again, alone or twice in one message. `PROJECT.json` lists
these at their lines, each with the properties that cover it or the reason none
does.

## 2. The modules

    BankData            rows, tables, money columns
      Ledger            the servers, every call atomic          <- LedgerProofs
      Servers           the servers, statement by statement;    <- ServersProofs
        INSTANCE Ledger   refines Ledger
    Flushes             their row locks, row by row             <- FlushesProofs
    Sessions            sessions row, thread, memory, sweep     <- SessionsProofs
    ToolCalls           one conversation's create calls         <- ToolCallsProofs
    PiiTokens           one conversation's token map;           <- PiiTokensProofs
      INSTANCE TokenVault refines what a token map promises
    Identity            users, tokens, protected requests       <- IdentityProofs
    Observability       the usage log and its report            <- ObservabilityProofs

Each component has an `MC` module with the values TLC uses. The operators whose
comment begins "Mutant" are not used by any specification: each is a plausible
bug that replaces the definition below it, to see that a property would notice.

**BankData.** A table is a function from row ids to rows. Money is counted in
mills (tenths of a cent), so that a request may carry more digits than the
`NUMERIC(12, 2)` column keeps; `Quantise` is the column's rounding, half away
from zero, and `MaxStored` its range. Ids are uuids: unique across tables and
never reused (`issued` remembers them).

**Ledger.** One action per operation of the three servers, each with the
guards and refusals of router, tool, server and CRUD function together. A call
that is refused or only reads is `NoEffect`. `opening` is a history variable:
the balance an account was created with.

**Servers.** The same operations split where another call can get in between:
`Authorise` (sessions of its own), the reads (`ReadTransaction`, `ReadBalance`,
`FindAccount`, `ReadRequest`), the two DELETEs of the cascade, and the commit.
`pc`, `call`, `read` and `locked` are a worker's place in its call, the call's
arguments, what its session has read, and the rows it has deleted but not
committed. READ COMMITTED is modelled by what it does here: reads see
committed rows and take no lock, writers wait for rows locked by a DELETE,
`session.get` returns a copy whose computed balance is written back whole.
SQLAlchemy's row counts matter: an UPDATE that finds no row raises (and the
call fails), a DELETE that finds none is only warned about (and the call
succeeds). The ORM writes nothing when no attribute changed. `Abort` is any
statement failing, the process dying, or PostgreSQL choosing the call as the
victim of a deadlock.
*Workers and Kinds* give the module its three readings: one worker is the event
loop; several workers restricted to what agents' tools can call are the threads
of one chat message; several workers with all operations are several processes.

**Flushes.** What `Servers` leaves out of a flush: SQLAlchemy sends a flush as
statements (changed objects table by table, accounts first, then deletions;
`Plans`), each statement locks its rows one after the other (`Lock`) and waits
for those another call holds until that call's transaction ends. `plan` is the
statements still to run, `want` and `holds` the rows of the current one and of
the whole call. `Miss` is SQLAlchemy's row count: a DELETE that finds nothing
goes on, an UPDATE rolls back. `BreakDeadlock` is PostgreSQL's detector. Rows
have no contents, and an id is used again when nobody has it; a row whose
account is gone is put aside when the account's id is used again, because the
real ids never meet.

**Sessions.** `rows` is the sessions table (customer, and whether `updated_at`
is older than the timeout), `thread` the customers whose messages are in the
checkpoints, `memory` what a process's two maps hold. `Chat` begins with the
lazy expiry, then `VerifyCustomer`, `BindCustomer`, `Touch`, and any number of
`Superstep`s. Expiry is `DeleteThread` (checkpoints and the process's own maps,
which nobody sees between) and `DeleteRow`. `Fail` is any statement failing,
`Crash` loses the memory. Time is `GoIdle`: the timeout may pass at any moment.

**ToolCalls.** One conversation: the model answers, fails (three attempts over
the whole request) or calls any keys side by side; each call goes through
`Check` (in `_completed_calls`?), run, and `Record`. Two history variables say
which repetitions are not idempotent's doing: `unrecorded` holds the commits
nobody recorded (the process died, or an exception followed the commit),
`doubled` the keys one message held twice.

**PiiTokens.** The map of one conversation: `forward`, `reverse` and `counter`
are `_ThreadTokenMap`'s three dictionaries for the one category in use,
`OWNER_NAME` (`accounts_tools.py:25`); token number k stands for
`[OWNER_NAME_k]`. A call detokenises its arguments, runs, and tokenises the name
it returns, one dictionary operation per step, because the threads of a message
share the map without a lock: the counter is read, written, and read again for
the token. `names` is the column `owner_name`, `seen` the tokens that a map
put into the checkpointed conversation, `shown` the name the customer reads.
A token is an ordinary string: the customer may type one in a message or a
PATCH, and the model may make one up, so arguments, replies and new names range
over all `Strings`, tokens included, and `Translate` leaves alone what the map
does not know. The history variable `foreign` collects the tokens used that no
map had put there, `lost` those that outlived their map, `raced` the calls that
make a token while another call makes one, and `doubtful` the tokens they made.
`Message` replaces the known names the customer mentions. `Restart` loses the
map and keeps the conversation; `ExpireSession` loses both. A PATCH (`Rename`)
is served between two turns, because a turn keeps the event loop. `list_accounts`
goes past the map and has no step of its own: what it shows the model is among
the strings the model may use in any case.

**TokenVault.** The abstract promise: a token means the value it was issued for
until everything is forgotten, except tokens declared doubtful. `PiiTokens`
implements it with `meaning <- reverse`; what it leaves to be seen is that the
counter and the first dictionary never lead to a second issue.

**Identity.** `users` are the rows of both user tables; `tokens` the JWTs in
somebody's hands, with the row each was given out for, which the real token does
not hold. A worker is a request or a run of the script: `Register` (is the name
free?) and `Insert`/`InsertFails` (the unique index decides), `LogIn` and
`IssueToken`, or `Present` (signature, expiry, type), `Fetch`/`FetchFails` (the
row by username) and `Handle`. Staff rows may be removed and their names given
again at any moment. Expiry is `Expire`, at any moment.

**Observability.** `Start`, `Finish` and `Record` are the callbacks of one call
of the model or of a tool; `pending` is the handler's dictionary, `log` the
table. `ReadTotals` and `ReadDays` are the report's two queries. Within one
process nothing is logged between them, since both the report and a chat turn
keep the event loop; the rows in `late` are those of another process.

## 3. The runs

| run | instance | shows |
|---|---|---|
| `ledger` | 2 customers, 2 accounts, 3 transactions, 2 requests, whole cents, a refused opening balance | balances equal opening plus ledger, none negative, no orphans, each step moves balance and ledger together |
| `ledger_mills` | 1 account, 4 transactions, amounts of half a cent and below | the balance may run ahead of the ledger, never behind |
| `servers_event_loop` | 1 worker, 2 customers, 2 accounts | the statements of calls that do not overlap implement `Ledger`, and requests follow their lifecycle |
| `servers_processes` | 2 workers, 2 customers, all operations | what survives any overlap: types, no overdraft, owners only, deleted stays deleted |
| `servers_lost_update` | 2 tool threads, the agents' tools | *violation*: a lost balance update |
| `flushes` | 3 workers, 1 account, 1 transaction, 1 request, fair | every circle of waiting calls has a `delete_account` in it; every call comes back |
| `sessions` | 1 process, 2 customers, 2 sessions, fair | what is left of a session is its customer's; only idle sessions go; they all go at last |
| `tool_calls` | 2 calls per message, 3 keys | not done again in a later message, unless unrecorded; refused only if done |
| `tool_calls_twice` | 2 calls per message, 1 key | *violation*: two identical calls in one message both commit |
| `pii_tokens` | 2 names, 1 account, 2 threads, 2 tokens | tokens keep their meaning unless they were made side by side; none is stored or shown unless a restart lost its map, or somebody typed or made it up; the map implements `TokenVault` |
| `identity` | 2 usernames, 3 workers, 3 rows | a customer's name stands for one customer; tokens name users that were; a handler acts for its token's user; a removed user's token does not work |
| `observability` | 3 calls, 2 customers, 2 days, 0 to 2 tokens | rows carry their customer, once; the dictionary holds what runs; days add up to totals but for what came in between |

The violations are the repository's own statements (a docstring or comment,
quoted in `PROJECT.json` under "findings") against what its code does.

**Overlapping calls, and other limits of what holds.** The properties of `Ledger`
hold of `Servers` when calls do not overlap (`servers_event_loop`). The atomic
run `ledger` and the one-worker run `servers_event_loop` cannot meet an overlap.
When calls do overlap, `LedgerInSync` is already broken by the threads of one
message (`servers_lost_update`). The passing runs leave out what is false of the
code; no run is kept for the following, each of which is found by checking the
named property in the named instance.

- `LedgerInSync` in `servers_lost_update`, if the operations are restricted to
  opening an account, `create_transaction` and `delete_transaction`, with one
  transaction: two deletions of the same row, of which the second finds nothing
  to delete and still takes the amount off the balance.
- `NoOrphans` in `servers_processes`: `create_service_request`, which does not
  look the account up again after its authorisation, commits a row during or
  after the cascade of `delete_account`.
- `StatusLifecycle` in `servers_processes`: two status changes that were both
  checked against "pending" are both written, so that a rejected request becomes
  approved.
- `LedgerInSync` in the instance of `ledger_mills`: a debit of half a cent is a
  whole cent in the ledger and none in the balance.
- `NothingOutlivesTheBinding` in `sessions` with two processes: the binding is
  read and then written by a store that overwrites what is there, so two
  customers who use a new session id at once are both let in.
- `OnlyIdleSessionsExpire` in `sessions` with two processes: the test and the
  list of a sweep are not looked at again, so a session that was used since is
  taken apart. With one process nothing runs between the list and the deletions;
  what the run `sessions` tests there is the cutoff alone.

The properties of `PiiTokens` and `ToolCalls` name their exceptions, and each
exception happens. A call that makes a token while another call is making one
may be given the other's number (`doubtful`): both increments of the counter
come before either token is made. After a restart a token still in the
conversation is not translated, and is written into an account or shown to the
customer as it is (`lost`), until the new map gives the same number to another
name. The same happens, with no restart, to a token that
somebody typed or made up (`foreign`), and to one read from an account so named.
Two identical calls in one message are both done (`doubled`, the finding of
`tool_calls_twice`).
`Identity`'s `ActsForItsOwner` names one: a staff row removed and its username
given again makes the old token work for the new user until it expires.

**Bounds.** Ids are the only unbounded thing in the tables. `Ledger` stops
creating when they run out (`Issue`); `Servers` receives a call that needs an
id only while one is left for it (`IdLeftFor`), so that no running call gets
stuck for want of one. Every property speaks of one account with its rows, or
of one row; two accounts show that calls do not disturb each other's, three
transactions that a balance is the sum of several, and two workers suffice for
every overlap the properties describe, because each call reads and writes once.
`MaxStored` is a few cents, so that both ends of the column's range are met.
`Flushes` has three workers, so that circles of three form, and one row of each
kind: a circle needs two rows, and ids come back into use, so that it has no
bound on how long it runs. In `ToolCalls`, `MaxRows` is 2: one more row than
may exist. In `PiiTokens` one account suffices, since accounts meet only in the
map and threads may work on the same one; `MaxTokens` is 2, which two names use
up; a thread that needs a third waits, where a restart or an expiry gives it a
new map.
`Identity`'s `MaxRows` is 3: a name can be taken, given up, and taken again,
beside another user; a registration that finds no row left gives up (`Abort`).
`Observability` has three calls, so that two are pending while a third is
logged, and `Days` is 2. `Sessions` needs no bound.
Symmetry (ids, customers, workers, keys, names, threads, calls) is used for
invariants and step properties only, never with liveness. The specifications
without it (`flushes`, `sessions`) are the ones with liveness.

**Fairness.** `Flushes`: a call that can go on does (strong fairness of a
worker's step, because it may wait for row locks repeatedly and PostgreSQL
queues the waiters of a row), and the detector breaks a circle that stays (weak:
it runs after every `deadlock_timeout` of waiting); calls need not arrive and
nothing need fail. `Sessions`: a running request ends and a finished sweep is
noticed (weak); the sweep's timer (`main.py:46-54`, which catches every exception
and sleeps again) starts a sweep and each deletion succeeds if tried again and
again (strong), because requests, failures and crashes interrupt them: this
only excludes a statement that fails, or a process that dies, at the same place
for ever. No failure, crash or request is fair. The other specifications are
safety only.

**Mutants.** For every property of a passing run `PROJECT.json` names a
definition and an operator to put in its place; the property must then fail.

## 4. The proofs

Every theorem holds for all values of the constants that satisfy the named
assumptions: `MoneyAssumption` (amounts are integers), `IdAssumption` (ids are
unique across tables), `KindsAssumption`, `DisjointAssumption`,
`CustomerAssumption`, `KeyAssumption`, `TextAssumption` (how names
and tokens are told apart; any string may be used),
`IdentityAssumption`, `UsageAssumption`. None limits how many customers, ids, threads or workers
there are; ids may be infinite sets.

Every invariant and every step property the passing runs check is proved.

- **LedgerProofs**: `TypeCorrect`, `OverdraftProtection`, `CascadeComplete`,
  `LedgerMoves`, `NeverBehind`, `BooksBalance`, and `Lifecycle`, which
  `ServersProofs` builds on. It begins with
  lemmas about money (`Quantise` returns an integer of the same sign, is
  idempotent, and sums and differences of whole cents are whole cents) and about
  sums (below). The inductive invariant adds `StoredInCents` to the types, no
  orphans and no overdraft. No orphans is needed for the others: the
  transaction a call edits must name an account that exists. `LedgerMoves` says
  that each step moves a balance by exactly what it changes in the ledger; it
  is `LedgerInSync` as a step, and rests on cents being closed under sums.
  `NeverBehind` and `BooksBalance` are about the sum itself. The invariant adds
  that the table of transactions is finite (`BooksInv`: every call adds one row
  at most, although ids may be an infinite set), without which there is no sum.
  Both follow from what a step does to the *gap*, by how much a balance is ahead of
  its ledger: no step makes it smaller (`QuantiseShift`: rounding a balance in
  cents plus an amount gives at least the balance plus the rounded amount), and
  none changes it when amounts are whole cents. `BooksBalance` has that as its
  hypothesis, `WholeCents(Amounts)`; without it `LedgerInSync` is false (section 3).
- **ServersProofs**, in three parts. *Overlap*: `TypeCorrect`,
  `OverdraftProtection` for any set of workers. `NeverOverdrawn` is not inductive:
  what matters is that the balance a worker is *about* to write passed the test
  when it was read (`WorkerOK`), and that it is written whole rather than as an
  increment. Hence an update may be lost but no account is overdrawn.
  *Ownership*: `NoResurrection` and `OwnersOnly`, for any set of workers. The
  ownership check holds at the commit although it was made in an earlier
  session, because owners never change and ids are never reused (`Stable`): a
  row the check saw is either still the caller's or gone for good (`OwnerOK`).
  *No overlap* (one worker): `Sequential`, the refinement that
  `servers_event_loop` checks. The invariant says that what a call has read or
  checked is still so at every later stage (`Fresh`), which is true only because
  nobody else commits in between, and that balances are stored as the column
  keeps them (`Stored`): deleting a transaction of amount zero writes no
  balance, where `Ledger` writes the same one. Commits map to the action of
  their call, everything else to stuttering. Through the refinement the theorems
  of `LedgerProofs` (the instance `Books`) become theorems about statements:
  `SequentialBooks`, `SequentialTables`, `SequentialLifecycle`. All of what they
  say fails with two workers (section 3; a lost credit leaves the
  balance behind its ledger).
- **FlushesProofs**: `TypeCorrect` (with it, that row locks are exclusive) and
  `OnlyCascadesDeadlock`. The invariant relates the statements a call has left
  to the rows it can hold and want: a call other than `delete_account`
  locks the account first, and one that waits for the account holds nothing. So
  in a circle without a cascade everybody would wait for a transaction or a
  request, whose holder has locked its last row and waits for nobody.
- **SessionsProofs**: `TypeCorrect` for any number of processes; `Isolation` and
  `Patience` for one. The invariant says what a process knows at each stage
  (`JobOK`): what it expires is idle, the row goes only when nothing else is
  left, a turn runs only for the bound customer. With two processes these two
  are false (section 3).
- **ToolCallsProofs**, for any number of threads: `TypeCorrect`, `NothingLost`,
  and `NotRepeated` by accounting for every row (`Accounted`): a key no message
  held twice is worked at by one thread at a time, is not recorded while it
  runs, and has at most the row of its record or of the thread about to record
  it.
- **PiiTokensProofs**, for any number of threads and whatever strings are typed
  or made up: `TypeCorrect`, `MeaningKept`, `NamesStored`, `NamesShown`,
  `VaultImplemented`. The invariant keeps apart what holds of calls side by side
  (every token handed to the conversation has its way back, or will have when its
  call ends) and of a call that makes its token alone (the counter is ahead of
  every token, so the one it makes is new). What is stored or shown is a name, or
  a token the map did not know: one of a map that is gone, or a foreign one.
- **IdentityProofs**, for any number of workers: `TypeCorrect`,
  `CustomersDistinct`, `TokensEarned`, `OwnersActed`, `Revocation`. The invariant
  says of each stage what its worker's row and token are for; numbers are given
  out in order, so no row comes back under an old id. `CustomersDistinct` puts
  three facts together: a token's row was committed, a customer's row is never
  removed, and the index keeps one row per name.
- **ObservabilityProofs**, for any number of calls, days and rows: `TypeCorrect`,
  `OwnRows`, `NotesTaken`, `ReportsAddUp`. The first three rest on `Notes` (the
  note of a running call, and what it took out at its end, is the customer of
  its request) and `Rows` (a row is written at the end of its call, so a call
  about to be logged has none yet). The report's invariant is `Between`: after
  the first query the totals are those of the table without the late rows. That
  the days then add up is a lemma about tables, `DaysAddUp`: a sum is the sum of
  the sums of its groups (`Regroup`). It needs `Rows` again, since the days count
  the model's tokens only and the totals count all.

**Sums.** The sums are `SumFunction` of the community modules, which takes the
elements of a finite set one by one in an order nobody knows. The library's
induction over finite sets takes an operator as a parameter and cannot be used
here; instead each lemma looks at a *smallest* subset on which it fails
(`SmallestSet`, from the well-foundedness of strict inclusion between finite
sets) and takes one element out of it. `SumsAgree` and `SumsExist` show that the
recursive function behind the sum is well defined, `SumEquation` and `SumRemove`
that any element may be taken out first; `LedgerProofs` needs how a sum moves
when one entry does (`SumMoves`), `ObservabilityProofs` that a function with the
same recursion is the sum (`SumUnique`), hence that sums split and regroup. The
lemmas up to `SumRemove` stand in both modules.

Only model-checked, because it is out of this prover's reach: liveness
(`EveryCallReturns`, `AbandonedSessionsGo`). The violations are TLC's
counterexamples.

## 5. Not modelled, and why

- *Edits of a description alone and `request_type`*: stored, never read by any
  decision. *Reads*: no effect; they are `NoEffect`.
- *NaN and infinite amounts*: outside the arithmetic of the models.
- *Texts*: names and tokens are values, not strings, and an argument, a reply or
  a name is one of them. A token inside a longer text is translated like one that
  stands alone, which is all `PiiTokens` knows of it. That a short name may occur
  inside a longer one, or inside the token that replaced it
  (`pii_guard.py:76-80`), is listed as a hazard without a property.
- *Model and prompts*: which calls the model asks for, and with which of the strings, is left
  free; routing
  between agents only chooses which tools it sees. Which message
  `_extract_reply` takes for the answer is not modelled, as the reply may name
  anything.
- *Durations and costs* in the usage log: added up as the tokens are.
- *Passwords, signatures, bcrypt and JWT*: library code; a wrong password or a
  forged token has no effect.
- *Rate limits*: `rate_limit.py` builds slowapi's limiter; counting and windows
  are the library's, and a refused request reaches no handler.
- *CORS, configuration, deployment*: declarative. The deployment was read for
  how many processes run and what restarts them.
- *Evaluation harness* (`eval/`): conversations with the live model, one after
  the other, whose outcome is the model's.

## 6. What could follow

1. `ToolCalls` composed with `Servers`: create calls of one message on the same
   account, where the lost update and the double call meet.
2. `Flushes` shown to refine the waiting in `Servers`, with the rows' contents.
3. The safety half of the two liveness properties, which TLC checks whole: that
   a call which waits has a holder to wait for, and that an abandoned session
   is always on the way to a sweep.
