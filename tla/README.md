# Aegis AI (Guardrail AI): specifications, model checks and proofs

The repository is a FastAPI service that stands between AI agents and the tools
they call. A request names a tool, an action and parameters; rules from a YAML
file decide whether it is allowed, logged and allowed, blocked, or held for a
human; every decision is written to a hash-chained audit log before anything is
done about it. Around that are an approval workflow, the management of rules, accounts,
metrics and reports, explanations by a language model, and a simulation. This
directory models them as they work at the same time, checks them with TLC and
proves what matters most with TLAPS.

## 1. The system

### Deployment facts the models rely on

* `Dockerfile:58` starts uvicorn with four worker processes. The endpoints are
  plain `def` functions: each runs in a thread of its worker's pool, so two
  requests interleave at every statement, in one worker and across workers.
* Each request has a SQLAlchemy session (`app/database/session.py`), with
  `autoflush=False`, over PostgreSQL at its default READ COMMITTED. The audit
  logger and the approval queue open a session, and a transaction, of their own.
* `get_db_optional` hands out a session without connecting, so it yields `None`
  in no state that matters; the 503 branches behind `if not db` are unreachable
  and are not modelled.
* Nothing retries. An exception ends the request; closing the session rolls back.

### Components

| Component | State | Operations | Interacts with | What is hard |
|---|---|---|---|---|
| Audit log (`app/audit/logger.py`, `audit_log_repository.py`) | table `audit_logs`, advisory lock | `log`, `verify_integrity` | called by `/execute` and the simulation | concurrent writers, lost commits, what verification can see |
| Approval workflow (`app/api/approval_routes.py`, `hitl_request_repository.py`) | table `hitl_requests`, row locks | approve, reject, expire | runs the tool, updates `execution_history` | check and lock are apart; a tool runs inside a transaction; deadlines |
| Execution pipeline (`app/api/routes.py`: `execute`) | `execution_history`, `runtime_metrics`, the gauge `active_executions` | evaluate, dry run, audit, block / submit / run, persist, answer | policy, audit log, approval queue, tools | five transactions, some of whose failures are swallowed |
| Startup (`app/main.py`, `observability/health.py`) | which audit logger and approval queue a worker uses | create tables, sync the YAML rules, wire, fall back | all of the above | four workers race on an empty table |
| Policy evaluation (`app/core/`) | the rules of the YAML file | `evaluate`, `compare`, `preview_rule` | called by `/execute`, the simulation, previews | coercion, combinators, order; the file is read anew for every request |
| Policy management (`policy_service.py`, `policy_repository.py`, `routes.py:475-790`) | table `policies` | create, update, delete, toggle, import, sync | startup | check-then-insert; stale instances; rows that go away; locks in two orders |
| Sessions and pool (`app/database/`) | 15 connections per worker | check out, return, time out | everything | a request holds one connection and waits for a second |
| Authentication (`app/auth/`, `auth_routes.py`) | users, refresh tokens, reset tokens | login, refresh, logout, change, forgot, reset | guards every endpoint | check-then-act on token rows, stale instances |
| Tools and plugins (`app/core/executor.py`, `app/plugins/`, `app/tools/`) | the registry | execute, simulate, discover | pipeline, approvals, simulation | files that fail half-way, names that are taken |
| Monitoring and analytics (`monitoring_routes.py`, `analytics_routes.py`) | table `analytics_reports` | count, group, generate reports | reads what `/execute` writes | several statements per answer; find-then-write |
| AI explanations and chat (`ai_routes.py`) | table `ai_generated_content` | explain, summarise, retrieve, chat | Groq; calls `execute` | look up, generate for seconds, insert, read again |
| Simulation (`app/simulator/`) | table `simulation_runs` | run | policy, audit, executor | a list half done |
| Audit search (`audit_service.py`, `audit_routes.py`) | none of its own | search by pages, export | reads the audit log | pages shift while entries come |
| Frontend, migrations | none of their own | display; schema | | |

`PROJECT.json` lists every component with its status, and under `hazards` every
place found in the code where an interleaving, a crash, an order of events or a
boundary can go wrong, with the properties that look at it.

## 2. Modules

| Module | What it is |
|---|---|
| `AuditLedger` | abstract: numbered entries that never change, at most one per call, exactly one if the call returned, after all there were when it began |
| `AuditChain` | `PostgresAuditLogger.log` statement by statement, `verify_integrity` |
| `AuditDamage` | `AuditChain` on a storage that loses, alters or repeats one row |
| `AuditChainProofs`, `AuditDamageProofs` | proofs about the two |
| `TicketBoard` | abstract: who contends for a ticket, who may run its tool, who resolves it |
| `Store` | the tables, tools and clock that `/execute` and `/approvals` share |
| `ApprovalWorkflow` | approve, reject and expire |
| `ApprovalWorkflowProofs` | proofs about `ApprovalWorkflow` |
| `ExecutePipeline` | `/execute` |
| `Orchestrator` | both over one `Store` |
| `OrchestratorProofs` | proofs about it, with those of `ApprovalWorkflow` |
| `PolicyMap` | abstract: rules that are created, revised to a later version, removed |
| `PolicyStore` | the table of policies: its endpoints, and the startup of workers |
| `PolicyStoreProofs` | proofs about `PolicyStore` |
| `AuthTokens` | refresh tokens, password and reset link of one account |
| `AuthTokensProofs` | proofs about `AuthTokens` |
| `PolicyEvaluator` | pure: what is decided about a request |
| `ToolRegistry` | the discovery of plugins |
| `Simulation` | `/simulate` and dry runs, over the two before and a rule file that changes |
| `DecisionProofs` | proofs about the three |
| `ConnectionPool` | sessions, connections, the pool's timeout, the time of day |
| `ActionRecords` | what `/execute` and `/ai/chat` write, by connections |
| `MetricReports` | `/monitoring` and `/analytics` |
| `AuditPages` | a client that pages through `/audit/logs` |
| `StoredContent` | the explanations kept, and the endpoints that keep and retrieve them |
| `BackOffice` | the four before, over one pool and one set of tables |
| `BackOfficeProofs` | proofs about the five |
| `MC...` | the instances TLC checks |

### How state and actions correspond to the code

**AuditChain.** `log` is the table, a function from the ids of its committed rows;
an id is drawn (`drawn`, `id[c]`) when a row is inserted, so that without a lock rows
may be committed in another order than their ids. `pc[c]` is the statement a call
stands at: `Begin` opens the session, `AcquireLock` is `pg_advisory_xact_lock`,
`ReadLast` the query for the last row, `Insert` the flush, `Commit` the commit. The
lock statement stands in a `try` whose exceptions are all swallowed. What follows
depends on where it failed. On SQLite, which has no such function, the call goes on
without the lock (`LockUnsupported`). On PostgreSQL a statement that failed on the
server has aborted the transaction, so that the next one raises (`Fail`); but one that
got no connection, from the pool or from the server, has begun nothing, and the next
statement asks again and may get one: the call goes on without the lock there as well
(`NoConnection`). `Fail` is also an exception of any other statement or the death of
the worker; `CommitUnacknowledged` a commit that took effect and whose answer was lost.
`unlocked` and `began` are history variables: who went on without the lock, and what was
the last id when a call began. SHA-256 is taken to be injective, so a checksum *is* the
sequence of contents hashed into it. `verify_integrity` is modelled without its
`limit`, as all of its callers use it.

**ApprovalWorkflow.** A review is one request to one of the three endpoints. The
essential fact about the code is in `Find` and `Flush`: the status is read once.
`HITLRequestRepository.approve` queries the row again, but the session's identity
map hands back the instance it has with the values read first, so nothing is
checked after the `UPDATE` has waited for the row lock. From the flush to the end
of the transaction the review holds the lock (`rowLock`), also while the tool
runs. `WriteBoth` is the commit of ticket and history row; `Write` sets only the
columns the verdict changes, because that is all SQLAlchemy's `UPDATE` does.
`Fail` is a failed statement, a tool that raises, or the death of the worker, at
any point: the transaction is rolled back, the tool's effect is not.

**ExecutePipeline.** `xpc[e]` goes through the handler in its order: `Evaluate`
(which also ends dry runs and failing evaluations), `Audit`, then `Block`,
`SubmitTicket` or `RunTool`/`ToolReturns`, then `PersistHistory`,
`PersistMetric`, `Reply`. `AuditRaises` and `ToolRaises` leave through the
`finally` clause. `_try_persist` and `_request_hitl_approval` swallow exceptions,
so their steps choose freely between having an effect and having none. The audit
entry is one step, as `AuditLedger` promises; the policy's decision is chosen
freely, among the four that are known and one that stands for whatever else the rule
file says (`"unheard_of"`): nothing validates the file, and `/execute` runs the tool. `Crash(w)` ends everything worker `w` was doing; a worker that is started
again may find the database or not (`wired`).

**Orchestrator** runs both on the same tables. The ticket carries the execution's
id, so `target[q]` names an element of `Execs`. A review may come at any moment
after the ticket is committed, also before `/execute` has written the history.

**PolicyStore.** A job is a request to one of the five endpoints that write, or the
startup of a worker; each is one transaction. `todo[j]` has the rules it is still
to do: one, or those of an import or of the YAML file in their order. `Find` is the
first query (with the refusals), `FindAgain` the one `update_policy` makes again,
`Insert`, `Modify` and `Delete` the flushed statement, `Commit` the commit and
`Answer` what comes after it, which reads the row once more and may fail on it. Two
facts about SQLAlchemy and PostgreSQL carry the model. An instance keeps the values
read first (`seen`), an `UPDATE` sets only the columns whose value differs from
them, and the version is counted by the database: `Revision`. And a statement waits
for the transaction that has an uncommitted change of the same row or key: `lock`,
`MayWrite`. Two jobs that take rules in opposite orders wait for each other;
`BreakDeadlock` is PostgreSQL's detector ending one. `Start`, `CreateTables` and a
job of kind `"sync"` are `on_startup`; a worker whose job ends well is `wired`, any
other serves from the fallback.

**AuthTokens.** A secret is named by the request that makes it. `FindToken`,
`RevokeToken` and `CommitTokens` are the three places of `refresh` (and logout)
that others can come between; as above, `revoke_token` finds the instance read
before and so revokes again what another has revoked. `FindUser` and `CommitUser`
are the same for the endpoints that change a column of the account, and `Written`
is the `UPDATE` of just the changed columns. `Receive` may refuse at once: that is
every check that needs no other request to come out one way or the other.

**PolicyEvaluator, ToolRegistry, Simulation.** Values have a kind, because `compare`
converts by kind: ints, floats and bools, counted in halves, and texts, as sequences
of words; `IntText` and `FloatText` say how Python writes a number, so that reading
and writing are modelled by what they do. `evaluate` is the loop over the rules as a
recursive function; `"raises"` is an exception, which ends a request. `LoadFile`,
`RegisterNext` and `FinishDiscovery` are `discover_plugins` class by class.
`Simulation` walks its scenarios: `Evaluate`, `Audit`, then `Withhold`, or `Execute`
and `ToolEnds`, and at the end `Persist`. `BeginEdit` and `EndEdit` rewrite the rule
file, which is read for every scenario anew.

**BackOffice** composes four modules over `ConnectionPool`. A request's `pc` is the
statement it is about to make; `SessionAt` says in which of its two sessions, and
`Connect` takes a connection for it or `TimesOut` gives up when the pool has had none
for 30 seconds (`Raised`: what the handler does about it. For the lock statement of the
audit log that is nothing, and the next statement waits once more: `"read_last"`). The essential fact is that
a session that only reads keeps its connection until the request is over, so that an
authenticated `/execute` holds one while it asks for another. `clock` and `stamp` are
`func.now()`: the time a transaction *began*, which is not the order in which rows
are committed. `Count` is one query of an endpoint; `Queries` lists them.

Every module has *mutated forms* of some of its definitions, marked as such.
They are plausible bugs (a lock that is tried and not waited for, a commit
forgotten, a status written too early). None is used in the specifications;
`PROJECT.json` pairs each with a property that it violates.

## 3. What the runs check

| Run | Instance | Shows |
|---|---|---|
| `audit_chain` | 3 calls, both dialects | forks come only from calls without the lock: an accused row is that of such a call or the one right after it (`ForksAreUnlocked`); a chain that verifies stands for its history (`HeadCommitsToHistory`); forked or not it is a tree (`ChainIsTree`); a call that returned has one row and one that raised at most one (`LoggedOnce`); every call ends (`LogReturns`); and `AuditLedger` is implemented |
| `audit_forked` | 2 calls, PostgreSQL | *violated*: a call whose lock statement got no connection forks the chain, and `verify_integrity` reports damage where there is none |
| `audit_damage` | 4 calls, PostgreSQL, all with the lock, symmetric | verification accuses the damaged place and no other, also after more rows (`DamageLocated`) |
| `approvals` | 2 reviews, 2 tickets, 3 hours | what is on record was done (`RecordedMeansDone`); an answered reviewer may take the ticket for settled (`AnsweredMeansResolved`); nothing is cleared after the deadline (`ClearedInTime`); every review ends (`ReviewAnswered`); `TicketBoard` is implemented |
| `approved_twice` | 2 reviews, 1 ticket | *violated*: two reviews are both answered 200 |
| `orchestrator` | 1 execution, 2 reviews, 2 hours | nothing happens unaudited (`AuditedFirst`), history and metric agree with the decision and with whether the tool was run (`HistoryTrue`), the decision binds (`DecisionBinds`) |
| `pipeline` | 2 executions, 2 workers | the gauge counts (`GaugeCounts`), every request ends without waiting for a human (`ExecAnswered`) |
| `released_unrecorded` | 1 execution, 1 review | *violated*: an approval that overtakes `/execute` leaves the history at `waiting_for_human` |
| `policies` | 2 starting workers, 2 administrators, 2 rules, 1 failure | an import or sync is seen whole (`NothingHalfDone`); a rule is switched only by a commit that was asked to (`SwitchObeyed`); of workers that start together one gets the database (`SomeWorkerWired`); deadlocks end (`JobsEnd`); `PolicyMap` is implemented: no revision is lost in another |
| `accounts` | 3 requests of any kind | successor and revoked predecessor are stored together or not at all, and who is answered with a token finds it stored (`RotationWhole`; not that the answer arrives); a token that was revoked is refused (`RevokedIsRefused`); replaced passwords and links do not come back (`SecretsStayDead`); a link that is sent was stored (`MailedIsStored`) |
| `decisions` | 134 rule files, 15 requests, 4 plugin directories | decisions are those of the first rule whose preview matches, and a client's word on a mail being external counts for nothing (`FirstMatchDecides`); a threshold written as text orders as the number, but for fractions (`NumbersAsText`); a simulation's row is what was audited and run (`SimulationTrue`); bad plugins keep no good ones out (`EveryToolFound`) |
| `backoffice` | 3 requests in 12 combinations of endpoints, 3 connections | nobody waits for ever for a connection and none is kept (`RequestsEnd`); counts taken one after the other bracket each other, up to the rows of decisions nobody has heard of (`CountsBracketed`); a report covers what was there when it says it was generated (`StampCovered`); nobody is served older content than before (`NeverOlder`); a reader of pages misses nothing (`PagesMissNothing`) |

**Bounds.** Three calls are one that holds the lock, one that waits and one that
has failed or is still to come; a fourth adds nothing to a lock with one holder
(the proofs are for any number). Four calls make a first, an inner and a last row
with one written after the damage; since `DamageLocated` is about chains written under
the lock, that run stops (`AllLocked`) where a call goes on without it. Reviews interact only through one ticket's row
and a lock with one holder; two of them contend, one behind the other, and two
tickets show that reviews of different tickets do not. `MaxClock` bounds the hours
and lets every check happen before, at and after a deadline of one hour (zero in
the composed runs, where only the order of deadline and clock matters). Executions
share nothing but the tools and their worker's gauge, hence one execution with
two reviews in `orchestrator` and two executions without reviews in `pipeline`.

In `policies`, two workers are enough for a race to create tables and rules, and two
administrators for every pair of endpoints on one rule; the import takes the rules
in the order opposite to the YAML file, so that locks can be waited for in a circle,
and names one of them twice, so that a rule is revised twice in one transaction.
One failure falls at any point of any job. In `accounts`, three requests are two
that share a token or a link and one that uses what they were given or comes in
between. In `decisions`, a decision depends on a rule and on which rules come before
it, so files of up to two rules show all there is beside the default file; the
eleven rules have every operator, both combinators, the empty list, a missing field,
an unknown operator and a decision that does not exist, and the requests every kind
of value. In `backoffice`, pools of three connections and requests that need up to
two make each situation of the real fifteen: a free one, one that is given back in
time, and everybody holding one and waiting. Combinations of endpoints are those that
read and write the same rows; the others meet in the pool only. An execution there ends
in one of two outcomes, a held action (with its ticket) and one of an unknown decision;
the table it adds to has a blocked and a held one. One source of content
is enough, since content of different sources is never compared.

Deadlock is not checked: calls, reviews and requests come to an end and the
system then rests; that they *do* come to an end is what `LogReturns`,
`ReviewAnswered`, `ExecAnswered`, `JobsEnd` and `RequestsEnd` say.

**Fairness.** Threads are scheduled by the operating system, and a statement sent
to PostgreSQL is answered or fails, so a call or request that has begun goes on
(weak fairness of its steps). PostgreSQL queues waiters for a lock, so one that
waits is not passed over for ever: strong fairness of `AcquireLock` and `Flush`.
The same holds for `Step` of a policy job; a deadlock is found after
`deadlock_timeout` (weak fairness of `BreakDeadlock`). The pool's timeout is a step a
waiting request takes if nothing else happens: it needs only weak fairness of the
request, since without a free connection it is all that is enabled.
On SQLite a writer gets the lock or, after the busy timeout, an exception. That a
tool returns or raises is assumed; the code sets no timeout of its own. Nothing
obliges a client to call, a statement to fail or a worker to crash, and no review
is ever obliged to come.

## 4. What is proved

Every safety invariant and action property that a passing run checks, and the three
refinements, are theorems: for any calls, requests, reviews, executions, workers, rules,
files, tools, pool and page size, and any number of steps. SHA-256 is injective by the
way checksums are modelled. Of the constants the proofs use what the `ASSUME`s of the
modules say, which TLC evaluates in the runs: that there are finitely many executions
(`ExecsAssumption`, for counting them), that pages have at least one entry
(`PageSizeAssumption`), what a rule, a request, a plugin and an outcome are, and that
the values for "no row", "no plugin" and the like are no rows or plugins. Hypotheses
beyond these are in the theorem and named below.

**`AuditChainProofs`.** `Basic` has the types, that ids are drawn once and are larger than
those a call found when it began (`IdInv`), and that a call that did not go on without the
lock holds it between the lock statement and the end of its transaction (`LockedInv`).
`ForksAreUnlocked` is about what is in the table; to be inductive it has to speak of what is
about to come into it. `Covers` is what a call with the lock knows: the checksum it read is of
a row that no row written under the lock comes after. `ReadInv` says so of calls that have
read, and that no row written under the lock has a larger id than one of them has drawn;
`RowsInv` says it of the rows they wrote. A call without the lock may commit at any time and
under any id it has drawn; it can come between a row and what that was hashed onto, which is
exactly what `ForksAreUnlocked` allows. `TreeInv` is the same with `Rooted` for any call.
`HeadCommits` needs the types alone: if nothing is reported, the rows agree one by one with
those before them, and of rows that did not stand for their history there would be a first.
`LoggedExactlyOnce` and `LogImplementsLedger` need `Basic`; the latter is the step-by-step
simulation of `AuditLedger`, with or without the lock.

**`AuditDamageProofs`.** `DamageIsLocated` is about chains all calls wrote with the lock
(`unlocked = {}`, in the property itself): after a fork undamaged places are accused too, which
is what `audit_forked` shows. `DamageInv` says, for each kind of damage, which rows still
agree with the one before them: all but the one at `place`, or but the first after it. An
insert leaves the rows before it as they were and agrees with the last of them if the holder
of the lock has read what is still last (`FreshInv`) and its id is the greatest (`TopInv`).
That survives an altered or an inner lost row but not a lost last one: then the call that had
read it may commit in its place, and `LostTailInv` says that its row is the only one accused.
Checksums get longer from row to row (`GrowingInv`), so that a repeated row does not fit where
it is put (`RepeatedInv`).

**`ApprovalWorkflowProofs`.** `IInv` adds to the types that a review between its
flush and the end of its transaction holds its ticket's lock (`LockInv`), what a
review knows where it stands (`ReviewInv`: one that is about to commit an
approval has run the tool; one that is in flight has a verdict and a ticket), and
how deadlines were computed (`DeadlineInv`). `TicketsAdvance` says what any step
leaves true of every ticket, `OthersStay` that a step of one review leaves the
others where they are; together they carry a review's knowledge through the
others' steps. From `IInv` follow `TypeCorrect`, `RecordsAreTrue`,
`AnswersAreFinal`, `DeadlineHolds` (which needs `UtcOffset <= 0`: `expires_at` is
computed from local time and compared with UTC) and `WorkflowImplementsBoard`.

**`OrchestratorProofs`.** `SystemInv` is the invariant above, which executions are shown
to keep too, and what an execution knows where it stands (`Knows`): before `"audited"`
nothing has been done about it, a tool that is running belongs to an allowed action, a
ticket to a held one, and its status, history and metric each agree with the decision and with whether the tool
was entered; what the tool returned, and the answer, are not in it. A review writes history and runs tools as well, but only through a ticket, and only an
audited execution that was held back has one; that is what keeps `Knows` through the
steps of reviews. `ApprovalInv` counts: each run of a held tool has used up an approval
(`Spent`). From these follow `AuditComesFirst`, `HistoryIsTrue`, `DecisionsBind`,
`GaugeIsRight` (a crash takes the gauge and the executions with it), and, for the
composed system, `RecordsStayTrue` and `DeadlineHoldsForAll` (again `UtcOffset <= 0`).

**`PolicyStoreProofs`.** `StagedInv`: who has staged a change of a rule has its lock, and
the change was made from the row that is still committed, so that it keeps the row's id,
is of a later version, and has the switch the job was asked for or the one the row has.
`TodoInv` says what a job still has to do where it stands; `NothingHalfDone` is inductive
with both. From them follow `ChangesAreWhole`, `SwitchesAreObeyed` and `StoreIsPolicyMap`.
The first attempt at the refinement failed for a good reason: `PolicyMap` promised
revisions by one version, but a file that names a rule twice revises it twice in one
commit. The promise is now a later version, and the run imports such a file.
`OneWorkerIsWired` (`Workers # {}`) has an argument of its own, about startup alone: until
some worker has arrived, there is one that has come past the creation of tables or still
can (`Ahead`), and what any worker has found in the table is what is there (`Unchallenged`),
so that no insert is refused; who commits first has arrived.

**`AuthTokensProofs`.** `StoredInv`: a request stores a token at most once, and after
that only answers; a refresh that has stored one has revoked its predecessor.
`RevokedInv`: a revoked token was revoked by a logout or by a refresh that has a
successor. `LateInv`: a refresh that came too late gets no further than the look at its
token, since what is revoked stays so. From these follow `RotationsAreWhole`,
`RevokedAreRefused`, `MailedLinksWereStored`; `DeadSecretsStayDead` needs only the types.

**`DecisionProofs`.** `ToolsAreFound`: of the files that were loaded, each class is
registered, or still in the queue, or not to be (`NoneLost`). `PreviewsFirstMatchDecides`
is about a loop over any number of rules; no induction over files is needed, because a
*wrong* rule would have a last index: the loop's result at `i` is its result at `i + 1`
unless rule `i` matches or raises, and both agree after the last rule, so that
the greatest index at which they differ (which exists by `NatLessThanWellFounded`) gives
the contradiction. `TextsOfNumbers` rests on `WritingAssumption` (two numbers are not
written alike). `SimulationsAreTrue` needs that there is an audit entry for each scenario
counted and at most one more (`EntriesMatch`), also while the file is being rewritten.

**`BackOfficeProofs`** are in layers, each of which uses the ones before: `PathInv` (the
endpoint decides where a request can be; a transaction began in the past), `RecordsInv`
(rows have one of the four decisions, or one nobody has heard of), and on these `ReportInv` for `StampsAreCovered`: a
report's transaction lasts from its stamp to its counting, so what was committed before
the one is seen by the other. `ContentInv` gives `ServedIsNeverOlder`: what was ever
served is kept, so the newest is as new. `PagesInv` gives `NoEntryIsMissed`: an entry that
is still to be seen has at least as many newer entries as the pages already read skip; new
entries only add to them, and a page that is not full leaves none (a pigeonhole argument on
the ranks of entries). `BracketInv` gives `CountsAreBracketed`: a total is at most what its
parts, counted or still to be counted, add up to with the rows of unknown decisions, because
tables only grow.

**Only model-checked** are the liveness properties (`LogReturns`, `ReviewAnswered`,
`ExecAnswered`, `JobsEnd`, `RequestsEnd`), which need fairness and `ENABLED`, and the three
runs that end in a violation.

## 5. What the runs found

* **A ticket can be resolved twice.** Status check and row lock are apart
  (`approval_routes.py:138`, `:148`), so two reviews of one ticket both go
  through and two approvals run the tool twice, one after the other.
  `TicketBoard` therefore promises less than one expects: one *at a time*.
* **A released action can stay `waiting_for_human`.** `/execute` commits the
  ticket before it inserts the history row the approval wants to update.
* **The chain can fork on PostgreSQL.** `audit_log_repository.py:69` takes every exception
  of the lock statement for another database. If it was the pool's timeout or a refused
  connection, the call goes on without the lock, and a row may be hashed onto one that is no
  longer the last (`audit_forked`): `verify_integrity` then reports damage for good, though no
  entry is lost or changed. `ForksAreUnlocked` and `ChainIsTree` bound what can go wrong.
* **Lost last rows go unnoticed** by `verify_integrity`, which compares each row with the
  one before it and keeps nothing about the last: "detect any deleted, injected, or modified
  audit entries" (`README.md:56`) is more than it does. `DamageLocated`, proved, says so: of a
  chain written under the lock the loss of the last row is reported only if the next row's
  call had read the lost one, and every other single damage always.
* Not runs, but visible in the models: a worker that fell back to
  `MockApprovalQueue` loses every ticket (`SubmitTicket` without `wired`), because
  `request_approval` there does not accept `expires_at` and the `TypeError` is
  swallowed; `expire_stale` has no caller; on a server ahead of UTC tickets live
  longer than `EXPIRY_HOURS`.

Visible in the models that were added, and not contradicted by any document, so that
no run states the opposite:

* *Startup.* Of workers that start together on an empty database one is wired, and the
  others stay in the fallback for their lifetime (`Insert` and `CreateTables` that
  `Abort`). Once requests are served, even the last may be kept out by a concurrent
  change (`SomeWorkerWired` is therefore about the time before). Readiness reports the
  audit channel as postgres whenever it has a session (`health.py:48`), also in such a
  worker.
* *Policies.* The table is not what is enforced: the engine reads the YAML file. Its
  `priority` is ignored there; file order decides. `toggle_policy` and
  `import_policies` ignore that `update_policy` may return None, so a rule that is
  deleted between their queries counts as updated, or makes the answer a 500.
  `validate_policy` is asked by create only: update and import take any decision.
* *Decisions.* A decision that does not exist is executed and counted as allowed by
  the simulation, although its result says `"executed": false`, and a dry run says it
  would not execute (`SimulationTrue` excepts it). A preview does not know `external`
  unless it is told (`policy_service.py:130`). An empty rule list, also of a truncated
  file that still parses, allows everything.
* *Tokens.* Two refreshes that have both read a token before either commits share it,
  and each gets a successor. A refresh that fails after its commit and before its answer
  (`auth_routes.py:200`) leaves its client with a revoked token and a successor it was never
  given: it has to log in again. A password change revokes no refresh token
  (`revoke_all_for_user` has no caller). A reset whose link is too old clears also a
  newer link that was stored in between.
* *Reports.* The end of a period is not used (`analytics_service.py:105`): a daily
  report counts everything since. Two generations may leave two rows, and the one that
  began first may overwrite the other. `data.generated_at` is taken after counting;
  `StampCovered` is about the column. A saved report answers 500 if the connection
  `_serialize_report` needs after the commit does not come.
* *Counts.* With `time_range=all` the total of blocked requests is 1
  (`analytics_repository.py:149`). A metric of an unknown decision is in the total of a
  summary and in none of its parts, so the total may exceed them for good. The dashboard counts successes after the total, so
  its rate may exceed 100 %, and does not count `executed_with_logging`. Raw metrics
  filter by decision after `LIMIT` (`monitoring_routes.py:248`).
* *Content.* A retrieval may generate what another is generating; explanations are
  stored under whatever execution id the client names, all ticket summaries under 0
  (`ai_routes.py:176`). A chat reports `block` for an action that was executed if
  something raises afterwards (`ai_routes.py:441`).
* *Pages.* `pages` comes from a count made before the search (`audit_service.py:124`);
  a client should go by full pages, as the one modelled here does.

## 6. Plan

Done: all modules of section 2, their runs, and proofs of every safety property, action
property and refinement that the runs check. What is left is to go beyond the runs:

1. The pool: no more connections are checked out than it has, for any endpoints; who
   waits holds at most one.
2. What a client of several components may rely on, from the theorems there are: the
   audit entry that `ExecutePipeline` writes in one step is the call that
   `AuditChainProofs` shows to have exactly one row.
3. An abstract specification of what a retrieval of content and a rotation of tokens
   promise, with `StoredContent` and `AuthTokens` shown to implement them.

## 7. What is not modelled, and why

* Formatting, logging, spans and Prometheus counters other than the gauge; readiness
  and liveness probes: no effect on other state.
* Single read-only queries: lists, exports, statistics of tickets, recent activity and
  raw metrics. What a row of theirs shows is what a table holds. The groups, averages
  and percentages of the analytics queries: `MetricReports` keeps which rows each is
  about and in which statement.
* What tools do to the outside world (a SQLite file, SMTP, files): a tool is a step
  that returns or raises and is counted. One thing worth knowing of them: a negative
  `record_count` reaches SQL as no limit at all (`database_tool.py:78`).
* Registration of accounts, roles, and the encoding of tokens; the prompts sent to
  Groq and the parsing of its answers.
* The frontend, migrations, seed scripts and deployment files.
