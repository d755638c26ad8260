# Orbit AI, specified

TLA+ specifications of Orbit AI, a CRM as a library (`src/packages/core`), with an HTTP API, an
SDK, a command line, an MCP server and integrations around it. Paths below are relative to
`src/packages`.

## The system

| part | state | operations | modelled in |
|---|---|---|---|
| schema engine, `core/src/schema-engine` | `schema_migrations` ledger, field definitions, locks | preview, apply, rollback, add/delete/rename/promote field | `SchemaMigration`, `MigrationRegister` |
| schema and bootstrap, `core/src/adapters/*/schema.ts`, `core/src/schema` | the database's tables, indexes, references, policies | `migrate()` at every start | `SchemaCatalog`, `SchemaBootstrap` |
| SQLite adapter, `core/src/adapters/sqlite` | one connection, `#transactionDepth` | `transaction`, `execute`, `query` | `SqliteConnection`, `SqliteTransactions`, `TransactionScope` |
| Postgres adapter, `core/src/adapters/postgres` | a connection pool | tenant transactions, advisory locks | `Gateway` (who holds which connection) |
| tables, `core/src/schema`, `core/src/repositories` | rows of one organization | insert, update of every column, delete | `CrmTables` |
| entity services, `core/src/entities` | none of their own | create, update, delete, attach, detach with checks | `CrmRules`, `CrmServices` |
| queries and search, `core/src/query`, `core/src/services` | none; a cursor is the caller's | pages of a list that may change between them | `ListWalks` |
| API middleware, `api/src/middleware` | limiter's and idempotency store's Maps, in the process | token bucket, replay of stored responses, tenant transaction | `HttpMutations`; `Gateway` for the whole chain |
| API routes, `api/src/routes`, `api/src/openapi` | none | one request, one operation of the registry | `ApiRoutes` |
| SDK, CLI, MCP, `sdk/src`, `cli/src`, `mcp/src` | retries left, answers to questions | programs of requests, over HTTP or directly | `Clients`, `Gateway`; the AutoPager in `ListWalks` |
| integrations, `integrations/src` | credentials, failure counters, handled events, page cursors | consent, refresh and revoke, Stripe events, polls | `OAuthTokens`, `StripeEvents`, `MailPolling` |
| generator, demo data, event bus, redaction | none between calls | | not modelled |

How they interact: a client (SDK, CLI, MCP, or anyone over HTTP) sends a request; the API's
middleware authenticates, opens a tenant transaction, limits, looks for a stored response and
calls the route; the route calls one service; a service checks its rules with repository
reads and writes through a repository; a repository runs one statement, in a transaction of
its own or in the one around it, on the adapter. In direct mode the SDK calls the services
without the API. Nothing in the code takes a lock except the schema engine (advisory locks
on Postgres, a Map in the process on SQLite). Everything is `async`: any other request may run at
every `await`, and several processes may share a database.

### What is hard, and what makes each part correct

* **Schema engine.** An apply awaits some fifteen times between its first look at the ledger
  and its last write; retries with idempotency keys, rollbacks and other processes come in
  between, and a process may die anywhere. Correct: one migration at a time on a target, a
  key or an operation in force at most once, a ledger that tells what was committed, an
  answer that tells what happened, every call answered.
* **Bootstrap.** Every start repeats every statement, over databases of any age, and may stop
  anywhere. Correct: it always ends with what the code declares, never opens a table, and
  leaves the ledger's history alone.
* **SQLite transactions.** One connection carries the statements of all requests, and a
  counter decides between `begin` and `savepoint`. Correct: a call that resolves has kept
  its writes, one that rejects has left nothing, the counter returns to zero.
* **Postgres pool.** A request holds a connection and needs others. Correct: with a pool that
  is large enough every request ends.
* **API.** A key seen before must give the stored response, while the window, the store's
  capacity, restarts and a failing commit all make it forget. Correct: a replay is of the
  same caller's same request, a retry does not act twice while the response is remembered,
  the limit holds.
* **Entity services.** Rules that relate records (a deal's stage and pipeline, an event's
  step and enrollment, a status and its date, one default pipeline) are kept by reads
  before writes. Correct: the rules hold when the calls do not overtake each other, and what
  may be lost when they do is known.
* **Pages.** A cursor is a row, looked up again in a list that has changed. Correct: a walk
  that ends shows each row once, or says that it cannot.
* **Clients and routes.** Two transports, four surfaces and a route table written by hand.
  Correct: both transports do the same, no path is open to a weaker scope, nothing is
  destroyed unasked, a client that is limited gives up.
* **OAuth, Stripe, polls.** Correct: a revoked connection comes back by consent or by a
  refresh that was under way only, an event that is remembered is not handled again, a cursor
  passes nothing that was not synced.

`PROJECT.json` lists these hazards at their lines.

## The modules, in the order of the plan

1. `SchemaMigration`, with `MigrationRegister` as what it promises; `SchemaMigrationProofs`.
2. `SqliteConnection`, extended by `SqliteTransactions`, with `TransactionScope` as what it promises; `SqliteTransactionsProofs`.
3. `HttpMutations`, over an instance of `SqliteConnection`; `HttpMutationsProofs`.
4. `CrmTables`, `CrmRules`, `CrmServices`, each extending the one before; `CrmServicesProofs`.
5. `ListWalks`; `ListWalksProofs`.
6. `SchemaCatalog`, extended by `SchemaBootstrap`.
7. `OAuthTokens`, `StripeEvents`, `MailPolling`, instantiated side by side by `MCIntegrations`; `IntegrationsProofs`.
8. `ApiRoutes`, extended by `Clients`, extended by `Gateway`; `GatewayProofs`.
9. `NaturalExtremes`: lemmas on the least and the greatest of a set of naturals, for the proofs.

All are written and checked. Modules named `MC...` hold the instances for TLC, modules named
`...Proofs` the theorems. `SchemaBootstrap` stays with TLC: its invariants are about folds over two concrete lists of statements, and what a fold
computes takes an induction over data that the provers cannot do.

Theorems are for all values of the constants, under the assumptions the modules name.
Liveness under fairness stays with TLC, as does everything about `ENABLED`; so do the
violations, which are about small instances by nature, and whatever the sections below do not
list under "Theorems". A module's `TypeOK` says what its variables range over; a run lists it
where a slip in the code would break it.

To repeat a run: `tlc -config MCCrmServices_safety.cfg MCCrmServices`; a proof:
`tlapm SchemaMigrationProofs.tla`. Runs named "violation" in `PROJECT.json` end with a trace on
purpose: each checks one sentence of the sources that the code does not keep.

## The schema migration engine

`SchemaMigration` models `OrbitSchemaEngine` (`core/src/schema-engine/engine.ts`) over the
ledger and the locks of `core/src/entities/schema-migrations/repository.ts`.

### State and actions

| model | code |
|---|---|
| `fields` | `custom_field_definitions`: which call's row holds a field name, or none |
| `status`, `createdAt`, `appliedAt`, `rolledBack` | the `schema_migrations` columns of the row a call created |
| `locks` | `lockRegistry` of the process, or advisory locks of database sessions (`LockScope`) |
| `pc`, `req`, `out`, `replayOf` | the await a call is suspended at, its request, what it returned or threw |
| `clock` | the millisecond clock read for `created_at` and `applied_at` |
| `done`, `undone` | history: whose forward, and whose reverse, operation was committed |

One action is one stretch of a handler between two awaits. `Submit` to `UnlockKey` are the
awaits of `apply` in source order: `Preview`, `Find` (idempotent lookup), `Check`
(confirmation, preconditions, record), `LockKey` (the outer lock of keyed applies),
`LockTarget`, `Refind` and `Recheck` (the same checks inside the lock), `Create`,
`MarkRunning`, `Execute` (one transaction), `MarkApplied` or `MarkFailed`, `UnlockTarget`,
`UnlockKey`. `rollback` is `RollbackCheck`, `RollbackLock`, `RollbackExecute`,
`RollbackMark` or `RollbackRevert`; its preconditions are read before the lock only, as in
the code. `addField` writes metadata with neither ledger row nor lock (`InsertField`).
`deleteField` submits an apply. `Crash` ends all calls of a process; `LoseLock` drops the
session of an advisory lock. Failing writes are disjuncts of the actions that write.

Abstracted: the attributes of a field beyond its name and entity type, previews as text,
checksums (identified with the operation they hash), ids, and the data in field values.

### Runs

All runs use two field names of one entity type and one key, with locks in the database.
Three calls, each made at most once, are enough for every pair to race and for a third to
come after; the liveness run has two, which is enough for every wait and every refusal.

| run | question | size |
|---|---|---|
| `mig_mixed` | all requests, all interleavings of three calls, failing transactions, crashes between any two steps; the engine implements `MigrationRegister` | 1.5 M states |
| `mig_ends` | what callers are told, and liveness under `FairSpec`, with failing transactions, failing ledger writes and lost lock sessions; two calls on one field name, with and without a key, and rollbacks | 205 k |
| `mig_two_rollbacks` | a statement of the sources that the engine does not satisfy; the finding of `PROJECT.json` quotes it | |

Fairness (`WF_vars(Step(c))` for each call) says that an awaited promise settles: a call that
was made keeps moving unless its process dies. The code never waits for a lock (a try-lock
throws `MIGRATION_CONFLICT`), so a call is always enabled while it is in flight.

### What the runs show, and what they do not

With locks that are not lost and ledger writes that succeed, one call executes on a target at a
time, a key and an operation are in force at most once (which is what `MigrationRegister` says), and the
ledger tells what was committed. In force is a row that reads `applied` and has no `rolled_back_at`:
with this mapping what was rolled back stays down. The code itself reads the status
alone in two places, `findExistingApplyMigration` (`engine.ts:660`) and the precondition of a rollback
(`repository.ts:331`). A second rollback that fails after the first has succeeded writes `applied` into a row that
is rolled back (the trace of `mig_two_rollbacks`, two steps on); both places then take it for applied, and an apply
of the same operation is answered from it and does nothing. The register does not show this. A crash
leaves a row `running`, and its operation done or not: nothing in the code settles it, and
a later call is only warned of it.

`mig_mixed` has no failing ledger writes, because `FailedIsNotDone` does not survive them: when
the write of `applied` fails after the commit, the row reads `failed` although the field exists.
It has no lost locks, because `OneExecutorPerTarget` and the register need them. Both faults are
in `mig_ends`: every answer is still true (`AnswersAreTrue`, `ReplayNamesTwin`), no call is stuck and a row stays `running` only if its caller was told that
the ledger could not be written.

### Theorems (`SchemaMigrationProofs`)

`TypeInv` strengthens `TypeOK` with `RequestsMatch`: a call at a step of a handler carries a
request of that handler, and a rollback past its check names an existing row. Without it no
step of a handler keeps `TypeOK`, because its request's fields could be missing.

* `TypeCorrect`: `TypeOK` always, for all constants.
* `MutualExclusion`, `KeysSerialized`: from `LockInv`, which says that the owner of a critical
  section has its lock in `locks` and that contending owners of one lock are the same call.
  They assume `"lockLoss" \notin Faults`.
* `AppliedWasDone`: from `DoneInv`, which adds that a call about to write `applied`, and the row of
  a rollback past its check, are committed. No assumption: it survives crashes and lost locks.
* `FailedWasNotDone`: from `FailInv`; assumes `"status" \notin Faults`.
* `KeyInForceOnce`: from `KeyInv`: rows of one key have one operation (`SameOperation`), a keyed
  apply past its locked recheck sees no other live row of its key (`KeyFree`), and the row of a
  rollback is applied or already marked (`RollbackMarked`), so that the catch block's write
  of `applied` revives nothing. It assumes database locks that are not lost.

* `ReplaysNameTwins`: from `ReplayInv`: the row a call will answer with was made for the same key or
  by the same operation. `AnswersTrue`: from `AnswerInv`: what a call has been told so far is true of
  `done` and `undone`. Neither has an assumption; both rest on `Monotone`: no step
  un-makes a call, its request, a row, or what was done and undone.
* `RegisterImplemented`: `Spec` implements `MigrationRegister`. The rows in force (`applied`) map to the
  register's operations. From `RegisterInv`: what is marked `applied` was applied by its own call, an operation
  about to enter is free, and an operation has one live row. Every step is then quiet, enters or retires one
  operation: a stutter, `Enter` or `Leave` of the register. It assumes database locks that are not lost.

`KeysSerialized` is about keyed applies of one key (`KeyedAppliesSerialized`), which no run lists: `KeyInForceOnce` is what
it is for. Only liveness (`CallsReturn`, `RunningSettles`) is model-checked without a proof.

## SqliteConnection and SqliteTransactions: one connection, one depth counter

`core/src/adapters/sqlite/database.ts`. `SqliteConnection` is SQLite's side: what `begin`, `savepoint`,
`release`, `rollback` and a writing statement do to the file, to what the connection sees and to the stack of
open savepoints. `SqliteTransactions` extends it with the code's side, and `HttpMutations` instantiates it
for the requests of the API. The state is the file (`disk`), what the
connection sees (`db`), SQLite's transaction stack (`stack`), `#transactionDepth`
(`depth`) and the `transaction()` calls not yet settled (`open`). A call chain is a
request, or one branch of a `Promise.all`; an action is what runs between two awaits.

| code | action |
|---|---|
| `transaction`: `begin` or `savepoint sp_n`, depth + 1 | `Open`; `OpenRefused` when `begin` throws |
| `execute` / `query` | `Execute` |
| the callback resolves: `commit` or `release` | `Resolve`; `ResolveLost` when neither it nor the rollback finds its transaction |
| the callback throws: `rollback` or `rollback to` | `Reject`; `RejectLost` when the rollback throws |
| `finally`: depth - 1 | part of each of the four |
| process death | `Crash` |

`Reject` also stands for a `commit` refused while the transaction stays open (another
process holds the file). `MaxStack` bounds SQLite's stack: `rollback to` keeps its
entry, so repeated nested failures would grow it without end.

`overlapped` is a history variable: it becomes true when a chain works while a call of
another is in flight. `sqlite_safety` lets two chains run in any interleaving. As long as
they take turns, everything a caller of `transaction` may expect holds, and every step is a
step of `TransactionScope`, the abstract nested scopes (`ImplementsScope`). In every
interleaving the depth counter stays balanced; `DepthIsBalanced` proves it for all instances.

`OutcomeIsAsTold` says what a caller is told: what resolved is in the file, what rejected left
nothing, and a call rejects for its own callback or its own commit only. It says so of chains that
take turns only. `ThrownErrorsRollBack`, which no run lists (see "Disagreements"), shows what overlapping breaks, against the contract in
`core/src/adapters/interface.ts:82-85` ("Roll back on any thrown error"): the outer call commits, the
inner one's callback throws, its savepoint is gone, and its write is in the file. The other
traces are: a call whose callback resolved rejects, because another chain's commit or release took its
savepoint away; a resolved call's write is lost. Overlap happens in the shipped program: every
repository call, and every API request through the tenant middleware, opens a transaction on the
shared connection, and the merged search opens six side by side. `HttpMutations` has the consequences
for API requests.

### Theorems (`SqliteTransactionsProofs`)

For any chains, any number of calls and any stack bound; nothing is assumed beyond the bounds'
types.

* `DepthIsBalanced`: from `Balanced`, which says the open calls form a list as long as the counter: every
  way a call ends removes one entry and lowers the counter once. It needs no typing of the entries.
* `TypesAlwaysHold`: `TypeOK` with `Balanced` is inductive.
* `CallersAreToldTheTruth`: `OutcomeIsAsTold`. The inductive invariant `TurnInv` speaks only of
  behaviours without overlap and has three parts. `Turns`: the calls in flight are of one chain, the one of level i at
  place i. `Marked`: the names on SQLite's stack do not decrease, every level has its entry, and
  the newest entry of a level saved the file with the writes of the calls around it; without it nothing is known
  of what `rollback to` brings back. `Books`: what the connection sees is the file with the writes of the calls
  in flight, their writes are disjoint, and nothing is kept and dropped at once.
* `SavepointsImplementScopes`: while one chain is alone, its scopes are the calls in flight in their order;
  each action is `Begin`, `Put`, `Succeed`, `Fail` or a stutter of `TransactionScope`.

## HttpMutations: a mutating request through the API

`api/src/create-api.ts` and `api/src/middleware/`. The state is the limiter's Map
(`buckets`) and the idempotency store's Map (`store`), both as sequences in insertion order
because both evict the entry they list first, the requests' suspension points (`pc`), and
the records their handlers made.

| code | action |
|---|---|
| the tenant transaction opens; `rateLimitMiddleware`: refill, evict, take a token, refuse | `Arrive` |
| `begin` throws in the tenant middleware | `ArriveRefused` |
| `evictExpired`, `get`, compare, replay or 409 | `Lookup` |
| `next()`: the route handler, its errors turned into responses | `Handle` |
| `set` | `Save` |
| the tenant transaction commits, or is released into the one around it | `Commit` |
| its commit is refused and it is rolled back | `CommitFails` |
| neither its release nor its rollback finds the savepoint | `CommitLost` |
| a new process | `Restart` |

Awaits that stand between a shared access and private work (reading and comparing the body)
are no steps of their own. A handler's effect is one record, made or not. The clock has two values,
windows and TTL are one tick and zero ticks: both boundaries, "exactly at" and "past", occur. One
store entry and three requests make the store evict between a request and its retry.

**The two databases.** With `SharedTx = FALSE` (Postgres) a repository has its own session, and a
record is durable when the handler made it. With `SharedTx = TRUE` (SQLite) all requests use the
connection of `SqliteConnection`: the first tenant transaction is `begin`, one that opens while
another is in flight is a savepoint of it, and one depth counter names the levels. `mixed` keeps the
requests whose transaction was ever open together with another's. What happens to those is what
`SqliteTransactions` says of overlapping calls, and reaches the answers:

* a request released into another's transaction is answered, and its success stored, before
  anything is in the file. The other's failed commit, or a restart, takes its record back; a retry is
  still told that it exists. `AnsweredRecordsStay` has a trace of this (see "Disagreements"), against
  `core/src/adapters/interface.ts:10-11`.
* when the outer transaction commits first, the inner request's record is committed with it, and
  the inner request gets a 500 because its savepoint is gone (`CommitLost`).

A transaction that a handler opens inside its own is opened and closed within `Handle`; what a failing
handler may leave on the stack (`rollback to` keeps the savepoint) is its `Undo`. A comment in
`demo-seed/src/reset.test.ts:22-23` knows of the matter ("SQLite transactions in the adapter are not
concurrency-safe under Promise.all"); the API's own requests are as concurrent.

`http_safety` runs on SQLite's connection, where requests disturb each other most; that the same holds
with a session for each request, as on Postgres, is what the theorems say. All three requests may meet on the connection
as long as the clock stands; in behaviours in which it ticks at most two of them do (`FewMeet`, a constraint of the run: 2.1 M states). It shows that a retry sent after the answer does not run the handler again
while the response should be remembered (`Remembered` names every excuse: not stored, too old,
another process, crowded out), and that a window holds at most `Limit` admitted requests.
It shows that a replay repeats the response of a request of the same
organization, key and body, whose handler ran; and that a replayed success names a record in the
database, unless the transaction of the request that made it failed, or was `mixed`. The
excuse is as wide as the disagreement above: of records made in overlapping transactions the property says nothing.
`http_race` shows that two requests with one key in flight together both create a record.

### Theorems (`HttpMutationsProofs`)

For any requests, callers, keys, capacities and windows; `ApiKey` is assumed finite where buckets are counted.

* `MiddlewareTyped`: `TypeOK`.
* `ReplaysAreTrue`: `ReplayIsTrue` from `ReplayInv`: what is stored is the response its request was given
  (`StoredRight`), what was answered is what was stored or made (`AnsweredRight`), a request is where
  its fields say it is (`InPlace`), and `ConnInv`: the depth counter is the number of
  requests in flight, every entry of the stack saved at least what the file holds, and a transaction that
  met no other is at level 1 of a stack that is not empty, so that its commit reaches the file.
  Without `ConnInv` nothing is known of what a rollback brings back.
* `LimiterHolds`: `WindowHoldsLimit` from `WindowInv`: a bucket's refill is not in the future, every admitted request's key
  has its bucket, and what the bucket admitted in its window plus its tokens is at most `Limit`. The property itself supposes a map
  with room for every key (`RoomForOne` uses that): an evicted bucket starts full, see the hazards.
* `AnswersOnce`: a retry does not act twice while its response is remembered. `OnceInv` keeps a log of the stores in
  their order, so that "remembered" is a fact about what was stored since.

`KeyCreatesOnce` belongs to the violation run only.

Error responses are stored and replayed like others (`Handle`'s second disjunct): a retry of
a retryable error under the same key, which is what the SDK's `retry` sends, gets the stored
error back until the entry expires.

## CrmTables, CrmRules, CrmServices: the entity services

`core/src/entities/*/service.ts` over their repositories. A service reads rows, checks them
and writes, with an await at every statement; two requests about the same organization
interleave there. The question is which rules survive that.

* `CrmTables`: rows as functions from the columns a rule looks at, references, unique
  indexes, and what a database accepts (`Accepts`). The two dialects differ: Postgres
  declares every reference, SQLite only those of the tables added by its later statements.
* `CrmRules`: what a service decides from the row it read and the input: status
  transitions, resolved dates, state assertions, which references it looks up, the deal graph.
* `CrmServices`: the calls. `call[c]` is one record: the request, the step it is at, the
  references left to look up, the patch, what was read.

| code | action or operator |
|---|---|
| a method's awaits, in source order | `Plan`, one entry per await: `PaymentPlan`, `StepPlan`, ...; a lookup or a guard that does not apply is passed over (`PassRelations`, `PassEvents`) |
| parse the input; the decisions of a create | `Submit` |
| `repository.get`, transition and state assertions, resolved date | `Read` |
| `assert...Relations`, one lookup per reference | `CheckRelation`, `CheckDealStage`, `CheckEventRelation` |
| `assertStepHistoryMutable`, `assertEnrollmentHistoryMutable` | `CheckHistory` |
| `assertSequenceDeleteAllowed` | `CheckChildren` |
| `assertUnique...` | `CheckUnique` |
| `demoteOtherDefaults`: list, then get and update each | `ListDefaults`, `Select`, `Write` |
| `repository.update`, `delete`: select | `Select` |
| insert, update of every column, delete | `Write`, `Delete` |

Between two steps of a call any other call takes its own. That is what READ COMMITTED gives
the transactions of these services on Postgres (no statement locks what it reads), and what
calls sharing the one SQLite connection see; what an overlapped SQLite transaction may roll
back besides is the subject of `SqliteTransactions`. Every one of these transactions ends
with its only write, so its commit and its write are one step. The exception is the switch of
the default pipeline, whose writes become visible together; the pipelines it demotes are
selected in one step, one after the other in the code.

Left out: several organizations (every statement carries `organization_id = ctx.orgId`),
columns no modelled rule looks at with the unique indexes over them, `exitReason`, the wording
and precedence of errors, reads that change nothing.

### History variables

`born` keeps ids fresh. `stale` holds the calls one of whose reads (`watched`) was overtaken by another
call's write, and `raced` the records such a call then wrote. The code has no defence against an
overtaken read, so the passing properties except it: `StampFitsStatus` speaks of the records no such
write touched, the four action properties of the steps that are not themselves such a write
(`WrittenOvertaken`, `DefaultSurvives`). They say that calls in sequence, or that overlap without
touching what the other read, keep the rules, and that an overtaken write is the only thing that
breaks them. What happens without the exception is under "Runs".

### Runs

`crm_safety` explores three calls over eleven small organizations (`Worlds`): deals between
two pipelines, payments, contracts with tasks and imports, contacts with companies and tags,
sequences with an enrollment and events (each with the foreign keys of either dialect), and
the switch of the default pipeline. Each call is made at most once and the calls are
interchangeable (`Symmetry`: no definition tells one from another). Three calls let two race
and a third meet what they left; every status machine is walked from two of its states.
115 k states.

* `DealPairFits`: a write that gives a deal a stage and a pipeline gives it a stage that is of that
  pipeline when the deal is written. A stage that moves afterwards leaves its deals with the
  pipeline it had; nothing in the code updates them, and the property says nothing of them.
* `EventFitsItsStep`: an event's step and its enrollment are of one sequence, and stay so.
* `DefaultSurvives`: a switch, a rename or a demotion that fails does not lose the default, when no other
  write overtook its reads. Two switches that overlap, or a switch and a rename, may lose it: the
  rename writes every column from the row it selected.

Three comments of the code claim, of every interleaving, that sharing a transaction with the write closes the
gap between check and write; at READ COMMITTED, with reads that lock nothing, it does not.

* `crm_payments`, `NoForbiddenTransition`: two updates of an unpaid payment validate against it,
  one writes `paid`, the other `canceled` over it. This is the violation run.
* `UpdateKeepsGraph`: a stage is moved or deleted between the lookup of a deal's update and its write, which stores a
  stage and a pipeline that do not belong together (`deals/service.ts:199-206`).
* `HistoryGuardHolds`: an event arrives between the look at a step's history and the step's move, which leaves the
  event's step in another sequence than its enrollment (`sequence-steps/service.ts:156-162`).

The last two are no runs: see "Disagreements" for how to have their traces. `DealPairFits` and `EventFitsItsStep` say
that nothing but such an overtaken write does this.

### Proofs

`CrmServicesProofs` proves all five properties of `crm_safety`, and `TypeOK`, for any set of
calls, any organizations and any requests. What it assumes of the constants:

* `TableAssumption`, `ValueAssumption`: an id tells its table, NULL is neither an id nor a status,
  a date is not NULL;
* `WorldAssumption`: the organizations explored start with rows that the database accepts and the
  rules admit (a date fits its status, an event's references are into their tables), under the
  foreign keys of one of the two dialects; a request is one its service offers
  (`Plan`), gives columns of its table, and an event names its enrollment (a NOT NULL column).

The properties alone are not inductive: they say nothing of what a call is about to write. `Inv`
adds, for each call at the step where it stands (`CallHeld`):

* `CallShape`: it is on the route of its method and has what the next step needs;
* `DealShape`, `DealHeld`: its patch has both columns of the pair or neither and, while nothing has overtaken
  it, the stage it writes is still to be looked up or was found in the pipeline it writes;
* `FreshHeld`: what a create writes is what the rules admitted;
* `RowHeld`, while nothing has overtaken it: its row is as it was read, so the transition, the date and
  the patch decided from it hold for the row it overwrites;
* `HistoryHeld`, likewise: a step or an enrollment that is moved still has no events;
* `EventFound`, `EventHeld`: an event's enrollment and step were found in their tables and, while
  nothing has overtaken it, are of one sequence;

and that ids in use and ids to be created are distinct (`BirthsInv`), that rows are typed and
their references hold (`RowsInv`). `RoutesFit` proves once, for every plan, the facts about
order that the steps rest on: an update reads its row before any guard, selects it before it
writes, and writes only after its history guard. A step that writes nothing changes one call
(`QuietStep`); a write changes its own row and the pipelines it demotes (`Effect`), and every other
call either keeps what it holds or is overtaken (`OthersHold`, from `ReadStands` and `EventsStand`).
The four action properties follow from `Inv` and `OnlyWritesChange`: a write that nothing has overtaken
rests on rows that are as they were read (`NewPair`, `NewEvent`, `MovedHasNoEvents`, `NewRowFitsStatus`).

TLC checked each part of `Inv` on the instances of `crm_safety` before it was proved. `crm_payments` stays
with TLC: it is a counterexample.

## ListWalks: pages of a list that changes

`core/src/services/service-helpers.ts` (`runArrayQuery`), `core/src/query`,
`core/src/services/search-service.ts` and `sdk/src/pagination.ts`. A list is computed from all
rows of the organization, sorted, and cut after the row the cursor names.

| code | model |
|---|---|
| sort keys and the tie broken by id | `ContactKey`, `DealKey`, `Precedes` |
| cursor, `findIndex`, page | `Finds`, `After`, `CursorOf`, `Page` |
| `AutoPager`: ask for the next page until there is none | `NextPage` |
| merged search: read every list to its end, side by side | `Search`, `FetchPage`, `FetchState` |
| ... sort what was read by `updated_at`, cut at the cursor | `Answer` |
| any other request: create, update, delete | `Write` |

Contacts stand for the lists whose order never changes (by `created_at`), deals for those that an
update reorders. A client walks one list or a search over one or both. Two writes may come
anywhere between pages; pages of one row and limits of two and three rows stand for 100
and 5000, so that every list is longer than a page and some are longer than a limit.

`list_walks`: a walk that finishes is exact (`FinishedWalkIsExact`): in creation order for every
row that was there all the time, in update order for the rows nobody updated, and only while
the rows that served as cursors were left alone. An update of the cursor's row moves the
place where the next page starts, and this exception is the one the code has. A search above
its limits is refused and never passes for complete. `WalkEnds` needs `WF_vars(Reading)`: a
client that walks asks for the next page, and a request is answered. Writes have no fairness.

### Theorem (`ListWalksProofs`)

`WalksAreExact`: `FinishedWalkIsExact` for any rows, pages, limits and number of writes. `WalkAssumption` says that
ids of contacts and deals differ, and that moments and limits are positive numbers. The argument: sorting is a
strict total order of entries (`Precedes`), so every nonempty set of rows has a first and a last one; a
page is the rows behind the cursor up to the page's last one (`PageIs`). `WalkInv` then says of every firm row (one
that was kept, in creation order; one left alone while the cursors' rows were left alone, in update order) that
it was shown once if the cursor has passed its place and not at all otherwise, and the same of each list a search
has read. A page moves the cursor over exactly what it shows (`PageShows`), and a write moves no firm
row and no cursor's row. `WalkEnds`, a liveness property, stays with TLC.

## SchemaCatalog and SchemaBootstrap: migrate() at every start

`SchemaCatalog` writes down, as sets and sequences, what `core/src/schema/tables.ts` and
`relations.ts` declare and the statements of `core/src/adapters/postgres/schema.ts` and
`sqlite/schema.ts`, in order: the objects each needs and makes, and whether it may be
repeated. `SchemaBootstrap` runs them.

| code | action |
|---|---|
| `migrate()` is called | `Start` |
| a slice (Postgres: one transaction), or a statement (SQLite, and row-level security) | `Step` |
| process death | `Crash` |
| the schema engine's writes to the ledger | `EngineMoves` |

The database is empty or has the objects of the version before the ledger's status columns,
with rows that were applied or not, and maybe two default pipelines in one organization,
which the new unique index refuses. Three runs of `migrate()`, one crash anywhere and two ledger
rows: an interrupted upgrade, its repair, and a run over the repaired database.

`boot`: `migrate()` throws only where the data contradicts an index (`BootstrapIsRepeatable`);
once it has returned the database has every table, and on Postgres every reference, unique
index, relation and policy the code declares (`CompletedMatchesSchema`); a later run, which
replaces the policies outside of a transaction, never opens a table, because row-level security
without a policy denies (`IsolationNeverOpens`); and the upgrade of the ledger fills what was
null and changes nothing that was decided (`LedgerKeepsItsHistory`), also with an engine at
work in another process.

`CompletedMatchesSchema` is stated for Postgres where it speaks of indexes: on SQLite
`contacts_org_email_idx`, `memberships_org_user_idx`, `companies_org_domain_idx` and the indexes over names and
orders of pipelines and stages (`schema/tables.ts:111` ff.) are declared and never created.
Dropping the guard gives the trace.

## OAuthTokens, StripeEvents, MailPolling: the integrations

Three state machines that share nothing; `MCIntegrations` checks one at a time (`world`).

**`OAuthTokens`** (`integrations/src/oauth.ts`, `credentials.ts`). Per slot of a user the stored
credentials; a call is at the await it is suspended at.

| code | action |
|---|---|
| `exchangeCode`, then save | `Exchange`, `SaveConsent` |
| `getValidAccessToken`: read, refresh at the provider, save, count the success | `Get`, `Refresh`, `SaveRefreshed`, `RecordSuccess` |
| `revokeToken`: read, revoke at the provider if there is anything to revoke, delete | `Revoke`, `RevokeAtProvider`, `DeleteCredentials` |
| the margin before expiry is reached | `Age` |

The two stores differ in the slot that "no user" means; the table's may fail. A deleted
connection returns only by consent or by a refresh that read its credentials before the deletion
(`ReturnsOnlyByConsent`); a connection is disabled exactly after `DisableAt` failures in a row
(`DisabledIsEarned`; two for the code's five: the counter's steps are the same).

**`StripeEvents`** (`stripe/webhooks.ts`, `idempotency.ts`). `Deliver` looks the event up, `Finish` is what
follows the awaited session or the table's answer. `HandledIsRemembered`: an event is handled again
only if two deliveries overlapped, the table failed, or `MaxProcessedIds` others were recorded
since. Five deliveries of three events over a memory of two: an event is forgotten, and one that
is remembered comes again. Deliveries that overlap, or that meet a failing table, are handled twice: the property
excepts them.

**`MailPolling`** (`gmail/polling.ts`, `google-calendar/polling.ts`, `shared/contacts.ts`). `StartPoll`, `ListPage`, `FindContact`,
`CreateContact`, `LeavePage` are the awaits of a poll, `TimeUp` the time bound, which each loop looks
at. `CursorPassesNothing` for Gmail: whatever interrupts a poll, every message before the cursor
has been returned. `AddContact`, `UpdateContact` and `DeleteContact` are the contact service of the API
(`core/src/entities/contacts/service.ts`), which stores an address as it is written; there may be such contacts before the first
poll, and the unique index of Postgres is on what is stored. `DuplicateNeedsOverlap`: a poll makes a contact for a person
who has one only where another call, of the other poller or of the service, made that one since the poll looked, or where
every contact of that person is stored in a form that no lookup asks for (capitals). The second case is what
`MatchesNormalized` would rule out (see "Disagreements"): with a contact `Ann@X`, a mail of hers makes a contact `ann@x`, with or without the index.
What the service does by itself (it looks for no duplicates) is outside the property. A mailbox of three items and a calendar of
one, three spellings of two people, pages of up to two items or one more (the tests answer more
than was asked for), two polls each, at most one contact of each spelling from the service (`MaxContacts`).

### Theorems (`IntegrationsProofs`)

For any users, calls, events, mailboxes, page sizes and bounds.

* `DisablingIsEarned`, `DeletedStaysDeleted`: the properties of `OAuthTokens`, from its types with `Counted` (the counter
  is the failures since the last success), `Stored` (a deleted slot holds nothing)
  and `Carries` (a call that will save read its credentials before or after the deletion it is excused by).
* `HandledStaysRemembered`: from `Remembers` (the newest `MaxProcessedIds` handled events are in the memory, in order)
  and `Passed` (a delivery that was let through overlapped, or met a failing table, or was forgotten).
* `CursorKeepsUp`: from `CursorInv`: what lies before the token of the page being worked off, and before the place in it,
  was returned. `DuplicatesNeedOverlap`: from `ContactInv`: where a poll is about to create a contact although
  there is one with the address it looked for, that one came after it had looked. Assumed: `PollAddresses`, that every spelling of an address
  normalizes to the person's one, which is what `email.toLowerCase().trim()` in `shared/contacts.ts` does with the
  spellings of one address.

None of the three has fairness: nothing here must happen by itself, a poll or a delivery is
started from outside.

## ApiRoutes, Clients, Gateway: from a command to the registry

* `ApiRoutes`: the route table of `api/src/create-api.ts` and `routes/*.ts` as sets of records (method, path,
  scopes, operation) in the order they are registered, the operations of the service registry
  (`core/src/services/index.ts`), the dispatch of `sdk/src/transport/direct-transport.ts`
  (`DirectServes`), and the operations the OpenAPI document lists (`Documented`).
* `Clients`: the requests of every command (`cli/src/commands`), tool (`mcp/src/tools`) and SDK
  method, in the order they are sent, with what is asked of the user before each.
* `Gateway`: callers that run these programs over one pool of connections.

| code | action |
|---|---|
| a command, tool or SDK call begins; the next request of it | `Start`, `Continue` |
| `confirm`, `--yes` | `Ask` |
| the transport | `Send` |
| `retry` in `sdk/src/retries.ts` | `Retry` |
| `authMiddleware`, `tenantContextMiddleware`, `rateLimit` | `Authenticate`, `OpenTenant`, `RateLimit` |
| routing, scopes, the engine's confirmation | `Dispatch` |
| `pool.connect` of a repository, a lock, a ledger write | `TakeConnection` |
| an error, the answer; connections go back | `Fail`, `Finish` |

`caller[c]` is one record: where the caller is, what is left to do, what it may do, what the user
agreed to, and how many connections its request holds. `Peak` is how many connections an
operation nests, each taken while the ones before are held, from the transactions and locks in the code. What runs side by
side counts once: `search` opens six lists at the same time (`search-service.ts:164`), and each takes one connection, needs
no second, and gives it back when its page is read, whatever the others do. `TypeOK` and `ConnectionsAreKept`
are about the nested connections; how many of the six lists have one at a time is not modelled.

`gateway` lets one caller start every program of every surface, and every route with a full, a
narrow and an invalid key, while the other contends with a migration under an idempotency
key or a plain read.

* `TransportsAgree`: an operation reached over HTTP is the one the direct transport reaches.
* `ScopesCoverWhatIsDone`: no path leads to an operation with less than its scope.
* `OfferedRequestsAreServed`: no command and no documented request falls into the void.
* `NothingDestroyedUnasked`: whoever destroys was asked or confirmed beforehand.
* `TypeOK`: no path of a request loses or doubles one of its nested connections.
* `SomeHolderCanProceed`, `RequestsEnd`: with the pool of seven nobody waits for ever.

The pool. A migration under a key holds four connections at its peak (tenant context, key lock,
target lock, ledger). Two callers of peak four need seven: the sum of what each may hold
while it still waits, three and three, and one more. `PoolSize = 4` in `MCGateway.cfg` gives the trace of a
migration and one other request waiting for each other for good, and the pool has no time limit;
`cli/README.md:101` and `sdk/README.md:171` recommend "`max: 4` or higher".

### Theorems (`GatewayProofs`)

For any callers, any menu of programs that `ProgramsAssumption` allows, and any pool:

* `ConnectionsAreKept`: `TypeOK`: a request holds connections between its admission and its answer only, and those
  that are free and those that are held always make up the pool. `PoolInv` says how many each holds: none, the one of its tenant
  context, or between that one and what its operation needs.
* `PoolNeverDeadlocks`: `SomeHolderCanProceed` for every finite number n of callers and every pool of
  more than 3n connections. An operation needs four at most (`NeedsAtMostFour`); whoever waits holds three at
  most; so callers that all wait hold 3n together and leave one free.

* `NothingIsDestroyedUnasked`, `ScopesCover`, `TransportsAgreeAlways`, `OfferedIsServed`: the four invariants
  about routes and programs, by the name of what they state. TLC sends one request per route, with one value for each
  parameter, and tries three keys; the theorems are for every request, with any words as the segments of a path, and for a
  key with any set of scopes.

The route table, the services and the programs of the clients are the code's own and stay concrete.
`ProgramsAssumption` says what a caller may start: the command line one of `CliPrograms`, `orbit seed` one of
`SeedCommand`, and every other surface any nonempty sequence of `Requests`. A member of
`Requests` has a first segment and no segment that stands for an absent one (`Absent`, what JavaScript reads past the end
of an array). It also leaves out four-segment paths under `schema` whose third segment is
`preview` or `apply`: an id there is `migration_` and a ULID. The proof of agreement needs that: `POST
/schema/migrations/preview/rollback` is a rollback for the server and a preview for the direct transport, whose test of the third segment
(`direct-transport.ts:263`) comes first and does not look at the length.

The inductive invariant is `ProgramInv`, which TLC checked on the instance of `gateway` before it was proved. None of the four
is inductive: what a request does while it is served was decided when it was dispatched, by a program
started earlier, after a question asked in between. For each caller, `ProgramInv` therefore says

* `Programmed`: what is left of a command's program consists of requests of that command line, and
  still asks before it deletes a field, unless the user has agreed (`AsksFirst`);
* that a request on its way is one whose question, if it had one, was answered;
* `Outcome`: what the request does is nothing yet, or what `Served` says of it, and while it is being executed it
  is neither a refusal nor one the engine would stop for want of a confirmation.

The rest are lemmas about the tables: `KeysCoverWhatIsServed` (scopes, route by route),
`TransportsAgreeOn` (every route against the dispatch), `DocumentedAreRoutes` and `CliRequestsAreServed` (what is documented or sent
has a route), `CliProgramsAreTame` (every command asks first).

`SomeHolderCanProceed` is the safety part of `RequestsEnd`; that programs end is liveness and stays with TLC.

Fairness is `SF_vars(Progress(c))` for each caller: a program that was started goes on, and the pool
(`pg`, outside of `src/`) serves its waiters in the order they came, so that a request that could
again and again take a connection gets one. A question is answered, by the user or by the missing
terminal. `Start` has no fairness. `MaxRetries` is one:
once limited, once retried, then given up.

## Disagreements that have no run

While modelling, these places were met where the code does something else than a document, a
comment or a sibling says. Those that a run shows are findings in `PROJECT.json`; the others
are listed for whoever changes the code. The first five have a definition of their own that says what is claimed:
listed as a PROPERTY in the configuration named, it makes TLC print the trace.

* `UpdateKeepsGraph`, `MCCrmServices_safety.cfg`: `deals/service.ts:199-206` says that the update of a deal reads, validates and writes
  "inside one transaction using REBOUND repos so a concurrent stage move or relation delete cannot invalidate the
  validation between read and write". The transaction locks nothing it reads, and on SQLite calls interleave on one
  connection: it can.
* `HistoryGuardHolds`, `MCCrmServices_safety.cfg`: `sequence-steps/service.ts:156-162` says that without the rebound repository "a concurrent event
  insert could still slip between the history guard and the update". With it, it can too. So it can at
  `sequence-enrollments/service.ts:296`; a delete that an event overtakes (`sequence-steps/service.ts:201`) fails on the event's foreign key.
* `AnsweredRecordsStay`, `MCHttpMutations_safety.cfg`: `adapters/interface.ts:10-11` says of `transaction` "Implementors must wrap the callback in a real
  transaction boundary". On SQLite that of `withTenantContext` is a savepoint when another request's transaction is open
  (`sqlite/adapter.ts:114`, `database.ts:27-46`): a request that was answered with success, its response stored for
  replay, loses its record to the other's failed commit or to a restart.
* `ThrownErrorsRollBack`, `MCSqliteTransactions_safety.cfg`: `adapters/interface.ts:82-85` says of a transaction's scope "Roll back on any thrown error". Two transactions overlap
  on the connection, the outer one ends, the inner one's callback throws, its `rollback to` finds no savepoint, and its
  write stays.
* `MatchesNormalized`, `MCIntegrations.cfg`: `shared/contacts.ts:19-20` gives as the first rule of deduplication "Exact normalized email match (within
  org)". Only the address that is looked for is normalized; the contact service stores it as written
  (`contacts/service.ts:45`, `:81`) and the unique index is on what is stored, so a contact with capitals in its
  address is never matched, and a poll makes a second contact of the person, also on Postgres.
* `engine.ts:661`: an apply without a key is answered from any applied row of the same checksum. Delete f,
  add f (no ledger row), delete f again: the second delete reports success and leaves the field.
* `repository.ts:344`: a migration may become applied between a rollback's check for newer ones and its lock.
* `engine.ts:652`: the lookup by key reads the newest row only, so a retry may be told that its key was used
  with other operations when a failed attempt came after the one that was applied.
* `repository.ts:166`: two processes on one SQLite file each have their own lock registry.
* `search-service.ts:164`: the six lists of a merged search open transactions side by side; on SQLite they are
  savepoints of each other, and a call whose callback resolved may reject.
* `google-calendar/polling.ts:86`: a poll out of time takes the next page's token, and the rest of the page is never
  polled; Gmail's keeps the last page that was worked off.
* A pool of four, and the unique indexes of SQLite: see the sections on `Gateway` and `SchemaBootstrap`.
* Routes: `relationships` paths answer 501 and the direct transport answers `get` for them; the search
  of webhooks is 404 over HTTP; the direct `webhooks.deliveries` answers with the webhook;
  `admin`, `organizations` and `status` exist over HTTP only; a batch is 501 or 404 everywhere, although `mcp/README.md:100`
  lists `bulk_operation`; a contact's context by e-mail address is always passed as an id.
* `cli/README.md:112` shows `contacts delete <id> --yes`; deleting a record asks nothing.
* The default of `--mode` overrides the mode of the configuration file.

## Not modelled

* Postgres: savepoints of nested transactions, and what row-level security does to a query.
* Filters and free-text search, which choose rows; the contact context, which reads first pages only.
* Administrative entities, and users, products and webhooks: inserts and updates of single rows without rules
  across records, behind the routes that `ApiRoutes` lists.
* Parsing and validation of bodies, shapes and wording of answers, redaction, audit lines,
  encryption, signatures of webhooks: data that no property here tells apart.
* The transports of MCP, sending mail and writing calendar events: single calls of a library or a
  provider.
* The project generator and the demo data: file copies, and a sequence of calls of one process.

