# A formal model of qbxsql

qbxsql is a FiveM resource that gives other resources a MySQL/MariaDB lane and an optional
PostgreSQL lane: pooled queries, pinned transactions, an oxmysql-compatible API, and a declarative
schema manager per lane. The modules in this directory model its control logic in TLA+; TLC checks
them on small instances and TLAPS proves the central safety properties for every instance.

All paths below are relative to the repository root (`src/core/database.ts`, ...).

## 1. Inventory

| Component | State it keeps | Operations | Interacts with | What is hard about it | What makes it correct |
|---|---|---|---|---|---|
| Connection coordinator (`src/core/database.ts`, `DatabaseService`) | `connectionState`, `connectionTask`, `connectedBefore`, `disconnectAnnounced`, waiters, health and retry timers | `start`, `awaitConnection`, `connectionLoop`, `ensureConnectionLoop`, `handleDisconnect`, health check, `close` | driver (calls, `onDisconnect` callback, `ready` flag), consumers (events, promises) | every `await` is a place where a fatal error, a call, the health check or `close()` gets in | one coordinator; nobody waits for nobody; connected when at rest; no leaked pool; orderly events; `close()` is final |
| Drivers (`src/drivers/mysql.ts`, `postgres.ts`) | `pool`, `schemaPool`, `ready`, extension type parsers | `connect`, `close`, `acquire`, `query`, `healthCheck`, `reportFatalError` | mysql2 / pg pools, coordinator | the flag `ready` is read by others between `await`s; `pool.end()` differs between the libraries | a pool in use is a published pool; errors belong to the pool they came from |
| Transactions, statement lists, prepared batches (`database.ts:299-440`) | one pinned connection per call, `closed`, `timedOut`, timer | `withTransaction`, `transactionResults`, `executePreparedBatch` | driver connection, user callback, timer | timer racing COMMIT; failed ROLLBACK; statements issued behind COMMIT; what the server does after an error | all or nothing, and the answer says which; a connection is never shared or handed over dirty |
| Parameter normalisation (`src/core/parameters.ts`, `postgres-parameters.ts`) | the scans of recent queries, with and without names, and PostgreSQL's counts | placeholder scanning and conversion | every query, some of them twice | quoting, comments, dollar quotes, a scan from the wrong cache, the cache limit | each placeholder the server sees gets the value that was meant for it, and nothing else is one |
| MySQL schema manager (`src/schema/manager.ts`) | registry, journal, adoptions and table owners in metadata tables; GET_LOCK on a session | `ensure`, `adopt`, and their dry runs `plan`, `planAdoption` | database, planner, lock session | MySQL DDL commits at once: a crash leaves a half-applied plan to resume; the session that holds the lock can be lost while the run goes on | a table has one owner; raw SQL runs once; versions only go forward; a resumed call reaches the declared schema |
| MySQL planner, validation, SQL, introspection (`src/schema/*.ts`) | none | `planSchema`, gates | manager | order of operations; which operations need which permission | nothing destructive without its flag |
| PostgreSQL schema manager (`src/postgres-schema/manager.ts`) | the same metadata and the completion marks of single statements (`schema_actions`); one advisory lock per resource | `ensure`, `adopt`, `plan`, `planAdoption`; transactional DDL and concurrent statements | database, planner, lock session | concurrent index builds commit outside the transaction and leave invalid indexes; the marks outlive a call; two resources interleave freely | a statement, its owner and its mark commit together; nobody takes another's table; a repeated call finishes what was interrupted |
| PostgreSQL planner, validation, SQL, canonicalisation, introspection (`src/postgres-schema/*.ts`) | none | `planSchema`, canonical forms | manager | as above | a canonical form is a fixed point |
| Extension registry (`src/postgres-extensions.ts`) | required extensions, installed versions | `requireExtension`, comparison | PostgreSQL driver | version order | the check never accepts an older version |
| Compatibility API and callbacks (`src/api/compatibility.ts`, `callback.ts`, `src/core/serialize.ts`) | closures of the calls under way | oxmysql exports, callback delivery, error events | coordinator, normalisation, Lua | a callback that throws; three ways to ask for an answer; a lane that is missing | every call is answered once, and truly |
| Schema and PostgreSQL exports (`src/api/schema.ts`, `postgres*.ts`) | the same | refusals, forwarding, callbacks, promises | managers, coordinator | as above | as above; a resource manages its own schema only |
| Start-up and shutdown (`src/index.ts`) | which lanes are up | start, conflict check, registration of the exports of each lane, stop | coordinators, managers, exports | a lane that cannot be created | every export exists, and says what is missing |
| Configuration (`src/config.ts`) | constants read once | parse convars | all | numeric limits | every limit is a positive integer |
| Lua shims (`lib/*.lua`), release scripts (`scripts/`) | none | forwarding, packaging | - | - | - |

The hazards these parts are exposed to are listed, each at its line, in `PROJECT.json`.

## 2. Modules

| Module | Models |
|---|---|
| `LifecycleContract` | what a lane promises its consumers: its phase, and what may happen to a call |
| `ConnectionLifecycle` | the coordinator of one lane over its driver; implements `LifecycleContract` |
| `MCConnectionLifecycle` | its TLC instances |
| `ConnectionLifecycleProofs` | theorems about its states and its steps, and that it implements `LifecycleContract` |
| `PinnedTransaction` | calls that pin a connection, the connection's command queue and the server's transaction |
| `MCPinnedTransaction` | its TLC instances |
| `PinnedTransactionProofs` | its theorems |
| `MySqlSchema` | `ensure()` and `adopt()` of the MySQL schema manager, by several servers at once |
| `MCMySqlSchema` | its TLC instances: declarations, migrations, legacy tables |
| `MySqlSchemaProofs` | theorems about its journal, its lock and its versions |
| `MySqlInstallProofs` | theorems about tables and their owners |
| `PostgresSchema` | `ensure()` and `adopt()` of the PostgreSQL schema manager, by several servers and resources at once |
| `MCPostgresSchema` | its TLC instances |
| `PostgresSchemaProofs` | theorems about its marks, versions and owners |
| `PostgresInstallProofs` | theorems about tables, what is registered and what may be absorbed |
| `SqlPlaceholders` | both placeholder scanners and parameter normalisers, and what MySQL, mysql2's `format()` and PostgreSQL take for a placeholder |
| `SqlPlaceholdersProofs` | lemmas about the scanners and the three readings, for every text |
| `ExportedCalls` | a call of an export, from the resource that makes it to its answer; extends `SqlPlaceholders` |
| `MCExportedCalls` | its TLC instances: queries, requests, pairs of calls |
| `ExportedCallsProofs` | its theorems |

### ConnectionLifecycle

JavaScript runs to completion between two `await`s, so an action is the code from one `await` to the
next with every call it makes: `ensureConnectionLoop()` inside `awaitConnection()`, the driver's
`reportFatalError()` together with `handleDisconnect()`, the emission of an event, `resolveWaiters()`.

| Model | Code |
|---|---|
| `connectionState`, `connectionTask`, `flags`, `healthTimer`, `retryTimer`, `event` | the fields of `DatabaseService`, `database.ts:118-160`; `event` is the last lifecycle event emitted |
| `readiness`, `pool`, `open`, `checks` | `ready` and `pool` of the driver; pools not yet ended; health checks in flight |
| `pc[l]`, `victim[l]` | where `connectionLoop()` is suspended and the pool it is opening or ending |
| `stage[c]`, `conn[c]`, `query[c]` | a call in `awaitConnection()`, its pinned connection, its pooled statement |
| `closer`, `closeTask`, `closeVictim` | where `close()` is suspended |
| `ClosedOldPool` .. `TaskSettles` | the suspension points of `connectionLoop()`, `database.ts:546-607` |
| `AwaitConnection`, `WaitTimeout`, `UsePool` | `awaitConnection()` and the continuation of its caller |
| `FatalError`, `HealthFails`, `IdleClientFails` | the three ways in which the drivers report an outage |
| `Close`, `CloseDriver`, `CloseDone` | `close()` |

The two dialects differ where their libraries do: mysql2's `pool.end()` waits for running commands
and then closes pinned connections too, pg's waits for every checked-out client; `MySqlDriver` clears
`ready` when it reports a fatal error, `PostgresDriver` does not; `PostgresDriver` is `ready` before
its extension types have been read.

A schema session, a transaction and a prepared batch are all "a call that has pinned a connection and
may ask for the pool again while it holds it".

### PinnedTransaction

Each call is at one `await` of its function (`stage`). Its connection carries out commands in order;
the order that matters is only whether a statement comes before the reply to the pending
BEGIN/COMMIT/ROLLBACK (`waiting`) or behind it (`late`). A write is one unit of effect, `pending` in
the server's transaction or `durable`; `confirmed` counts what the call was told had succeeded. What
user callbacks do is a constant: `Habits[t]` says whether the callback issues statements in parallel,
lets a branch outlive its promise, or swallows a failed statement. `Careful(t)` names those the
guarantees are for: callbacks that await their statements and throw when one fails, and on MySQL
issue them one at a time, because there a deadlock ends the transaction and a statement queued behind
the refused one would run in autocommit mode.

| Model | Code |
|---|---|
| `Acquire`, `AcquireFails` | `driver.acquire()`, `mysql.ts:468`, `postgres.ts:319` |
| `Begun`, `BeginFails` | `beginTransaction()` answered |
| `Query`, `NextStatement`, `StatementSucceeds`, `StatementFails`, `LateStatement` | `query()` of the callback, the loops over lists and batches, and the replies |
| `Finish`, `Decline`, `Fails` | callback resolves, resolves to `false`, throws (or `normalize()` does) |
| `Committed`, `CommitFails`, `RolledBack`, `RollbackFails` | the replies to COMMIT and ROLLBACK, with the catch and finally blocks; a ROLLBACK fails on a broken connection, or with the transaction still open on a live one, which is then destroyed |
| `Timeout` | the transaction timer, `database.ts:384-389` |
| `Lose`, `ServerEnds`, `Effect`, `Refusals`, `Turn` | the environment: server and connection |

### MySqlSchema

A run is one server process that serves one resource at one version of its declaration, and calls
`ensure()` or `adopt()` again whenever it starts. Each of its steps is one awaited statement together
with the code that follows the answer. MySQL commits every statement at once, so what has been done
at any point is what a crash leaves behind. DDL goes through the session that holds the advisory
lock, metadata statements and reads through other connections of the pool: `LoseSession` takes the
lock away from a run that goes on until it next uses the session or asks `assertLockHeld()`.

| Model | Code |
|---|---|
| `tables`, `owner`, `registry`, `journal`, `adoption` | the database, and `qbxsql_schema_tables`, `_registry`, `_migrations`, `_adoptions` |
| `holder` | the session of GET_LOCK, `manager.ts:721-770` |
| `at[r]`, `work[r]` | where `ensure()`/`adopt()` is suspended; its local variables (what it has read, what is left to do) |
| `ReadRegistry` .. `WriteAdoptionBaseline` | the checks before the first statement, `manager.ts:276-307`, `498-533` |
| `StartMigration` .. `FailMigration` | `applyMigration()`, `manager.ts:845-959`, with `operationNeeded()` and the ownership transitions |
| `PlanChanges` .. `Verify` | `planSchema()`, `applySchemaPlan()` and the second look, `manager.ts:334-350` |
| `ClaimTable`, `WriteRegistry`, `FinishAdoption`, `FailAdoption`, `ReleaseLock` | the last statements, the catch and finally blocks |
| `Refused`, `LoseSession`, `Crash`, the second half of `Answered` and `DdlAnswered` | the environment: a refused statement, a lost session, a stopped server, an answer that never arrives |

A table is a set of features (columns, indexes, keys); `addFeature` and `dropFeature` stand for every
operation that adds or removes one, `addForeignKey` for the one that runs on a connection of its own.
`ran` is a history variable: how often each raw statement took effect.

### PostgresSchema

Runs and calls are as in `MySqlSchema`, but three things of the code make it a module of its own. The
advisory lock is one per resource, so runs of different resources interleave at every statement.
Whatever is written under the lock is written on the session that holds it, so a run that has lost
its session can only read (`SessionGone`). And a statement, its change of owner and its completion
mark commit together (`ExecuteInTransaction`), except that a `CONCURRENTLY` statement commits by
itself, is marked afterwards, and when interrupted leaves an invalid index (`ExecuteConcurrently`,
`Interrupted`).

| Model | Code |
|---|---|
| `tables`, `owner`, `registry`, `journal`, `adoption` | the database, and `owned_tables`, `schema_registry`, `schema_migrations`, `schema_adoptions` of `qbxsql_internal` |
| `actions`, `completed` | the rows of `schema_actions`, and those marked as completed |
| `holder`, `at`, `work` | the advisory locks, where each run is suspended, its local variables |
| `AcquireLock` .. `RecordAdoption` | the lock and the checks before the first statement, `manager.ts:333-351`, `442-490`, `666-682`, `817-941` |
| `BeginMigration`, `PlanReconciliation`, `CheckMark` .. `CompleteMigration` | `applyMigration()`, `applyActions()`, `executeStatement()`, `manager.ts:957-1147` |
| `Repair`, `CreateTable`, `Plan`, `Before` | `planPostgresSchema()`, per feature, and the order of its actions |
| `MigrationStatements` | `postgresMigrationStatements()`: which statements an operation is split into |
| `FinishSchema`, `CompleteAdoption`, `FailAdoption`, `ReleaseLock` | `finishSchema()` and the last statements, catch and finally blocks |
| `Refused`, `LoseSession`, `Crash`, `AcquireTimesOut`, the second half of `Answered` | the environment |

A feature of a table (column, index, check, foreign key, exclusion) is `absent`, `unfinished` (an invalid
index, a constraint NOT VALID), `different` or `present`. `ran` is a history variable: the transactional
statements of migrations that took effect.

### ExportedCalls and SqlPlaceholders

A call is at one of six stages; a `job` says what is called, how the caller wants to hear of it (a
callback, a promise, not at all), whether it asked for errors, whether its callback throws, and with
which statements. The MySQL exports normalise at once and wait with what that made; the PostgreSQL
lane normalises once the connection is there, and a MySQL transaction does so a second time. How a
call waits is the subject of `ConnectionLifecycle`, what a transaction does of `PinnedTransaction`: here
`Admit`, `Refuse` and `Execute` stand for them.

| Model | Code |
|---|---|
| `CallQuery`, `CallPrepare`, `CallTransaction`, `CallAndWait`, `Store` | `queryMethod()`, `prepare()`, `rawExecute()`, `transaction()`, `startTransaction()`, `store()` of `compatibility.ts` |
| `CallPostgresQuery`, `CallPostgresTransaction` | `api/postgres.ts` |
| `CallSchema`, `CallPostgresSchema`, `Foreign` | `api/schema.ts`, `api/postgres-schema.ts`, `schemaResource()` |
| `CallUnavailable` | the exports registered for a lane that is not there |
| `Resolved`, `Failed`, `Invoke`, `OperationError` | the two branches of `then()`, `invokeCallback()`, `operationError()` |
| `NormalizeAll`, `caches` | `normalize()`, `normalizePrepared()`, `scanSql()`, `cacheScan()`, `cachePlaceholderCount()` |
| `ScanSql`, `CountPostgres` | `scanSqlUncached()`, `countPostgresPlaceholders()`, as functions over the characters of a query |
| `NormalizeParameters`, `NormalizePostgresParameters` | the functions of the same names |

The second half of `SqlPlaceholders` says, character by character, who takes what for a placeholder. There are
three readers, each an automaton:

- `MySqlReads` (`MySqlStep`) is MySQL's lexer. It decides for prepared statements, which are sent with their
  placeholders (`Markers`); and it says what the caller wrote, where `??` is one placeholder for an identifier
  (`QuestionMarks`).
- `FormatReads` (`FormatStep`) is `findNextPlaceholder()` and `skipSqlContext()` of the bundled mysql2
  (`dist/index.js:112-167`). Every other MySQL statement is text: mysql2's `query()` puts the values in
  itself, before the server sees anything. `Filled` is what `format()` (`:471-535`) replaces: `?` and `??`
  outside single quotes, backquotes, `-- ` and `/* */`, but not runs of three or more, for as long as there
  are values. Double quotes and `#` mean nothing to it, and a comment with a hint (`/*+ */`) is none.
- `PostgresReads` (`PostgresStep`) is PostgreSQL's lexer, with the literals that go on on a later line: behind an
  `e'...'`, whitespace with a newline in it and comments to the end of a line (`PostgresBehind`), a further
  quote continues the same literal with its escapes.

`Reader(c)` says which of the two MySQL readers a call's statements meet (`runQuery()`, `mysql.ts:294-296`), and
`MySqlBinds` that the places where values are put are those that the caller wrote and the scanner counted, each
with its value. The scanners, which jump from the start of a literal to its end, are compared with the readers
on every query of three fragments of each dialect and on longer ones for escapes, doubled quotes, continued
literals, nested comments and dollar-quoted bodies, and proved to agree with them for every text that
`BindsEveryPlaceholder` speaks of. Those are the queries for which normalising is meant to be exact (`Exact`,
`ExactPostgres`); what these leave out is observation 9. A character is a string; `"double"` stands for the
double quote and `"tick"` for the backquote. A scanner is one of `"positional"`, `"named"` (the code's
`replaceNamed`) and `"numbered"`, and each has a cache of its own.

## 3. What the runs check

| Run | Instance | Shows |
|---|---|---|
| `mysql_lane` | 2 calls, 4 pools, 3 failures, queue of 1 | safety of the coordinator: `SingleCoordinator`, `NoStrandedWaiter`, `RestsConnected`, `PoolsAccountedFor`, and the order of events `EventsAlternate` |
| `postgres_lane` | 2 calls, 3 pools, 2 failures, queue of 2 | `AdmittedToPublishedPool`, `ClosingIsFinal`, `StaleErrorNeverRebuilds`; the liveness of outages and of `close()`; the refinement `ImplementsContract` |
| `mysql_storm` | 2 calls, 3 pools, 1 failure | finding 1: `RebuildsStop` fails on MySQL |
| `pinned_calls` | PostgreSQL, 1 connection, a careless and a careful callback, a list, a batch, 2 statements each, 1 failure | `NoSharedSession`, `CleanHandover`, `CarefulFailureLeavesNothing`, `CarefulSuccessIsDurable` |
| `mysql_calls` | MySQL, 1 connection, a careless and a careful callback, a list, 2 failures | the same for MySQL's refusals, and `CallsSettle` |
| `branching_callback` | one callback with a detached branch | finding 2 |
| `swallowed_error` | one callback that swallows an error | finding 3 |
| `schema_calls` | servers with versions 1 and 2 of `a` (online foreign key, raw SQL, release), an adoption by `b` and its rival `c` for the same table; 1 failure and 1 lost session | `RawSqlOnce`, `CreatedMeansOwned`, `InstalledStands`, `OnlyOwnTables` |
| `schema_restarts` | versions 1 and 2 of `a` with a resumable migration, the adoption by `b`; 3 failures | `Converges`, `VersionsMoveForward` |
| `interrupted_rename` | version 2 of `a` renames its table; 1 failure | finding 4 |
| `postgres_calls` | two rolling upgrades, an adoption `ensure()` may have to complete, two adoptions and two creations of one table; 2 failures | `StatementsOnce`, `RecordedMigrationsRan`, `CreatedMeansOwned`, `InstalledStands`, `OwnersKeepTheirTables`, `AbsorbsNothing`, `VersionsMoveForward`, and `Converges` |
| `exported_calls` | every export, way of calling and lane; every query of three fragments, as a MySQL query and a transaction and on PostgreSQL; prepared statements; pairs of calls over caches of one entry | `OneTrueAnswer`, `BindsEveryPlaceholder`, the cache limit (`TypeOK`), `EveryCallEnds` |

### Bounds

`MaxFaults` bounds the failures of the environment (in `PinnedTransaction` a lost connection, and every
BEGIN, statement, COMMIT and ROLLBACK that the server refuses) and nothing else: retries, rebuilds, health
checks and calls go on without limit. Two calls are enough for every pair of roles (one waiting while
one has a connection pinned, one using a stale connection while the other is admitted to the new
pool); two loop identities are enough because a second one would already violate
`SingleCoordinator`; three pools allow an old one being ended, a current one and one a stale call
still refers to (four with three failures). Some runs leave TLC's deadlock check on, but it says little here:
`start()`, a health check or another call is nearly always possible. That nobody waits for good is what
`NoStrandedWaiter` and the liveness properties say. One pooled connection makes every call a successor of
every other one on the same session, which is where dirty handovers would show. Size 2 is the
smallest list with a partial failure. The theorems do not depend on any of these bounds.

In `MySqlSchema`, `MaxFaults` bounds crashes, refusals and lost answers, `MaxLosses` lost lock sessions;
calls are repeated without limit. Two versions of one resource give every race between an old and a
new server, and one rival gives every race for a table. The two runs divide the question: a failure
together with a lost session for safety, three failures in one history for convergence (a failure of
the call, of its repetition, and one more in the call that repairs both). `OnlyOwnTables` and
`VersionsMoveForward` are stated for behaviours in which no session has been lost. After a loss they do
not hold: `assertLockHeld()` and the statement after it are two statements, and TLC finds the older
registry row written over the newer one, and a claim of the run that lost its session landing between
`assertOwnership()` and `refuseImplicitAdoption()` of another one. `docs/operations.md:117` says how the
code treats a lost session; both windows are in the list of hazards.

What the other two properties of `schema_calls` leave out was found by proving them; the statements
they replace held on the instance, but not in general:

- `CreatedMeansOwned` excepts legacy tables, released ones and the targets of renames (finding 4), and,
  once a session is lost, tables that a migration renames away or drops (`Departing`): the ownership row
  that a drop deletes is deleted late, when another run may have created the table again.
- `InstalledStands` speaks of the tables that no later migration mentions and no adoption of another
  resource declares, and, once a session is lost, of those that no migration of the resource and no other
  resource mentions (`Undisturbed`): what a run without the lock does is then spread over the calls of
  the others.
- `OnlyOwnTables` allows `ensure()` an unowned table that its own resource has released, or renamed from
  one it has released (`GivenAway`), since its second introspection does not ask who owns it; and an
  adoption that is resumed a table of a rival that declares it too, since it skips
  `assertAdoptionOwnership()` (`manager.ts:529`).

In `PostgresSchema`, `MaxFaults` bounds crashes, refusals, lost answers, lock timeouts and lost sessions
together; two of them interrupt a call and the call that repairs it. The five deployments are the
pairs of calls that can meet: old and new server of one resource (with a rename, a release, a raw
statement and a two-part constraint in the migration; with a concurrent drop), an adoption with an index
in its migration and the `ensure()` of the same version, and two resources that adopt or create one
table. Tables that two resources claim (`Contested`) are left out of `InstalledStands` and `Converges`,
because the code does not order their calls (observation 3). They are not left out of `CreatedMeansOwned`:
even a contested table has an owner, unless it was there before, was released, or is what became of such
a table, or of a contested one, when it was renamed (`Unclaimed`). `AbsorbsNothing` names the two ways in
which `ensure()` may come to own an unowned table without interruption: its own migrations and those of
other resources have released it or renamed one to it (`HandedOver`).

In `ExportedCalls`, three fragments make every pair of constructs with a placeholder between, before or
behind them (the MySQL alphabet has the double quote, `#` and `!`, where its two readers part); a cache of one entry
makes every second query evict, and two calls on it make every order of
a hit, a miss and an eviction. The alphabet has one or two members of each class of characters the
scanners tell apart; parameter numbers go to 12 with a limit of 11.

### Fairness

Weak fairness is assumed of what the runtime schedules: continuations of settled promises, timers
that have been armed, and replies of the drivers: a driver call succeeds or fails, it does not hang. For
connecting, for waiting for the lane and for callback transactions the code has timeouts that see to that. An
ordinary statement, a statement list and a prepared batch have no execution deadline
(`docs/operations.md:58-59`); that the server ends them, or the connection breaks, is an assumption about the
server, and where it is wrong the call, and on PostgreSQL the rebuild that waits for its client, take as long as
the statement does. Nobody is obliged to start, call, close or fail, and a
user callback need not ever return: `CallsSettle` holds for it because of the timer. `LoopStep` is fair
as a whole, so a loop that only ever fails is allowed, as long as `MaxFaults` permits.

In `MySqlSchema` the steps of a call are weakly fair: a statement is answered or fails, since both
lock waits are bounded. `AcquireLock` is strongly fair: a server that starts calls `ensure()`, and GET_LOCK
serves those who wait. A call whose wait for the lock timed out has changed nothing, and is the same
as one not made yet. `Converges` says nothing of a server that is never started again. The same holds of
`PostgresSchema`, where `pg_try_advisory_lock` is polled while the calls of the others come to an end.

In `ExportedCalls` a waiting call is admitted or refused, because `awaitConnection()` has a timer
(`OutageEnds` and `NoStrandedWaiter` of `ConnectionLifecycle`), the driver's promises settle, and Node runs
what was chained to a settled promise. Nobody is obliged to make a call.

## 4. What is proved

`ConnectionLifecycleProofs` proves, for every set of calls, loops and pools, both dialects and any
number of failures, `TypeCorrect`, `OneCoordinator`, `WaitersAreServed`, `RestIsConnected` and
`NoPoolLeaks`. The invariant `IInv` adds to these what makes them inductive: what the loop owns at each
of its suspension points (`LoopHolds`), what may be left at each stage of `close()` (`CloserAgrees`),
that the retry wait and the timer go together (`RetryIsArmed`), that a task that is referred to is
running, that a published pool is open and watched, and that the event last emitted agrees with the
flags. The proof has one lemma per handler that is shared (`EnsureStep`, `ReportStep`) and one case
per suspension point.

The module goes on with what a step of the coordinator may do: `AnnouncementsAlternate`
(`EventsAlternate`), `AdmittedToOpenPool` (`AdmittedToPublishedPool`), `CloseIsFinal` (`ClosingIsFinal`),
`StaleErrorsCannotArrive` (`StaleErrorNeverRebuilds`, on PostgreSQL; on MySQL it fails, which is finding
1), and `KeepsContract`: the coordinator implements the safety part of `LifecycleContract`. `StepInv` adds
to `IInv` that an outage has been announced before anybody works on it (`OutageIsAnnounced`) and that pg
ends a pool only when nothing of it is in use (`PostgresPoolsOutliveTheirUse`). Every step treats the
announced state in one of four ways, it stays, goes down, comes up or closes, and the lemmas
`RepairMoves`, `EnsureMoves` ... say which; the refinement follows case by case from these and from what
the step does to the calls that wait.

`PinnedTransactionProofs` proves, for any number of calls and connections, either dialect, any `Habits`
and any number of failures, `TypeCorrect`, `SessionsNotShared`, `SessionsHandedOverClean`,
`CarefulFailureIsEmpty` and `CarefulSuccessIsLasting`. The inductive invariant says that being checked out and
being pinned are the same thing (`PinsAgree`), that the server has a transaction open only for the
present holder of a session (`ServerAgrees`), what a call can have issued at each stage
(`StageAgrees`), and that a careful transaction writes inside its own transaction only
(`CarefulAgrees`). A step of one call leaves the others and their sessions alone (`Same`), so the
lemmas per action show only what the acting call does; most actions end in one of two ways, a queued
ROLLBACK (`RollsBack`) or letting go of the session (`Settles`).

`MySqlSchemaProofs` proves, for any resources, declarations, migrations and servers and any number of
crashes, refusals, lost answers and lost lock sessions, `TypeCorrect`, `RawSqlRunsOnce` and
`VersionsOnlyRise` (the action property `VersionsMoveForward`). The argument for raw SQL:
a statement has run only where the journal has a row (`Journaled`); a run that is about to begin a
migration with raw SQL has read no row for it (`StageAgrees`); and as long as the run holds the lock
nobody else can have run what it still has to (`HolderAgrees`: `Untouched` for the migrations to come,
`AheadIsUntouched` for the operations of the current one). The last part is lost with the lock, and is
not needed then, because `runOn()` fails. `HolderAgrees` also keeps track of the tables the holder has
seen, since only existing tables are altered. A step of one run leaves the others as they are (`Apart`),
so again each lemma (`<Action>Keeps`) shows what one action does to the run that takes it. The argument
for versions is shorter (`ForwardInv`): while no session has been lost, whoever is in the middle of a call
holds the lock, so the row that was compared with the declaration is the row that gets overwritten. All
steps but taking the lock and writing the row have one shape (`Onward`).

`MySqlInstallProofs` proves `CreatedIsOwned` (`CreatedMeansOwned`), `InstalledKeepsStanding`
(`InstalledStands`) and `ChangesOnlyItsOwn` (the action property `OnlyOwnTables`) from `InstallInv`. Its core is
what a run has read and may still conclude from it: that a table it is about to create is not there
(`SightAgrees`) and has been claimed (`ClaimAgrees`), that what it is about to register was verified and
claimed (`VerifiedAgrees`), that the registry row it read is the registered one (`RowAgrees`), and that the
tables it works on are its own or its resource's gift (`OwnAgrees`). The last two need that no session was
lost; `ClaimAgrees` and `VerifiedAgrees` need less, because nobody deletes the owner of a table no
migration gives away, and nobody alters one that only its own resource mentions. For the runs a step is not of,
one lemma is enough (`OthersRun`): either they are at rest, or all they rely on is spared (`Spared`).

`PostgresSchemaProofs` proves, for any resources, declarations, migrations, deployments and number of
failures, `TypeCorrect`, `StatementsRunOnce`, `RecordedRan`, `VersionsOnlyRise` and `OwnershipIsSafe`. The
inductive invariant ties three things together: what took effect for a migration is marked
(`EffectsMarked`, which holds because the mark commits with the statement); what a run has left to do is
part of its migration (`PlanAgrees`); and while it holds the lock, everything behind it is marked, the
statement it is at is not, and nobody has registered a newer version (`LockAgrees`). A run that lost its
session may hold stale notes, but cannot write, so `LockAgrees` need not hold for it.

`PostgresInstallProofs` proves `CreatedIsOwned`, `InstalledKeepsStanding` and `NothingIsAbsorbed`
(`CreatedMeansOwned`, `InstalledStands`, `AbsorbsNothing`) from an `InstallInv` of its own. There is no lock that
orders all runs, so the argument is one of scope: a run's statements come from its own migrations or from
what it declares (`ScopeAgrees`) and touch the tables they name only (`StatementLocal`,
`OperationScope`), so a table only one resource mentions can be disturbed by that resource only, and its
runs are ordered by the lock. As long as a run is connected, it migrates from the registered version
(`UpgradesAgree`), reconciles nothing that stands (`StandingAgrees`), registers what is there
(`FinishAgrees`), and has found none of its declared tables unmanaged (`AbsorbAgrees`).

`ExportedCallsProofs` proves `AnswersAreTrue`, `TypeCorrect`, `CachesAreTruthful` and
`EveryPlaceholderIsBound` (`BindsEveryPlaceholder`) for any calls, queries, parameters and cache limit. For the
first two, how far a call has come bounds what it has done and said (`Sound`), no step of one call touches
another (`Elsewhere`), and what normalising makes of a query does not enter. The last two follow from the
invariant `Faithful`: every remembered scan is the one its scanner would make of its query (`Truthful`); every
call asks for what an export accepts (`WellAsked`); and what a call was given binds its statements
(`BoundFor`), where a waiting MySQL transaction has exactly what normalising its statements makes. That it
is then normalised again needs `Settled`: normalising the result once more as a list changes nothing.

What one normalisation makes is the subject of `MySqlIsBound` and `PostgresIsBound`, which speak of every
text that is meant to be bound exactly and all parameters, and rest on `SqlPlaceholdersProofs`. `MySqlIsBound` is
about both MySQL readers. The argument has five parts.

1. The recursive functions exist. The library's induction theorems take an operator and cannot be
   instantiated, so `Upwards`, `Ascending` and `Descending` (what holds at one end and is handed on holds
   everywhere) are proved for sets, by a least counterexample, and `Recursion` (a function exists where each
   value needs values of lower rank only) from them. Each recursive function then has a lemma with its
   equation (`QuotedEndDef`, `CommentEndDef`, `ScanSqlDef`, `CountPostgresDef`, `PostgresReadsDef` ...).
2. What a scanner jumps over is one thing for the server: `QuoteSpan`, `WordSpan`, `NumberSpan`, `LineSpan`,
   `BlockSpan` and `DollarSpan` of PostgreSQL, `MySqlQuoteSpan`, `MySqlLineSpan`, `MySqlBlockSpan` and
   `NameSpan` of MySQL say that at the end of the jump the server is where the scanner is, and has met no
   placeholder in between. A jump that is decided by looking back, the `e` before a quote, needs that the
   automaton remembers what is behind it (`BehindAll`, `EscapesIff`). PostgreSQL's automaton is first replaced by
   one that never continues a literal (`AloneStep`), which is the same where no quote continues one
   (`ReadsAlone`).
3. So they find the same placeholders: `PostgresCount` (the count is the highest parameter number of the
   statement) and `ScanFinds` (the names and question marks of a scan are the server's, in order).
4. A query in which names were replaced is read like the one it was made of: `Join` shows it for two
   texts put together at a place where the first is not in the middle of anything, `ScanReplaces` for the
   whole. This is what makes the second normalisation of a transaction harmless.
5. mysql2 and MySQL go through a text in step (`Lockstep`): they are in the same place, or the server is in double
   quotes or behind a `#` and mysql2, for which that is code, meets nothing there that it knows
   (`LockstepGoesOn`, `LockstepToTheEnd`). So the places `format()` fills are MySQL's (`FillsAll`), all of them as
   there are enough values (`FilledAll`), and a prepared statement without `??` has a marker for each
   (`ServerSeesAll`).

The assumptions are those on the constants, `ConstantsAssumption`, `PinnedAssumption`, `SchemaAssumption`,
`PostgresAssumption`, `LimitAssumption`, `MaxParameterAssumption` and `WorkloadsAssumption`: the types of the parameters, that `None` is
not one of the identities, and that an adoption's baseline is below its version.

What the proofs changed in the model:

- `PostgresSchema.CreatedMeansOwned` used to except contested tables, which is not closed under renames: a
  contested table without an owner can be renamed to one that nobody contests. `Unclaimed` is closed
  under them, and no longer excepts contested tables as such.
- `MySqlSchema.CreatedMeansOwned`, `InstalledStands` and `OnlyOwnTables` were false for other instances than
  the one TLC checked, as section 3 says; the exceptions now name what the code does.
- The guards of a CASE in `Repair` overlapped, which leaves open which branch is meant; they now exclude each
  other. The case of a renamed column in `Impossible` says the same as before in a form the provers can use.
- `WorkloadsAssumption` says that a call asks for one of the exports and brings a sequence of statements, that
  `nil` has no entries, and that the sets of parameters of a `prepare` share one query.
- `BindsEveryPlaceholder` was false of PostgreSQL texts longer than those TLC had: where an `e'...'` touches a
  dollar sign (`$e'\'$1`) the scanner and the server differ on the backslash. `ExactPostgres` excepts these;
  every other text up to six characters agreed before the proof was begun.
- The readers were first MySQL's and PostgreSQL's lexers only, and PostgreSQL's without continued literals. On the
  text path mysql2 decides, and it differs (`FormatReads`); a server counts `??` as two (`Markers`); and an
  `e'...'` that goes on on a later line keeps its escapes (`PostgresBehind`). `Exact` and `ExactPostgres` name
  what does not agree.
- `ValueOf` found a record's value under any spelling of a number (`"01"` for 1); `String(n)` spells it in one
  way, which `Spelled` says. `Meant` took the base of a record before the sigils of its keys were stripped;
  the code takes it after.
- The readings of the servers are split into one operator per state, and `ScanSql` takes the scanner instead
  of a truth value: both say the same as before, in a form in which each case can be proved by itself.

Only model-checked: the liveness properties (`OutageEnds`, `CloseCompletes`, `RebuildsStop`,
`CallsSettle`, `Converges` of both managers, `EveryCallEnds`) and the fairness part of
`ImplementsContract`, which need fairness and `ENABLED`. Every invariant and every action property of a
passing run is stated by a theorem.

One thing about the prover a reader should know: tlapm's encoding for SMT takes `Len(s) \in Nat` and
`DOMAIN s = 1 .. Len(s)` for granted of whatever `Len` is applied to. The theorems do not lean on it:
`AreStatements`, `IsParameters` and the lemmas state as hypotheses that these are sequences.

## 5. Findings

1. `mysql_storm`: on the MySQL lane a fatal error of a connection of an *earlier* pool tears the
   healthy pool down (`mysql.ts:541`, `database.ts:609`); two overlapping pinned calls keep the lane
   rebuilding after a single failure. `docs/operations.md:91-92` promises that pool rebuilds are coordinated
   to avoid reconnect storms.
2. `branching_callback`: `withTransaction()` sets `closed` only in its finally block
   (`database.ts:432`). A branch of the callback that is still running gets a statement accepted behind
   the ROLLBACK, where it runs in autocommit mode and stays.
3. `swallowed_error`: `PostgresConnection.commit()` (`postgres.ts:178`) discards the command tag; COMMIT
   of an aborted transaction is a ROLLBACK without an error, so `withTransaction()` resolves to `true`
   with nothing committed.
4. `interrupted_rename`: `docs/schemas.md:166-167` says that ownership follows a successful rename, but
   the ALTER TABLE (`schema/manager.ts:901`) and the UPDATE of the owner (`:926`) are two statements. After a
   crash between them the renamed table has no owner, and although `operationNeeded()` (`:1110`) is
   prepared to go on, `ensure()` first meets `refuseImplicitAdoption()` and demands an adoption, which
   `adopt()` refuses to a registered resource.

### Observations

Met while modelling, at the lines named, and excluded by name from the properties they concern. No run
shows them as violations.

1. PostgreSQL: after two interrupted builds of an index the drop of the invalid one is marked as completed,
   and no later `ensure()` repeats it; the build then fails for good (`Undropped`; `docs/postgresql.md:205`,
   `postgres-schema/sql.ts:254-257`). `Converges` excepts this state.
2. PostgreSQL: when the first installation of a newer version is interrupted and an older one is installed
   next, what the first has created is in the way of the migration's renames and additions (`Obstructed`).
3. PostgreSQL: the locks are per resource. Of two resources that name one table, the second can alter it
   between the other's `assertOwnership()` and its statements; only `finishSchema()` refuses
   (`manager.ts:838-863`).
4. PostgreSQL: an adoption that failed after claiming a table it created is refused when repeated
   (`manager.ts:935`); `ensure()` completes it. `adopt()`'s catch (`:525-532`) marks an adoption that was already
   completed as failed.
5. `hasInterruptedReconciliation()` skips `refuseImplicitAdoption()` altogether; `AbsorbsNothing` says so.
6. `compatibility.ts:584`: "transactions never reject", but `transaction_async` rejects when a parameter
   list cannot be normalised. A plain callback that did not ask for errors is never called when its query
   fails; only the event is emitted (`EveryCallEnds` allows that).
7. The exports of a missing lane call the callback outside any `try`, and `startTransaction` there calls the
   caller's work function with `false`. `isReady_async`, `awaitConnection_async` and `store_async` do not
   exist there, although `index.ts:39-42` says that every export does.
8. A PostgreSQL call that nobody waits for fails without a log line or an event.
9. Placeholders that normalising does not bind as the caller meant. `Exact`, `Touching` and `ExactPostgres` name
   them, and `BindsEveryPlaceholder` excepts them:
   - MySQL, on the text path: mysql2's `skipSqlContext()` (`dist/index.js:112-153`) knows neither double quotes
     nor `#`. In `SELECT "?", ?` with one value the scanner counts one placeholder (`parameters.ts:49`), and
     mysql2 puts the value between the double quotes and sends the other `?` to the server. A quote or `/*` in
     double quotes or behind `#` hides the placeholders that follow. Placeholders in `/*+ */` hints and
     `/*! */` comments, which the scanner takes for comments, are filled too.
   - MySQL: `??` is one placeholder to the scanner and to mysql2, two to a server that prepares the statement.
     Three and more `?` in a row are placeholders to the scanner (one for each pair, one for what is left), none
     to mysql2.
   - MySQL: `:a:b` becomes `??`, which the second normalisation of a transaction rejects; a record given to a
     query with both `?` and names; the second sigil of `@@name`; a backslash inside backquotes, taken for
     an escape; batches of `prepare` whose parameter sets have different shapes.
   - PostgreSQL: an `e'...'` that goes on on a later line (`e'a'`, newline, `'\'$1'`) keeps its escapes on the
     server; the scanner reads the second piece without them (`postgres-parameters.ts:49-50`) and counts the
     `$1` inside, although `docs/postgresql.md:29` says that placeholders are recognised outside quoted strings.
   - PostgreSQL: an `e'...'` directly behind a dollar sign is read without escapes
     (`postgres-parameters.ts:50`). The dollar sign can only be the end of a dollar-quoted body there: any other is
     a syntax error.

## 6. Abstractions and what is not modelled

Values, SQL text, result rows, statistics, logging and slow-query warnings are left out. A pool stands
for the pair of pools one `connect()` creates. Listener re-entrance (a consumer that calls the
database inside an event handler) is not modelled. `PinnedTransaction` assumes a lane that stays up:
the loss of the pool as a whole is the subject of `ConnectionLifecycle`. `MySqlSchema` takes two
declarations of one version to be equal (the checksums agree) and blocking operations to be
authorised, since the code throws before its first write otherwise; the order of the planned changes
is arbitrary; `plan()`, `planAdoption()`, the creation of the metadata tables and row-level effects of
raw SQL are left out, and so are data in the tables. `PostgresSchema` makes the same abstractions; there
the order of the planned actions is `Before`, a partial order that the planner's lists refine.

`ExportedCalls` leaves out the shape of results, the checks of argument types in front of each export,
lanes with named placeholders switched off, and the loss of a call with its resource. Arguments reach
it after `extractCallback()`.

Not modelled: the comparison of versions and the requirement check of the extension registry, which
read and refuse; validation and canonical forms of declarations (both schema lanes), which are
functions of one declaration; configuration, which is read once; the release scripts.

## 7. Plan

1. `ConnectionLifecycle` with its contract and proofs - done.
2. `PinnedTransaction` with its proofs - done.
3. `MySqlSchema` with its proofs - done.
4. `PostgresSchema` with its proofs - done.
5. `ExportedCalls` over `SqlPlaceholders` with its proofs - done.
6. Further theorems: the safety half of `Converges` (a call that ends without an error has registered its
   version), for both schema managers.
