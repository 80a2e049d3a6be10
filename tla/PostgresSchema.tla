--------------------------- MODULE PostgresSchema ---------------------------
(***************************************************************************)
(* PostgresSchemaManager.ensure() and adopt() of the PostgreSQL lane.      *)
(*                                                                         *)
(* A run is one server process serving one resource at one version of its  *)
(* declaration, which calls ensure() (or adopt()) again after a restart.   *)
(* The advisory lock is one per RESOURCE: runs of different resources      *)
(* interleave freely.  Whatever a run writes under the lock it writes      *)
(* through the session that holds it, so a run that lost its session can   *)
(* still read (through the pool) but not write.  DDL is transactional: a   *)
(* statement, its change of owner and its completion mark commit together, *)
(* except for the CONCURRENTLY statements on indexes, which cannot run in  *)
(* a transaction and leave an invalid index behind when interrupted.  One  *)
(* action is one awaited statement, or one whole transaction.              *)
(*                                                                         *)
(* Declarations of one version are taken to be equal (their checksums      *)
(* agree) and every pending operation to be authorised, since the code     *)
(* throws before its first DDL when they are not.                          *)
(***************************************************************************)
EXTENDS Naturals, Sequences, FiniteSetsExt

CONSTANTS Resources, Tables, Features,
          Kind,        \* of a feature: column, index, check, foreignKey, exclusion
          MaxVersion,  \* of any declaration
          Declared,    \* the tables, with their features, of a resource at a version
          Migration,   \* the operations of a resource's migration to a version
          Required,    \* columns the planner will not add or convert by itself
          Legacy,      \* the tables that exist before qbxsql is installed
          Runs,
          Deployments, \* what the runs do: resource, version, baseline (None: ensure)
          None,
          MaxFaults    \* bound on crashes, refused statements, timeouts and lost sessions

Versions == 1..MaxVersion
Statuses == {"none", "pending", "failed", "completed"}
Kinds == {"column", "index", "check", "foreignKey", "exclusion"}
\* An index or a constraint is unfinished while it is invalid (NOT VALID).
Shapes == {"absent", "unfinished", "different", "present"}
Shaped == [Features -> Shapes]

OperationTypes ==
    {"renameTable", "renameColumn", "dropTable", "dropFeature", "addFeature",
     "alterColumn", "addIndex", "dropIndex", "addConstraint", "validate",
     "releaseTable", "sql"}
StatementTypes ==
    (OperationTypes \ {"alterColumn", "addIndex", "addConstraint"})
      \cup {"createTable", "addNotValid", "alterType", "alterDefault", "alterNull",
            "buildIndex", "buildIndexIfMissing", "replace"}
OfTypes(types) ==
    [type : types, table : Tables \cup {None}, feature : Features \cup {None},
     to : Tables \cup Features \cup {None}]
WellFormed(s) ==
    /\ s.type # "sql" => s.table \in Tables
    /\ s.type = "renameTable" => s.to \in Tables \ {s.table}
    /\ s.type \notin {"createTable", "renameTable", "dropTable", "releaseTable", "sql"}
          => s.feature \in Features
    /\ s.type = "renameColumn" => s.to \in Features
Operations == {op \in OfTypes(OperationTypes) : WellFormed(op)}
Statements == {s \in OfTypes(StatementTypes) : WellFormed(s)}

\* A statement to run, under its key in qbxsql_internal.schema_actions: the
\* part of an operation of a migration, or one that reconciles (operation 0).
Tasks == [version : Versions, operation : Nat, part : Nat, statement : Statements]
Task(v, n, k, statement) ==
    [version |-> v, operation |-> n, part |-> k, statement |-> statement]

ASSUME PostgresAssumption ==
    /\ MaxVersion \in Nat /\ MaxFaults \in Nat
    /\ None \notin Resources \cup Runs \cup Tables \cup Features \cup Shaped
    /\ Kind \in [Features -> Kinds]
    /\ \A f \in Required : Kind[f] = "column"
    /\ \A res \in Resources, v \in Versions :
          /\ DOMAIN Declared[res][v] \subseteq Tables
          /\ \A t \in DOMAIN Declared[res][v] : Declared[res][v][t] \subseteq Features
          /\ Migration[res][v] \in Seq(Operations)
    /\ DOMAIN Legacy \subseteq Tables
    /\ \A t \in DOMAIN Legacy : Legacy[t] \in Shaped
    /\ \A job \in Deployments :
          /\ DOMAIN job \subseteq Runs
          /\ \A r \in DOMAIN job :
                /\ job[r].resource \in Resources /\ job[r].version \in Versions
                /\ job[r].baseline # None => job[r].baseline \in 0 .. job[r].version - 1

Stages ==
    {"idle", "interrupted", "look", "refuse", "registry", "ownership", "available",
     "record", "migrate", "next", "mark", "execute", "settle", "failStatement",
     "failMigration", "finish", "complete", "failAdoption", "unlock"}

VARIABLES
    job,         \* the deployment
    tables,      \* the tables of the database, None where there is none
    owner,       \* qbxsql_internal.owned_tables
    registry,    \* schema_registry, version 0 for no row
    journal,     \* schema_migrations, "none" for no row
    actions,     \* schema_actions: the tasks with a row
    completed,   \* ... and those whose status is 'completed'
    adoption,    \* schema_adoptions
    holder,      \* of each resource's advisory lock: a run, or None
    at,          \* where each run is suspended
    work,        \* what each run has read and still has to do
    ran,         \* the transactional statements of migrations that took effect
    faults

marks == <<actions, completed>>
metadata == <<owner, registry, journal, marks, adoption>>
vars == <<job, tables, metadata, holder, at, work, ran, faults>>

Nothing == [t \in Tables |-> None]
Unadopted == [status |-> "none", baseline |-> 0, target |-> 0]
Blank == [resumed |-> FALSE, actual |-> {}, migrations |-> {}, tasks |-> {}, task |-> None]

Init ==
    /\ job \in Deployments
    /\ tables = [t \in Tables |-> IF t \in DOMAIN Legacy THEN Legacy[t] ELSE None]
    /\ owner = Nothing
    /\ registry = [res \in Resources |-> [version |-> 0, tables |-> {}]]
    /\ journal = [res \in Resources |-> [v \in Versions |-> "none"]]
    /\ actions = [res \in Resources |-> {}] /\ completed = [res \in Resources |-> {}]
    /\ adoption = [res \in Resources |-> Unadopted]
    /\ holder = [res \in Resources |-> None]
    /\ at = [r \in Runs |-> "idle"] /\ work = [r \in Runs |-> Blank]
    /\ ran = [res \in Resources |-> {}]
    /\ faults = 0
-----------------------------------------------------------------------------
Resource(r) == job[r].resource
Version(r) == job[r].version
Wanted(r) == Declared[Resource(r)][Version(r)]
Adopts(r) == job[r].baseline # None

\* pendingMigrations(): none without a registry row, for a fresh installation
\* creates the declared state directly.
Pending(r, installed) ==
    {v \in installed + 1 .. Version(r) : Migration[Resource(r)][v] # <<>>}
Upgrades(r) ==
    IF Adopts(r) THEN Pending(r, job[r].baseline)
    ELSE IF registry[Resource(r)].version = 0 THEN {}
    ELSE Pending(r, registry[Resource(r)].version)

OperationsAt(res, v) == {Migration[res][v][n] : n \in DOMAIN Migration[res][v]}
OperationsOf(res, versions) == UNION {OperationsAt(res, v) : v \in versions}
OperationTable(op) ==
    CASE op.type = "renameTable" -> {op.table, op.to}
      [] op.type = "sql" -> {}
      [] OTHER -> {op.table}
TablesOf(operations) == UNION {OperationTable(op) : op \in operations}

\* No table leaves the declaration without a rename, a drop or a release.
TransitionsNamed(r, row) ==
    \A t \in row.tables \ DOMAIN Wanted(r) :
       \E op \in OperationsOf(Resource(r), Upgrades(r)) :
          op.type \in {"renameTable", "dropTable", "releaseTable"} /\ op.table = t

\* postgresMigrationStatements(): constraints are added NOT VALID and then
\* validated, indexes built concurrently.
MigrationStatements(op) ==
    LET Part(type) == [op EXCEPT !.type = type]
    IN  CASE op.type = "alterColumn" -> <<Part("alterType"), Part("alterDefault"), Part("alterNull")>>
          [] op.type = "addConstraint" -> <<Part("addNotValid"), Part("validate")>>
          [] op.type = "addIndex" -> <<Part("buildIndexIfMissing")>>
          [] OTHER -> <<op>>
MigrationTasks(res, v) ==
    UNION {{Task(v, n, k, MigrationStatements(Migration[res][v][n])[k]) :
              k \in DOMAIN MigrationStatements(Migration[res][v][n])} :
            n \in DOMAIN Migration[res][v]}
Concurrent(s) == s.type \in {"buildIndex", "buildIndexIfMissing", "dropIndex"}
-----------------------------------------------------------------------------
(* The planner.                                                              *)
Do(type, t, f) == [type |-> type, table |-> t, feature |-> f, to |-> None]

\* What CREATE TABLE brings about; indexes and foreign keys come after it.
Inline(features) == {f \in features : Kind[f] \in {"column", "check", "exclusion"}}
CreateTable(t, features) ==
    {Do("createTable", t, None)} \cup {Do("addFeature", t, f) : f \in features \ Inline(features)}

\* Faulty: an index is taken to stand once it is there, valid or not.
RepairMissingOnly(t, f, shape) ==
    IF shape # "absent" THEN {} ELSE
    CASE Kind[f] = "column" -> {Do("addFeature", t, f)}
      [] Kind[f] = "index" -> {Do("buildIndex", t, f)}
      [] Kind[f] \in {"check", "foreignKey"} -> {Do("addNotValid", t, f), Do("validate", t, f)}
      [] OTHER -> {Do("replace", t, f)}

\* planExistingTable(), for one declared feature of one existing table.
Repair(t, f, shape) ==
    IF shape = "present" THEN {} ELSE
    CASE Kind[f] = "column" -> {Do(IF shape = "absent" THEN "addFeature" ELSE "alterType", t, f)}
      [] Kind[f] = "index" /\ shape = "absent" -> {Do("buildIndex", t, f)}
      [] Kind[f] = "index" /\ shape = "unfinished" -> {Do("dropIndex", t, f), Do("buildIndex", t, f)}
      [] Kind[f] \in {"check", "foreignKey"} /\ shape = "absent" ->
            {Do("addNotValid", t, f), Do("validate", t, f)}
      [] Kind[f] \in {"check", "foreignKey"} /\ shape = "unfinished" -> {Do("validate", t, f)}
      [] OTHER -> {Do("replace", t, f)}
Automatic(s) ==
    s.type # "replace" /\ ~(s.type \in {"addFeature", "alterType"} /\ s.feature \in Required)

Plan(r, actual) ==
    UNION {IF actual[t] = None THEN CreateTable(t, Wanted(r)[t])
           ELSE UNION {Repair(t, f, actual[t][f]) : f \in Wanted(r)[t]} :
             t \in DOMAIN Wanted(r)}

\* The order of the statements: of a migration, as written; of a plan, a table
\* before its parts, the foreign keys of new tables last, an invalid index
\* dropped before it is built and a constraint added before it is validated.
Deferred(s) == s.type = "addFeature" /\ Kind[s.feature] = "foreignKey"
Before(u, s) ==
    \/ u.type = "createTable" /\ s.table = u.table /\ s # u
    \/ Deferred(s) /\ ~Deferred(u)
    \/ /\ <<u.table, u.feature>> = <<s.table, s.feature>>
       /\ <<u.type, s.type>> \in {<<"dropIndex", "buildIndex">>, <<"addNotValid", "validate">>}
Precedes(u, x) ==
    IF x.operation = 0 THEN Before(u.statement, x.statement)
    ELSE u.operation < x.operation \/ (u.operation = x.operation /\ u.part < x.part)
First(tasks) == {x \in tasks : \A u \in tasks : ~Precedes(u, x)}
-----------------------------------------------------------------------------
(* What PostgreSQL does with a statement.                                    *)
Shape(s) == tables[s.table][s.feature]
Accepted(s) ==
    CASE s.type = "createTable" -> tables[s.table] = None
      [] s.type = "renameTable" -> tables[s.table] # None /\ tables[s.to] = None
      [] s.type \in {"dropTable", "releaseTable", "sql", "dropIndex"} -> TRUE
      [] s.type \in {"dropFeature", "buildIndexIfMissing"} -> tables[s.table] # None
      [] s.type \in {"addFeature", "buildIndex", "addNotValid"} ->
            tables[s.table] # None /\ Shape(s) = "absent"
      [] s.type = "renameColumn" ->
            tables[s.table] # None /\ Shape(s) # "absent" /\ tables[s.table][s.to] = "absent"
      [] OTHER -> tables[s.table] # None /\ Shape(s) # "absent"

Becomes(s, shape) ==
    IF tables[s.table] = None THEN tables
    ELSE [tables EXCEPT ![s.table] = [@ EXCEPT ![s.feature] = shape]]
Altered(r, s) ==
    CASE s.type = "createTable" ->
            [tables EXCEPT ![s.table] =
               [f \in Features |-> IF f \in Inline(Wanted(r)[s.table]) THEN "present" ELSE "absent"]]
      [] s.type = "renameTable" -> [tables EXCEPT ![s.to] = tables[s.table], ![s.table] = None]
      [] s.type = "dropTable" -> [tables EXCEPT ![s.table] = None]
      [] s.type = "renameColumn" ->
            [tables EXCEPT ![s.table] = [@ EXCEPT ![s.to] = Shape(s), ![s.feature] = "absent"]]
      [] s.type \in {"dropFeature", "dropIndex"} -> Becomes(s, "absent")
      [] s.type \in {"addFeature", "alterType", "validate", "buildIndex"} -> Becomes(s, "present")
      [] s.type = "buildIndexIfMissing" ->
            IF Shape(s) = "absent" THEN Becomes(s, "present") ELSE tables
      [] s.type = "addNotValid" -> Becomes(s, "unfinished")
      [] OTHER -> tables

\* A CONCURRENTLY statement that was cancelled, failed or lost its session
\* halfway leaves the index behind, invalid.
Interrupted(s) ==
    IF s.type = "dropIndex"
    THEN IF tables[s.table] # None /\ Shape(s) # "absent" THEN Becomes(s, "unfinished") ELSE tables
    ELSE IF Shape(s) = "absent" THEN Becomes(s, "unfinished") ELSE tables

\* The change of owner in the same transaction.  The claim gives up when the
\* row is another's, the rename violates the primary key when the target has one.
OwnerRefused(r, s) ==
    \/ s.type = "createTable" /\ owner[s.table] \notin {None, Resource(r)}
    \/ s.type = "renameTable" /\ owner[s.table] = Resource(r) /\ owner[s.to] # None
\* Faulty: a new table is claimed by finishSchema(), after the last statement.
OwnedAtFinish(r, s) ==
    CASE s.type = "renameTable" /\ owner[s.table] = Resource(r) ->
            [owner EXCEPT ![s.to] = Resource(r), ![s.table] = None]
      [] s.type \in {"dropTable", "releaseTable"} /\ owner[s.table] = Resource(r) ->
            [owner EXCEPT ![s.table] = None]
      [] OTHER -> owner

Owned(r, s) ==
    CASE s.type = "createTable" -> [owner EXCEPT ![s.table] = Resource(r)]
      [] s.type = "renameTable" /\ owner[s.table] = Resource(r) ->
            [owner EXCEPT ![s.to] = Resource(r), ![s.table] = None]
      [] s.type \in {"dropTable", "releaseTable"} /\ owner[s.table] = Resource(r) ->
            [owner EXCEPT ![s.table] = None]
      [] OTHER -> owner
-----------------------------------------------------------------------------
Fault == faults < MaxFaults /\ faults' = faults + 1
Goto(r, where) == at' = [at EXCEPT ![r] = where]
Note(r, what) == work' = [work EXCEPT ![r] = what]
Connected(r) == holder[Resource(r)] = r
Freed(r) == IF Connected(r) THEN [holder EXCEPT ![Resource(r)] = None] ELSE holder

\* The migration a run is at; none when it reconciles.
Migrating(r) == work[r].migrations # {}
Current(r) == Min(work[r].migrations)

\* Where an error takes a run: the catch of executeStatement(), then that of
\* applyMigration(), then that of adopt(); then the lock is released.
Outwards(r) == IF Adopts(r) THEN "failAdoption" ELSE "unlock"
Upwards(r) == IF Migrating(r) THEN "failMigration" ELSE Outwards(r)
Caught(r) ==
    CASE at[r] \in {"mark", "execute", "settle"} ->
            IF at[r] = "mark" THEN Upwards(r) ELSE "failStatement"
      [] at[r] = "next" -> Upwards(r)
      [] OTHER -> Outwards(r)
Throw(r) ==
    /\ Goto(r, Caught(r))
    /\ UNCHANGED <<job, tables, metadata, holder, work, ran, faults>>

\* A statement on the session that holds the lock took effect: the answer
\* arrives, or is lost with the session.
Answered(r, where, what) ==
    \/ Goto(r, where) /\ Note(r, what) /\ UNCHANGED <<holder, faults>>
    \/ Goto(r, Caught(r)) /\ UNCHANGED work /\ holder' = Freed(r) /\ Fault

\* A statement that only reads.
Reads(r, where, what) ==
    /\ Goto(r, where) /\ Note(r, what)
    /\ UNCHANGED <<job, tables, metadata, holder, ran, faults>>
-----------------------------------------------------------------------------
AcquireLock(r) ==
    /\ at[r] = "idle" /\ holder[Resource(r)] = None
    /\ holder' = [holder EXCEPT ![Resource(r)] = r]
    /\ Goto(r, IF Adopts(r) THEN "available" ELSE "interrupted")
    /\ UNCHANGED <<job, tables, metadata, work, ran, faults>>

\* The wait for the lock is inside adopt()'s try: its catch runs.
AcquireTimesOut(r) ==
    /\ at[r] = "idle" /\ holder[Resource(r)] # None /\ Adopts(r)
    /\ Goto(r, "failAdoption") /\ Fault
    /\ UNCHANGED <<job, tables, metadata, holder, work, ran>>

\* Faulty: an unfinished reconciliation is not resumed.
NeverResumes(r) ==
    /\ at[r] = "interrupted"
    /\ Reads(r, "look", work[r])

\* hasInterruptedReconciliation(): rows of this declaration left by a call
\* that did not finish.
HasInterruptedReconciliation(r) ==
    /\ at[r] = "interrupted"
    /\ LET left == \E x \in actions[Resource(r)] : x.operation = 0 /\ x.version = Version(r)
       IN  Reads(r, IF left THEN "registry" ELSE "look", [work[r] EXCEPT !.resumed = left])

\* refuseImplicitAdoption(): the declared tables that exist, then their owners.
LookForTables(r) ==
    /\ at[r] = "look"
    /\ Reads(r, "refuse", [work[r] EXCEPT !.actual = {t \in DOMAIN Wanted(r) : tables[t] # None}])

\* Faulty: only tables of other owners are refused.
RefuseOthersOnly(r) ==
    /\ at[r] = "refuse"
    /\ LET mine == \A t \in work[r].actual : owner[t] \in {None, Resource(r)}
       IN  \/ ~mine /\ Throw(r)
           \/ mine /\ Reads(r, "registry", work[r])

RefuseImplicitAdoption(r) ==
    /\ at[r] = "refuse"
    /\ LET mine == \A t \in work[r].actual : owner[t] = Resource(r)
       IN  \/ ~mine /\ Throw(r)
           \/ mine /\ Reads(r, "registry", work[r])

\* Faulty: an older declaration is not refused.
ReadRegistryOfAnyVersion(r) ==
    /\ at[r] = "registry"
    /\ \/ ~TransitionsNamed(r, registry[Resource(r)]) /\ Throw(r)
       \/ /\ TransitionsNamed(r, registry[Resource(r)])
          /\ Reads(r, "ownership", [work[r] EXCEPT !.migrations = Upgrades(r)])

ReadRegistry(r) ==
    /\ at[r] = "registry"
    /\ LET row == registry[Resource(r)]
           legal == row.version <= Version(r) /\ TransitionsNamed(r, row)
       IN  \/ ~legal /\ Throw(r)
           \/ legal /\ Reads(r, "ownership", [work[r] EXCEPT !.migrations = Upgrades(r)])

\* assertOwnership(): the declared tables and those of the pending migrations.
AssertOwnership(r) ==
    /\ at[r] = "ownership" /\ Connected(r)
    /\ LET touched == DOMAIN Wanted(r) \cup TablesOf(OperationsOf(Resource(r), work[r].migrations))
           free == \A t \in touched : owner[t] \in {None, Resource(r)}
       IN  \/ ~free /\ Throw(r)
           \/ free /\ Reads(r, "migrate", work[r])

\* assertAdoptionAvailable() and readAdoption().  The rows of the resource do
\* not change while it holds the lock; those of the owners are taken together.
AssertAdoptionAvailable(r) ==
    /\ at[r] = "available"
    /\ LET res == Resource(r)
           touched == DOMAIN Wanted(r) \cup TablesOf(OperationsOf(res, 1 .. Version(r)))
           row == adoption[res]
           available ==
              /\ registry[res].version = 0
              /\ \A t \in touched : owner[t] = None
              /\ \/ row.status = "none"
                 \/ row.baseline = job[r].baseline /\ row.target = Version(r)
       IN  \/ ~available /\ Throw(r)
           \/ available /\ Reads(r, "record", work[r])

RecordAdoption(r) ==
    /\ at[r] = "record" /\ Connected(r)
    /\ adoption' = [adoption EXCEPT ![Resource(r)] =
          [status |-> "pending", baseline |-> job[r].baseline, target |-> Version(r)]]
    /\ Answered(r, "migrate", [work[r] EXCEPT !.migrations = Upgrades(r)])
    /\ UNCHANGED <<job, tables, owner, registry, journal, marks, ran>>
-----------------------------------------------------------------------------
Journal(r, status) ==
    /\ journal' = [journal EXCEPT ![Resource(r)][Current(r)] = status]
    /\ UNCHANGED <<job, tables, owner, registry, marks, adoption, ran>>

BeginMigration(r) ==
    /\ at[r] = "migrate" /\ Migrating(r) /\ Connected(r)
    /\ Journal(r, "pending")
    /\ Answered(r, "next", [work[r] EXCEPT !.tasks = MigrationTasks(Resource(r), Current(r))])

\* planPostgresSchema() on what is there once the migrations have run.
PlanReconciliation(r) ==
    /\ at[r] = "migrate" /\ ~Migrating(r)
    /\ LET plan == Plan(r, tables)
       IN  \/ (\E s \in plan : ~Automatic(s)) /\ Throw(r)
           \/ /\ \A s \in plan : Automatic(s)
              /\ Reads(r, "next", [work[r] EXCEPT !.tasks = {Task(Version(r), 0, 0, s) : s \in plan}])

\* actionCompleted(): a statement marked as completed is skipped.
CheckMark(r) ==
    /\ at[r] = "next"
    /\ \E x \in First(work[r].tasks) :
          IF x \in completed[Resource(r)]
          THEN Reads(r, "next", [work[r] EXCEPT !.tasks = @ \ {x}])
          ELSE Reads(r, "mark", [work[r] EXCEPT !.task = x])

MarkPending(r) ==
    /\ at[r] = "mark" /\ Connected(r)
    /\ actions' = [actions EXCEPT ![Resource(r)] = @ \cup {work[r].task}]
    /\ completed' = [completed EXCEPT ![Resource(r)] = @ \ {work[r].task}]
    /\ Answered(r, "execute", work[r])
    /\ UNCHANGED <<job, tables, owner, registry, journal, adoption, ran>>

Completes(r) == completed' = [completed EXCEPT ![Resource(r)] = @ \cup {work[r].task}]
Done(r) == [work[r] EXCEPT !.tasks = @ \ {work[r].task}, !.task = None]

\* Faulty: the mark is written after the commit.
ExecuteThenMark(r) ==
    /\ at[r] = "execute" /\ Connected(r) /\ ~Concurrent(work[r].task.statement)
    /\ LET s == work[r].task.statement
           refused == ~Accepted(s) \/ OwnerRefused(r, s)
       IN  \/ refused /\ Throw(r)
           \/ /\ ~refused
              /\ tables' = Altered(r, s) /\ owner' = Owned(r, s)
              /\ ran' = IF Migrating(r) THEN [ran EXCEPT ![Resource(r)] = @ \cup {work[r].task}] ELSE ran
              /\ Answered(r, "settle", work[r])
              /\ UNCHANGED <<job, registry, journal, marks, adoption>>

\* The statement, its change of owner and its mark, in one transaction.
ExecuteInTransaction(r) ==
    /\ at[r] = "execute" /\ Connected(r) /\ ~Concurrent(work[r].task.statement)
    /\ LET s == work[r].task.statement
           refused == ~Accepted(s) \/ OwnerRefused(r, s)
       IN  \/ refused /\ Throw(r)
           \/ /\ ~refused
              /\ tables' = Altered(r, s) /\ owner' = Owned(r, s)
              /\ ran' = IF Migrating(r) THEN [ran EXCEPT ![Resource(r)] = @ \cup {work[r].task}] ELSE ran
              /\ Completes(r) /\ Answered(r, "next", Done(r))
              /\ UNCHANGED <<job, registry, journal, actions, adoption>>

\* A CONCURRENTLY statement commits by itself, or is interrupted halfway.
ExecuteConcurrently(r) ==
    /\ at[r] = "execute" /\ Connected(r) /\ Concurrent(work[r].task.statement)
    /\ LET s == work[r].task.statement
       IN  \/ ~Accepted(s) /\ Throw(r)
           \/ /\ Accepted(s) /\ tables' = Altered(r, s)
              /\ Answered(r, "settle", work[r])
              /\ UNCHANGED <<job, metadata, ran>>
           \/ /\ Accepted(s) /\ tables' = Interrupted(s) /\ Goto(r, "failStatement")
              /\ Fault /\ holder' \in {holder, Freed(r)}
              /\ UNCHANGED <<job, metadata, work, ran>>

MarkCompleted(r) ==
    /\ at[r] = "settle" /\ Connected(r)
    /\ Completes(r) /\ Answered(r, "next", Done(r))
    /\ UNCHANGED <<job, tables, owner, registry, journal, actions, adoption, ran>>

CompleteMigration(r) ==
    /\ at[r] = "next" /\ work[r].tasks = {} /\ Migrating(r) /\ Connected(r)
    /\ Journal(r, "completed")
    /\ Answered(r, "migrate", [work[r] EXCEPT !.migrations = @ \ {Current(r)}])

\* Faulty: the error of a statement is recorded, and not thrown again.
SwallowFailure(r) ==
    /\ at[r] = "failStatement" /\ Connected(r)
    /\ completed' = [completed EXCEPT ![Resource(r)] = @ \ {work[r].task}]
    /\ Goto(r, "next") /\ Note(r, Done(r))
    /\ UNCHANGED <<job, tables, owner, registry, journal, actions, adoption, holder, ran, faults>>

\* The catches: what they write may fail as well, and the first error is thrown.
FailStatement(r) ==
    /\ at[r] = "failStatement" /\ Goto(r, Upwards(r))
    /\ \/ /\ Connected(r)
          /\ completed' = [completed EXCEPT ![Resource(r)] = @ \ {work[r].task}]
          /\ UNCHANGED faults
       \/ ~Connected(r) /\ UNCHANGED <<completed, faults>>
       \/ Connected(r) /\ Fault /\ UNCHANGED completed
    /\ UNCHANGED <<job, tables, owner, registry, journal, actions, adoption, holder, work, ran>>

FailMigration(r) ==
    /\ at[r] = "failMigration" /\ Goto(r, Outwards(r))
    /\ \/ Connected(r) /\ Journal(r, "failed") /\ UNCHANGED faults
       \/ ~Connected(r) /\ UNCHANGED <<job, tables, metadata, ran, faults>>
       \/ Connected(r) /\ Fault /\ UNCHANGED <<job, tables, metadata, ran>>
    /\ UNCHANGED <<holder, work>>
-----------------------------------------------------------------------------
\* The second introspection finds nothing left to do.
Verify(r) ==
    /\ at[r] = "next" /\ work[r].tasks = {} /\ ~Migrating(r)
    /\ \/ Plan(r, tables) # {} /\ Throw(r)
       \/ Plan(r, tables) = {} /\ Reads(r, "finish", work[r])

\* Faulty: the upsert overwrites the row of another owner.
ClaimsAnything(r) == TRUE
Claimable(r) == \A t \in DOMAIN Wanted(r) : owner[t] \in {None, Resource(r)}

\* Faulty: the version that is expected next is registered.
RegisteredNext(r) == [version |-> Version(r) + 1, tables |-> DOMAIN Wanted(r)]
Registered(r) == [version |-> Version(r), tables |-> DOMAIN Wanted(r)]

\* finishSchema(): the claims, the registry row and the end of the marks that
\* reconciled, in one transaction.
FinishSchema(r) ==
    /\ at[r] = "finish" /\ Connected(r)
    /\ \/ ~Claimable(r) /\ Throw(r)
       \/ /\ Claimable(r)
          /\ owner' = [t \in Tables |-> IF t \in DOMAIN Wanted(r) THEN Resource(r) ELSE owner[t]]
          /\ registry' = [registry EXCEPT ![Resource(r)] = Registered(r)]
          /\ actions' = [actions EXCEPT ![Resource(r)] = {y \in @ : y.operation # 0}]
          /\ completed' = [completed EXCEPT ![Resource(r)] = {y \in @ : y.operation # 0}]
          /\ Answered(r, IF Adopts(r) THEN "complete" ELSE "unlock", work[r])
          /\ UNCHANGED <<job, tables, journal, adoption, ran>>

AdoptionStatus(r, status) ==
    /\ adoption' = [adoption EXCEPT ![Resource(r)].status = status]
    /\ UNCHANGED <<job, tables, owner, registry, journal, marks, ran>>

CompleteAdoption(r) ==
    /\ at[r] = "complete" /\ Connected(r)
    /\ AdoptionStatus(r, "completed") /\ Answered(r, "unlock", work[r])

\* Written through the pool, whether or not the lock is (still) held; it
\* updates a row, and inserts none.
FailAdoption(r) ==
    /\ at[r] = "failAdoption" /\ Goto(r, "unlock")
    /\ \/ /\ adoption[Resource(r)].status # "none"
          /\ AdoptionStatus(r, "failed") /\ UNCHANGED faults
       \/ /\ adoption[Resource(r)].status = "none"
          /\ UNCHANGED <<job, tables, metadata, ran, faults>>
       \/ Fault /\ UNCHANGED <<job, tables, metadata, ran>>
    /\ UNCHANGED <<holder, work>>

\* The session is unlocked, or destroyed when that fails.
ReleaseLock(r) ==
    /\ at[r] = "unlock"
    /\ holder' = Freed(r) /\ Goto(r, "idle") /\ Note(r, Blank)
    /\ UNCHANGED <<job, tables, metadata, ran, faults>>
-----------------------------------------------------------------------------
\* A statement that needs the session fails once the session is gone.
SessionGone(r) ==
    /\ ~Connected(r)
    /\ \/ at[r] \in {"ownership", "record", "mark", "execute", "settle", "finish", "complete"}
       \/ at[r] = "migrate" /\ Migrating(r)
       \/ at[r] = "next" /\ work[r].tasks = {} /\ Migrating(r)
    /\ Throw(r)

\* A statement is refused, or its wait for a table lock times out.
Refused(r) ==
    /\ at[r] \notin {"idle", "failStatement", "failMigration", "failAdoption", "unlock"}
    /\ Goto(r, Caught(r)) /\ Fault
    /\ UNCHANGED <<job, tables, metadata, holder, work, ran>>

LoseSession(r) ==
    /\ Connected(r) /\ holder' = Freed(r) /\ Fault
    /\ UNCHANGED <<job, tables, metadata, at, work, ran>>

Crash(r) ==
    /\ at[r] # "idle" /\ Fault
    /\ holder' = Freed(r) /\ Goto(r, "idle") /\ Note(r, Blank)
    /\ UNCHANGED <<job, tables, metadata, ran>>

Step(r) ==
    \/ HasInterruptedReconciliation(r) \/ LookForTables(r) \/ RefuseImplicitAdoption(r)
    \/ ReadRegistry(r) \/ AssertOwnership(r) \/ AssertAdoptionAvailable(r) \/ RecordAdoption(r)
    \/ BeginMigration(r) \/ PlanReconciliation(r) \/ CheckMark(r) \/ MarkPending(r)
    \/ ExecuteInTransaction(r) \/ ExecuteConcurrently(r) \/ MarkCompleted(r)
    \/ CompleteMigration(r) \/ FailStatement(r) \/ FailMigration(r)
    \/ Verify(r) \/ FinishSchema(r) \/ CompleteAdoption(r) \/ FailAdoption(r)
    \/ SessionGone(r) \/ ReleaseLock(r)

Next == \E r \in DOMAIN job :
           \/ Step(r) \/ AcquireLock(r) \/ AcquireTimesOut(r)
           \/ Refused(r) \/ LoseSession(r) \/ Crash(r)

Spec == Init /\ [][Next]_vars

\* A server calls again after a restart.  pg_try_advisory_lock is polled, and
\* the calls of the others come to an end.
Fairness == \A r \in Runs : WF_vars(r \in DOMAIN job /\ Step(r)) /\ SF_vars(r \in DOMAIN job /\ AcquireLock(r))
FairSpec == Spec /\ Fairness
-----------------------------------------------------------------------------
Notes == [resumed : BOOLEAN, actual : SUBSET Tables, migrations : SUBSET Versions,
          tasks : SUBSET Tasks, task : Tasks \cup {None}]
AdoptionRows ==
    [status : Statuses, baseline : 0..MaxVersion \cup {None}, target : 0..MaxVersion]

TypeOK ==
    /\ job \in Deployments
    /\ tables \in [Tables -> {None} \cup Shaped]
    /\ owner \in [Tables -> Resources \cup {None}]
    /\ registry \in [Resources -> [version : 0..MaxVersion, tables : SUBSET Tables]]
    /\ journal \in [Resources -> [Versions -> Statuses]]
    /\ actions \in [Resources -> SUBSET Tasks]
    /\ completed \in [Resources -> SUBSET Tasks]
    /\ adoption \in [Resources -> AdoptionRows]
    /\ holder \in [Resources -> Runs \cup {None}]
    /\ at \in [Runs -> Stages]
    /\ work \in [Runs -> Notes]
    /\ ran \in [Resources -> SUBSET Tasks]
    /\ faults \in 0..MaxFaults

\* docs/schemas.md, "The rules": the operations of a migration run once.  No
\* run that can still reach the database is about to execute a transactional
\* statement that took effect, whatever crashed or was lost before (the
\* completion mark commits atomically with the DDL).
StatementsOnce ==
    \A r \in DOMAIN job :
       /\ at[r] \in {"mark", "execute"} /\ Connected(r) /\ Migrating(r)
       /\ ~Concurrent(work[r].task.statement)
       => work[r].task \notin ran[Resource(r)]

\* A migration recorded as completed ran whole: none of its statements is left
\* unmarked, however many calls it took.
RecordedMigrationsRan ==
    \A res \in Resources, v \in Versions :
       journal[res][v] = "completed" => MigrationTasks(res, v) \subseteq completed[res]

\* Tables that two resources of the deployment declare or migrate.  Their locks
\* do not order their calls: what one has checked the other may change before
\* the first acts on it.
Mentioned(r) ==
    DOMAIN Wanted(r) \cup TablesOf(OperationsOf(Resource(r), 1 .. Version(r)))
Contested ==
    {t \in Tables : \E r, s \in DOMAIN job :
        Resource(r) # Resource(s) /\ t \in Mentioned(r) \cap Mentioned(s)}

DeployedOperations == UNION {OperationsOf(Resource(r), 1 .. Version(r)) : r \in DOMAIN job}
Released == {op.table : op \in {o \in DeployedOperations : o.type = "releaseTable"}}

\* Tables that may be there without an owner: those that were there before,
\* those that are released, and what becomes of them, or of a contested table,
\* when it is renamed.
Unclaimed ==
    LET bare == DOMAIN Legacy \cup Released
        renames == {op \in DeployedOperations : op.type = "renameTable"}
        contested == Contested
    IN  {t \in Tables : \A closed \in SUBSET Tables :
            /\ bare \subseteq closed
            /\ \A op \in renames : op.table \in closed \cup contested => op.to \in closed
            => t \in closed}

\* applyActions: a crash can never leave an unowned table behind for the next
\* start to refuse as an implicit adoption.  That goes for a renamed table and
\* for one that two resources contest as well.
CreatedMeansOwned ==
    \A t \in Tables : tables[t] # None /\ owner[t] = None => t \in Unclaimed

\* docs/postgresql.md: only one resource may own a table.  Whatever calls race
\* for a table, an owner loses it by a statement of its own only.
Moves(r) == <<at'[r], work'[r]>> # <<at[r], work[r]>>
OwnersKeepTheirTables ==
    [][\A t \in Tables :
          owner[t] # None /\ owner'[t] # owner[t] =>
             \E r \in DOMAIN job : Resource(r) = owner[t] /\ Connected(r) /\ Moves(r)]_vars

\* docs/schemas.md, "Adopting existing tables": ensure() does not absorb an
\* existing table that nobody manages.  It takes one only when it completes
\* the reconciliation of an interrupted call, or when a migration, its own or
\* one of another resource, has released the table or renamed one to it.
HandedOver(r) ==
    LET operations == UNION {OperationsOf(Resource(s), 1 .. Version(s)) :
                               s \in {y \in DOMAIN job : y = r \/ Resource(y) # Resource(r)}}
    IN  {op.table : op \in {o \in operations : o.type = "releaseTable"}}
          \cup {op.to : op \in {o \in operations : o.type = "renameTable"}}
AbsorbsNothing ==
    [][\A t \in Tables, r \in DOMAIN job :
          /\ Moves(r) /\ ~Adopts(r) /\ tables[t] # None
          /\ owner[t] = None /\ owner'[t] = Resource(r)
          => work[r].resumed \/ t \in HandedOver(r)]_vars

\* docs/schemas.md, "The rules": versions only move forward, whatever versions
\* the servers carry, and even when sessions are lost.
VersionsMoveForward ==
    [][\A res \in Resources : registry'[res].version >= registry[res].version]_vars

\* A registered version stands: each of its tables that no later migration of
\* the resource mentions and no other resource claims is there, is the
\* resource's, and has its features, valid.
Standing(res) ==
    LET v == registry[res].version
        later == TablesOf(OperationsOf(res, v + 1 .. MaxVersion))
    IN  IF v = 0 THEN {} ELSE DOMAIN Declared[res][v] \ (later \cup Contested)
Stands(res) == Declared[res][registry[res].version]
InstalledStands ==
    \A res \in Resources : \A t \in Standing(res) :
       /\ owner[t] = res /\ tables[t] # None
       /\ \A f \in Stands(res)[t] : tables[t][f] = "present"

\* docs/postgresql.md: action journals allow interrupted work to be reconciled.
\* After the last failure the calls that servers make when they start again
\* complete whatever was interrupted, with two exceptions: an invalid index
\* whose drop is already marked as completed is never dropped again; and when a
\* first installation is interrupted and an older declaration installed next,
\* what the first has created is in the way of the statements of the migration.
Undropped(res) ==
    \E y \in completed[res] :
       /\ y.operation = 0 /\ y.statement.type = "dropIndex"
       /\ tables[y.statement.table] # None /\ Shape(y.statement) = "unfinished"
Obstructed(res) ==
    \E v \in registry[res].version + 1 .. MaxVersion :
       \E y \in First(MigrationTasks(res, v) \ completed[res]) :
          y \notin ran[res] /\ ~Accepted(y.statement)
Stuck(res) == Undropped(res) \/ (registry[res].version # 0 /\ Obstructed(res))
Served(res) ==
    \E r \in DOMAIN job : Resource(r) = res /\ Mentioned(r) \cap Contested = {}
Goal(res) == Max({Version(r) : r \in {y \in DOMAIN job : Resource(y) = res}})
Converges ==
    \A res \in Resources :
       <>[](Served(res) => registry[res].version = Goal(res) \/ Stuck(res))
-----------------------------------------------------------------------------
(* The inductive invariant: what ties the marks to what a run has read.      *)
AtStatement == {"mark", "execute", "settle", "failStatement"}
Amid == {"next"} \cup AtStatement
Judged == {"ownership", "record", "migrate", "finish"} \cup Amid

\* What is left of the migration at hand is part of it, and so is the
\* statement a run is at.
PlanAgrees(r) ==
    /\ at[r] \in Amid /\ Migrating(r) =>
          work[r].tasks \subseteq MigrationTasks(Resource(r), Current(r))
    /\ at[r] \in AtStatement => work[r].task \in work[r].tasks

\* As long as a run holds the lock: nobody has registered a newer version than
\* its own, the statement it is at is unmarked, and all it has behind it is
\* marked as completed.
LockAgrees(r) ==
    /\ at[r] \in Judged => registry[Resource(r)].version <= Version(r)
    /\ at[r] \in AtStatement => work[r].task \notin completed[Resource(r)]
    /\ at[r] \in Amid /\ Migrating(r) =>
          MigrationTasks(Resource(r), Current(r)) \ work[r].tasks \subseteq completed[Resource(r)]

\* Whatever took effect for a migration stays marked.
EffectsMarked ==
    \A res \in Resources : \A y \in ran[res] : y \in completed[res] /\ y.operation # 0

IInv ==
    /\ TypeOK /\ EffectsMarked /\ RecordedMigrationsRan
    /\ \A r \in DOMAIN job : PlanAgrees(r) /\ (Connected(r) => LockAgrees(r))
-----------------------------------------------------------------------------
(* What CreatedMeansOwned, InstalledStands and AbsorbsNothing rest on.       *)

\* Whoever owns a table, and whichever version is registered, a deployed run
\* declares or migrates it.
OwnersMention ==
    \A t \in Tables : owner[t] # None =>
       \E r \in DOMAIN job : Resource(r) = owner[t] /\ t \in Mentioned(r)
RegisteredIsDeployed ==
    \A res \in Resources : registry[res].version # 0 =>
       \E r \in DOMAIN job : Resource(r) = res /\ Version(r) = registry[res].version

\* A run migrates up to its own version, and reconciles what it declares; only
\* ensure() looks for unmanaged tables, and only adopt() for owned ones.
PlannedTypes ==
    {"createTable", "addFeature", "alterType", "buildIndex", "dropIndex", "addNotValid",
     "validate", "replace"}
Planned(r, s) ==
    /\ s.type \in PlannedTypes /\ s.table \in DOMAIN Wanted(r)
    /\ s.type # "createTable" => s.feature \in Wanted(r)[s.table]
ScopeAgrees(r) ==
    /\ work[r].migrations \subseteq 1 .. Version(r)
    /\ at[r] \in Amid /\ ~Migrating(r) => \A x \in work[r].tasks : Planned(r, x.statement)
    /\ at[r] \notin IF Adopts(r) THEN {"interrupted", "look", "refuse", "registry"} ELSE {"available"}

\* As long as a run holds the lock: it migrates from the registered version,
\* reconciles nothing that stands, and is about to register what is there.
UpgradesAgree(r) ==
    at[r] \in Judged /\ registry[Resource(r)].version # 0 =>
       ~Adopts(r) /\ \A v \in work[r].migrations : registry[Resource(r)].version < v
StandingAgrees(r) ==
    at[r] \in Amid /\ ~Migrating(r) =>
       \A x \in work[r].tasks : x.statement.table \in Standing(Resource(r)) =>
          /\ x.statement.type # "createTable"
          /\ x.statement.feature \notin Stands(Resource(r))[x.statement.table]
FinishAgrees(r) ==
    at[r] = "finish" =>
       \A t \in DOMAIN Wanted(r) \ Contested :
          tables[t] # None /\ \A f \in Wanted(r)[t] : tables[t][f] = "present"

\* Declared tables that nobody manages: a call that goes on has found none.
Unmanaged(r) ==
    {t \in DOMAIN Wanted(r) \ HandedOver(r) : tables[t] # None /\ owner[t] = None}
AbsorbAgrees(r) ==
    ~Adopts(r) /\ ~work[r].resumed =>
       /\ at[r] = "refuse" => Unmanaged(r) \subseteq work[r].actual
       /\ at[r] \in {"registry"} \cup Judged => Unmanaged(r) = {}

RunAgrees(r) ==
    /\ ScopeAgrees(r)
    /\ Connected(r) => UpgradesAgree(r) /\ StandingAgrees(r) /\ FinishAgrees(r) /\ AbsorbAgrees(r)
InstallInv ==
    /\ IInv /\ OwnersMention /\ RegisteredIsDeployed /\ CreatedMeansOwned /\ InstalledStands
    /\ \A r \in DOMAIN job : RunAgrees(r)
=============================================================================
