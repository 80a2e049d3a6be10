---------------------------- MODULE MySqlSchema ----------------------------
(***************************************************************************)
(* SchemaManager.ensure() and SchemaManager.adopt() of the MySQL lane.     *)
(*                                                                         *)
(* A run is one server process serving one resource at one version of its  *)
(* declaration; it calls ensure() (or adopt()) again after every restart.  *)
(* Runs are serialised by the advisory lock, which lives and dies with the *)
(* session that took it, while the metadata statements of a run go through *)
(* other connections of its pool: a run that lost its session goes on      *)
(* until a statement on that session, or assertLockHeld(), fails.  MySQL   *)
(* commits every statement at once, so one action is one awaited statement *)
(* with the code that follows its answer.                                  *)
(*                                                                         *)
(* A table is the set of its features: columns, indexes, keys, options.    *)
(* Two declarations of one version are taken to be equal (their checksums  *)
(* agree) and every pending operation to be authorised, since the code     *)
(* throws before its first write when they are not.                        *)
(***************************************************************************)
EXTENDS Naturals, Sequences, FiniteSetsExt

CONSTANTS Resources, Tables, Features,
          MaxVersion,  \* of any declaration
          Declared,    \* the tables, with their features, of a resource at a version
          Migration,   \* the operations of a resource's migration to a version
          Required,    \* features the planner will not add to an existing table
          Legacy,      \* the tables that exist before qbxsql is installed
          Runs,
          Job,         \* of each run: resource, version, and baseline (None: ensure)
          None,
          MaxFaults,   \* bound on crashes, refused statements and lost answers
          MaxLosses,   \* bound on lost sessions
          Goals        \* the versions to be installed in the end: resource, version

Versions == 1..MaxVersion
Statuses == {"none", "running", "failed", "success"}
Operations ==
    [type : {"renameTable"}, from : Tables, to : Tables]
      \cup [type : {"dropTable", "releaseTable"}, table : Tables]
      \cup [type : {"addFeature", "dropFeature", "addForeignKey"},
            table : Tables, feature : Features]
      \cup [type : {"renameColumn"}, table : Tables, from : Features, to : Features]
      \cup [type : {"sql"}]

ASSUME SchemaAssumption ==
    /\ MaxVersion \in Nat /\ MaxFaults \in Nat /\ MaxLosses \in Nat
    /\ None \notin Resources \cup Runs \cup Features
    /\ \A fs \in SUBSET Features : fs # None
    /\ \A res \in Resources, v \in Versions :
          /\ DOMAIN Declared[res][v] \subseteq Tables
          /\ \A t \in DOMAIN Declared[res][v] : Declared[res][v][t] \subseteq Features
          /\ Migration[res][v] \in Seq(Operations)
    /\ Required \subseteq Features
    /\ DOMAIN Legacy \subseteq Tables
    /\ \A t \in DOMAIN Legacy : Legacy[t] \subseteq Features
    /\ Goals \subseteq [resource : Resources, version : Versions]
    /\ Job \in [Runs -> [resource : Resources, version : Versions, baseline : {None} \cup Nat]]
    /\ \A r \in Runs : Job[r].baseline # None => Job[r].baseline < Job[r].version

Stages ==
    {"idle", "registry", "adoption", "journal", "ownership", "introspect",
     "refuse", "baseline", "migrate", "begin", "operate", "reconcile", "refresh",
     "reread", "failing", "claim", "apply", "reclaim", "register", "finish",
     "failAdoption", "unlock"}

VARIABLES
    tables,      \* the tables of the database, None where there is none
    owner,       \* qbxsql_schema_tables
    registry,    \* qbxsql_schema_registry, version 0 for no row
    journal,     \* qbxsql_schema_migrations, "none" for no row
    adoption,    \* qbxsql_schema_adoptions
    holder,      \* the run whose session holds the advisory lock, or None
    at,          \* where each run is suspended
    work,        \* what each run has read and still has to do
    ran,         \* how often each raw SQL operation took effect (2: or more)
    faults, losses

metadata == <<owner, registry, journal, adoption>>
vars == <<tables, metadata, holder, at, work, ran, faults, losses>>

Nothing == [t \in Tables |-> None]
Fresh == [v \in Versions |-> "none"]
Unadopted == [status |-> "none", baseline |-> 0, target |-> 0]
Blank == [registry |-> [version |-> 0, tables |-> {}], journal |-> Fresh,
          recorded |-> FALSE, actual |-> Nothing, migrations |-> {},
          operations |-> <<>>, plan |-> {}, claims |-> {}]

Init ==
    /\ tables = [t \in Tables |-> IF t \in DOMAIN Legacy THEN Legacy[t] ELSE None]
    /\ owner = Nothing
    /\ registry = [res \in Resources |-> Blank.registry]
    /\ journal = [res \in Resources |-> Fresh]
    /\ adoption = [res \in Resources |-> Unadopted]
    /\ holder = None
    /\ at = [r \in Runs |-> "idle"] /\ work = [r \in Runs |-> Blank]
    /\ ran = [res \in Resources |-> [v \in Versions |-> [n \in DOMAIN Migration[res][v] |-> 0]]]
    /\ faults = 0 /\ losses = 0
-----------------------------------------------------------------------------
Resource(r) == Job[r].resource
Wanted(r) == Declared[Resource(r)][Job[r].version]
Adopts(r) == Job[r].baseline # None

\* The migrations between what is installed and the declared version; none
\* for a fresh installation, which creates the final state directly.
Pending(r, installed) ==
    {v \in installed + 1 .. Job[r].version : Migration[Resource(r)][v] # <<>>}
Upgrades(r, row) ==
    IF Adopts(r) THEN Pending(r, Job[r].baseline)
    ELSE IF row.version = 0 THEN {} ELSE Pending(r, row.version)

OperationsAt(res, v) == Range(Migration[res][v])
AllOperations == UNION {OperationsAt(res, v) : res \in Resources, v \in Versions}
OperationsOf(r, versions) == UNION {OperationsAt(Resource(r), v) : v \in versions}
Mentioned(op) ==
    CASE op.type = "renameTable" -> {op.from, op.to}
      [] op.type = "sql" -> {}
      [] OTHER -> {op.table}
Relevant(r) ==
    DOMAIN Wanted(r)
      \cup UNION {Mentioned(op) : op \in OperationsOf(r, Upgrades(r, work[r].registry))}

\* No table leaves the declaration without a rename, a drop or a release.
TransitionsNamed(r, row) ==
    \A t \in row.tables \ DOMAIN Wanted(r) :
       \E op \in OperationsOf(r, Upgrades(r, row)) :
          \/ op.type = "renameTable" /\ op.from = t /\ op.to \in DOMAIN Wanted(r)
          \/ op.type \in {"dropTable", "releaseTable"} /\ op.table = t

\* The planner: what the declaration asks for and the tables lack.
Changes(r, actual) ==
    {[table |-> t, feature |-> None] : t \in {u \in DOMAIN Wanted(r) : actual[u] = None}}
      \cup UNION {{[table |-> t, feature |-> f] : f \in Wanted(r)[t] \ actual[t]} :
                    t \in {u \in DOMAIN Wanted(r) : actual[u] # None}}
Created(changes) == {c.table : c \in {d \in changes : d.feature = None}}
Automatic(changes) == \A c \in changes : c.feature \notin Required

\* operationNeeded(): whether it throws, and what it answers.
Impossible(op, actual) ==
    CASE op.type = "renameTable" -> (actual[op.from] = None) = (actual[op.to] = None)
      [] op.type \in {"addFeature", "addForeignKey"} -> actual[op.table] = None
      [] op.type = "renameColumn" ->
            ~(actual[op.table] # None
                /\ (op.from \in actual[op.table]) # (op.to \in actual[op.table]))
      [] OTHER -> FALSE
Needed(r, op, actual) ==
    CASE op.type = "renameTable" -> actual[op.from] # None
      [] op.type \in {"addFeature", "addForeignKey"} -> op.feature \notin actual[op.table]
      [] op.type = "renameColumn" -> op.from \in actual[op.table]
      [] op.type = "dropTable" -> actual[op.table] # None
      [] op.type = "dropFeature" -> actual[op.table] # None /\ op.feature \in actual[op.table]
      [] op.type = "releaseTable" -> owner[op.table] = Resource(r)
      [] op.type = "sql" -> TRUE

\* What the statement of an operation does to the tables.
Altered(op) ==
    CASE op.type = "renameTable" ->
            [tables EXCEPT ![op.to] = tables[op.from], ![op.from] = None]
      [] op.type = "dropTable" -> [tables EXCEPT ![op.table] = None]
      [] op.type \in {"addFeature", "addForeignKey"} ->
            [tables EXCEPT ![op.table] = @ \cup {op.feature}]
      [] op.type = "dropFeature" -> [tables EXCEPT ![op.table] = @ \ {op.feature}]
      [] op.type = "renameColumn" ->
            [tables EXCEPT ![op.table] = (@ \ {op.from}) \cup {op.to}]
      [] op.type = "sql" -> tables
-----------------------------------------------------------------------------
Fault == faults < MaxFaults /\ faults' = faults + 1 /\ UNCHANGED losses
Loss == losses < MaxLosses /\ losses' = losses + 1 /\ UNCHANGED faults
Goto(r, where) == at' = [at EXCEPT ![r] = where]
Note(r, what) == work' = [work EXCEPT ![r] = what]

\* Where an error takes a run: the catch of applyMigration() records it, then
\* that of adopt(), then the lock is released.
Outwards(r) == IF work[r].recorded THEN "failAdoption" ELSE "unlock"
Caught(r) == IF at[r] \in {"operate", "reconcile", "refresh"} THEN "failing" ELSE Outwards(r)
Throw(r) ==
    Goto(r, Caught(r)) /\ UNCHANGED <<tables, metadata, holder, work, ran, faults, losses>>

\* A statement that wrote something is answered, or its answer is lost.
Answered(r, where, what) ==
    \/ Goto(r, where) /\ Note(r, what) /\ UNCHANGED <<faults, losses>>
    \/ Goto(r, Caught(r)) /\ UNCHANGED work /\ Fault

\* ... and DDL, whose answer is lost only with the session that holds the lock.
DdlAnswered(r, where, what) ==
    \/ Goto(r, where) /\ Note(r, what) /\ UNCHANGED <<holder, faults, losses>>
    \/ Goto(r, Caught(r)) /\ UNCHANGED work /\ holder' = None /\ Loss

\* A statement that only reads.
Reads(r, where, what) ==
    /\ Goto(r, where) /\ Note(r, what)
    /\ UNCHANGED <<tables, metadata, holder, ran, faults, losses>>
-----------------------------------------------------------------------------
\* A call whose wait for the lock times out has changed nothing.
AcquireLock(r) ==
    /\ at[r] = "idle" /\ holder = None
    /\ holder' = r /\ Goto(r, "registry")
    /\ UNCHANGED <<tables, metadata, work, ran, faults, losses>>

\* Faulty: an older declaration is not refused.
ReadRegistryOfAnyVersion(r) ==
    /\ at[r] = "registry"
    /\ Reads(r, IF Adopts(r) THEN "adoption" ELSE "journal",
             [work[r] EXCEPT !.registry = registry[Resource(r)]])

ReadRegistry(r) ==
    /\ at[r] = "registry"
    /\ LET row == registry[Resource(r)]
           refused == IF Adopts(r) THEN row.version # 0 ELSE row.version > Job[r].version
       IN  \/ refused /\ Throw(r)
           \/ /\ ~refused
              /\ Reads(r, IF Adopts(r) THEN "adoption" ELSE "journal",
                       [work[r] EXCEPT !.registry = row])

\* Faulty: a recorded adoption cannot be resumed.
ReadAdoptionOnce(r) ==
    /\ at[r] = "adoption"
    /\ \/ adoption[Resource(r)].status # "none" /\ Throw(r)
       \/ adoption[Resource(r)].status = "none" /\ Reads(r, "introspect", work[r])

\* A recorded adoption is resumed by the same call, and no other.
ReadAdoption(r) ==
    /\ at[r] = "adoption"
    /\ LET row == adoption[Resource(r)]
           mine == row.baseline = Job[r].baseline /\ row.target = Job[r].version
       IN  \/ row.status # "none" /\ ~mine /\ Throw(r)
           \/ /\ row.status = "none" \/ mine
              /\ Reads(r, "introspect", [work[r] EXCEPT !.recorded = row.status # "none"])

\* Migrations journaled as successful are skipped.
ReadJournal(r) ==
    /\ at[r] = "journal"
    /\ LET rows == journal[Resource(r)]
           row == work[r].registry
           left == {v \in Upgrades(r, row) : rows[v] # "success"}
       IN  \/ ~TransitionsNamed(r, row) /\ Throw(r)
           \/ /\ TransitionsNamed(r, row)
              /\ Reads(r, IF Adopts(r) THEN "migrate" ELSE "ownership",
                       [work[r] EXCEPT !.journal = rows, !.migrations = left])

\* Faulty: ensure() takes any owner for its own.
CheckAdoptedOwnership(r) ==
    /\ at[r] = "ownership"
    /\ LET free == Adopts(r) => \A t \in Relevant(r) : owner[t] = None
           legacy == Adopts(r) => \E t \in Relevant(r) : work[r].actual[t] # None
       IN  \/ ~(free /\ legacy) /\ Throw(r)
           \/ /\ free /\ legacy
              /\ Reads(r, IF Adopts(r) THEN "baseline" ELSE "introspect", work[r])

\* assertOwnership() of ensure(); assertAdoptionOwnership() and
\* assertAdoptionHasLegacyTables() of adopt().
CheckOwnership(r) ==
    /\ at[r] = "ownership"
    /\ LET free == \A t \in Relevant(r) :
                      owner[t] = None \/ (~Adopts(r) /\ owner[t] = Resource(r))
           legacy == Adopts(r) => \E t \in Relevant(r) : work[r].actual[t] # None
       IN  \/ ~(free /\ legacy) /\ Throw(r)
           \/ /\ free /\ legacy
              /\ Reads(r, IF Adopts(r) THEN "baseline" ELSE "introspect", work[r])

\* introspectDatabase(): before anything else, after a statement of a
\* migration, and after each migration.
Introspect(r) ==
    \E next \in {<<"introspect", IF ~Adopts(r) THEN "refuse"
                                 ELSE IF work[r].recorded THEN "journal" ELSE "ownership">>,
                 <<"refresh", "operate">>, <<"reread", "migrate">>} :
       at[r] = next[1] /\ Reads(r, next[2], [work[r] EXCEPT !.actual = tables])

Unmanaged(r) == {t \in Relevant(r) : work[r].actual[t] # None /\ owner[t] = None}
RefuseImplicitAdoption(r) ==
    /\ at[r] = "refuse"
    /\ \/ Unmanaged(r) # {} /\ Throw(r)
       \/ Unmanaged(r) = {} /\ Reads(r, "migrate", work[r])

WriteAdoptionBaseline(r) ==
    /\ at[r] = "baseline"
    /\ \/ adoption[Resource(r)].status # "none" /\ Throw(r)
       \/ /\ adoption[Resource(r)].status = "none"
          /\ adoption' = [adoption EXCEPT ![Resource(r)] =
                [status |-> "running", baseline |-> Job[r].baseline, target |-> Job[r].version]]
          /\ Answered(r, "journal", [work[r] EXCEPT !.recorded = TRUE])
          /\ UNCHANGED <<tables, owner, registry, journal, holder, ran>>
-----------------------------------------------------------------------------
\* The migration a run is at, and its next operation.
Current(r) == Min(work[r].migrations)
Operation(r) == Head(work[r].operations)
Position(r) == Len(Migration[Resource(r)][Current(r)]) - Len(work[r].operations) + 1
Operating(r) == at[r] = "operate" /\ work[r].operations # <<>>

Journal(r, status) ==
    /\ journal' = [journal EXCEPT ![Resource(r)][Current(r)] = status]
    /\ UNCHANGED <<tables, owner, registry, adoption, holder, ran>>

\* Faulty: only a recorded failure stops a migration with raw SQL.
ResumableUnlessFailed(r) ==
    work[r].journal[Current(r)] # "failed"
      \/ \A op \in OperationsAt(Resource(r), Current(r)) : op.type # "sql"

\* Raw SQL is not resumed: how much of it took effect is unknown.
Resumable(r) ==
    work[r].journal[Current(r)] = "none"
      \/ \A op \in OperationsAt(Resource(r), Current(r)) : op.type # "sql"

StartMigration(r) ==
    /\ at[r] = "migrate" /\ work[r].migrations # {}
    /\ LET starts == holder = r /\ Resumable(r)
       IN  \/ ~starts /\ Throw(r)
           \/ starts /\ Reads(r, "begin", work[r])

BeginMigration(r) ==
    /\ at[r] = "begin"
    /\ Journal(r, "running")
    /\ Answered(r, "operate",
                [work[r] EXCEPT !.operations = Migration[Resource(r)][Current(r)]])

SkipOperation(r) ==
    /\ Operating(r)
    /\ LET op == Operation(r)  actual == work[r].actual
       IN  \/ Impossible(op, actual) /\ Throw(r)
           \/ /\ ~Impossible(op, actual) /\ ~Needed(r, op, actual)
              /\ Reads(r, "reconcile", work[r])

\* The statement runs on the session that holds the lock (runOn), but for the
\* online foreign key, which gets a connection of its own.
AlterTable(r) ==
    /\ Operating(r) /\ Operation(r).type \notin {"releaseTable", "addForeignKey"}
    /\ ~Impossible(Operation(r), work[r].actual)
    /\ Needed(r, Operation(r), work[r].actual)
    /\ \/ holder # r /\ Throw(r)
       \/ /\ holder = r
          /\ tables' = Altered(Operation(r))
          /\ ran' = IF Operation(r).type # "sql" THEN ran
                    ELSE [ran EXCEPT ![Resource(r)][Current(r)][Position(r)] = IF @ = 0 THEN 1 ELSE 2]
          /\ DdlAnswered(r, "reconcile", work[r])
          /\ UNCHANGED metadata

AddOnlineForeignKey(r) ==
    /\ Operating(r) /\ Operation(r).type = "addForeignKey"
    /\ ~Impossible(Operation(r), work[r].actual)
    /\ Needed(r, Operation(r), work[r].actual)
    /\ LET op == Operation(r)
           accepted == tables[op.table] # None /\ op.feature \notin tables[op.table]
       IN  \/ ~accepted /\ Throw(r)
           \/ /\ accepted
              /\ tables' = Altered(op)
              /\ Answered(r, "reconcile", work[r])
              /\ UNCHANGED <<metadata, holder, ran>>

ReleaseTable(r) ==
    /\ Operating(r) /\ Operation(r).type = "releaseTable"
    /\ Needed(r, Operation(r), work[r].actual)
    /\ owner' = [owner EXCEPT ![Operation(r).table] = None]
    /\ Answered(r, "reconcile", work[r])
    /\ UNCHANGED <<tables, registry, journal, adoption, holder, ran>>

\* UPDATE qbxsql_schema_tables refuses a second row for one table.
Renamed(r, from, to) ==
    IF owner[from] = Resource(r)
    THEN [owner EXCEPT ![to] = Resource(r), ![from] = None] ELSE owner
Disowned(r, t) == IF owner[t] = Resource(r) THEN [owner EXCEPT ![t] = None] ELSE owner
RenameConflict(r, op) ==
    /\ op.type = "renameTable"
    /\ IF owner[op.from] = Resource(r) THEN owner[op.to] # None
       ELSE owner[op.to] \notin {None, Resource(r)}

ReconcileOwnership(r) ==
    /\ at[r] = "reconcile"
    /\ LET op == Operation(r)
           altered == op.type # "releaseTable" /\ Needed(r, op, work[r].actual)
       IN  \/ RenameConflict(r, op) /\ Throw(r)
           \/ /\ ~RenameConflict(r, op)
              /\ owner' = CASE op.type = "renameTable" -> Renamed(r, op.from, op.to)
                            [] op.type = "dropTable" -> Disowned(r, op.table)
                            [] OTHER -> owner
              /\ Answered(r, IF altered THEN "refresh" ELSE "operate",
                          [work[r] EXCEPT !.operations = Tail(@)])
              /\ UNCHANGED <<tables, registry, journal, adoption, holder, ran>>

\* Faulty: the status is not one of those the reader knows.
CompletesAsApplied(r) ==
    /\ at[r] = "operate" /\ work[r].operations = <<>>
    /\ Journal(r, "applied")
    /\ Answered(r, "reread", [work[r] EXCEPT !.migrations = @ \ {Current(r)}])

CompleteMigration(r) ==
    /\ at[r] = "operate" /\ work[r].operations = <<>>
    /\ Journal(r, "success")
    /\ Answered(r, "reread", [work[r] EXCEPT !.migrations = @ \ {Current(r)}])

\* When the status cannot be recorded either, the first error is the one thrown.
FailMigration(r) ==
    /\ at[r] = "failing" /\ Goto(r, Outwards(r)) /\ UNCHANGED work
    /\ \/ Journal(r, "failed") /\ UNCHANGED <<faults, losses>>
       \/ Fault /\ UNCHANGED <<tables, metadata, holder, ran>>
-----------------------------------------------------------------------------
\* Faulty: tables are created first and claimed once they stand.
ClaimLater(r, claims, then) == then

\* A set of tables to claim may be empty.
ClaimFirst(r, claims, then) == IF claims = {} THEN then ELSE "claim"

\* planSchema() after the migrations, and assertLockHeld().
PlanChanges(r) ==
    /\ at[r] = "migrate" /\ work[r].migrations = {}
    /\ LET plan == Changes(r, work[r].actual)
           starts == Automatic(plan) /\ holder = r
       IN  \/ ~starts /\ Throw(r)
           \/ /\ starts
              /\ Reads(r, ClaimFirst(r, Created(plan), "apply"),
                       [work[r] EXCEPT !.plan = plan, !.claims = Created(plan)])

\* claimTables(), before the tables are created and once they stand.
ClaimTable(r) ==
    /\ at[r] \in {"claim", "reclaim"}
    /\ \E t \in work[r].claims :
          \/ owner[t] \notin {None, Resource(r)} /\ Throw(r)
          \/ /\ owner[t] \in {None, Resource(r)}
             /\ owner' = [owner EXCEPT ![t] = Resource(r)]
             /\ LET left == work[r].claims \ {t}
                IN  Answered(r, IF left # {} THEN at[r]
                                ELSE IF at[r] = "claim" THEN "apply" ELSE "register",
                             [work[r] EXCEPT !.claims = left])
             /\ UNCHANGED <<tables, registry, journal, adoption, holder, ran>>

ApplyChange(r) ==
    /\ at[r] = "apply"
    /\ \E change \in work[r].plan :
          \/ holder # r /\ Throw(r)
          \/ /\ holder = r
             /\ tables' = [tables EXCEPT ![change.table] =
                              IF change.feature = None THEN Wanted(r)[change.table]
                              ELSE @ \cup {change.feature}]
             /\ DdlAnswered(r, "apply", [work[r] EXCEPT !.plan = @ \ {change}])
             /\ UNCHANGED <<metadata, ran>>

\* Faulty: only the tables this call created are claimed.
VerifyOnly(r) ==
    /\ at[r] = "apply" /\ work[r].plan = {}
    /\ LET verified == Changes(r, tables) = {} /\ holder = r
       IN  \/ ~verified /\ Throw(r)
           \/ verified /\ Reads(r, "register", work[r])

\* The second introspection finds nothing left, and the lock is still held.
Verify(r) ==
    /\ at[r] = "apply" /\ work[r].plan = {}
    /\ LET verified == Changes(r, tables) = {} /\ holder = r
       IN  \/ ~verified /\ Throw(r)
           \/ /\ verified
              /\ Reads(r, IF DOMAIN Wanted(r) = {} THEN "register" ELSE "reclaim",
                       [work[r] EXCEPT !.claims = DOMAIN Wanted(r)])

WriteRegistry(r) ==
    /\ at[r] = "register"
    /\ registry' = [registry EXCEPT ![Resource(r)] =
                       [version |-> Job[r].version, tables |-> DOMAIN Wanted(r)]]
    /\ Answered(r, IF Adopts(r) THEN "finish" ELSE "unlock", work[r])
    /\ UNCHANGED <<tables, owner, journal, adoption, holder, ran>>

AdoptionStatus(r, status) ==
    /\ adoption' = [adoption EXCEPT ![Resource(r)].status = status]
    /\ UNCHANGED <<tables, owner, registry, journal, holder, ran>>

FinishAdoption(r) ==
    /\ at[r] = "finish"
    /\ AdoptionStatus(r, "success") /\ Answered(r, "unlock", work[r])

FailAdoption(r) ==
    /\ at[r] = "failAdoption" /\ Goto(r, "unlock") /\ UNCHANGED work
    /\ \/ AdoptionStatus(r, "failed") /\ UNCHANGED <<faults, losses>>
       \/ Fault /\ UNCHANGED <<tables, metadata, holder, ran>>

Freed(r) == IF holder = r THEN None ELSE holder
ReleaseLock(r) ==
    /\ at[r] = "unlock"
    /\ holder' = Freed(r) /\ Goto(r, "idle") /\ Note(r, Blank)
    /\ UNCHANGED <<tables, metadata, ran, faults, losses>>
-----------------------------------------------------------------------------
\* A statement is refused, or its wait for a table lock times out.
Refused(r) ==
    /\ at[r] \notin {"idle", "failing", "failAdoption", "unlock"}
    /\ Goto(r, Caught(r)) /\ Fault
    /\ UNCHANGED <<tables, metadata, holder, work, ran>>

LoseSession(r) ==
    /\ holder = r /\ holder' = None /\ Loss
    /\ UNCHANGED <<tables, metadata, at, work, ran>>

Crash(r) ==
    /\ at[r] # "idle" /\ Fault
    /\ holder' = Freed(r) /\ Goto(r, "idle") /\ Note(r, Blank)
    /\ UNCHANGED <<tables, metadata, ran>>

Step(r) ==
    \/ ReadRegistry(r) \/ ReadAdoption(r) \/ ReadJournal(r)
    \/ CheckOwnership(r) \/ Introspect(r) \/ RefuseImplicitAdoption(r)
    \/ WriteAdoptionBaseline(r) \/ StartMigration(r) \/ BeginMigration(r)
    \/ SkipOperation(r) \/ AlterTable(r) \/ AddOnlineForeignKey(r) \/ ReleaseTable(r)
    \/ ReconcileOwnership(r) \/ CompleteMigration(r) \/ FailMigration(r)
    \/ PlanChanges(r) \/ ClaimTable(r) \/ ApplyChange(r) \/ Verify(r)
    \/ WriteRegistry(r) \/ FinishAdoption(r) \/ FailAdoption(r) \/ ReleaseLock(r)

Next == \E r \in Runs :
           \/ Step(r) \/ AcquireLock(r)
           \/ Refused(r) \/ LoseSession(r) \/ Crash(r)

Spec == Init /\ [][Next]_vars

\* A server calls again after a restart; GET_LOCK serves its waiters in turn.
Fairness == \A r \in Runs : WF_vars(Step(r)) /\ SF_vars(AcquireLock(r))
FairSpec == Spec /\ Fairness
-----------------------------------------------------------------------------
Notes ==
    [registry : [version : 0..MaxVersion, tables : SUBSET Tables],
     journal : [Versions -> Statuses], recorded : BOOLEAN,
     actual : [Tables -> {None} \cup SUBSET Features],
     migrations : SUBSET Versions, operations : Seq(Operations),
     plan : SUBSET [table : Tables, feature : Features \cup {None}],
     claims : SUBSET Tables]

TypeOK ==
    /\ tables \in [Tables -> {None} \cup SUBSET Features]
    /\ owner \in [Tables -> Resources \cup {None}]
    /\ registry \in [Resources -> [version : 0..MaxVersion, tables : SUBSET Tables]]
    /\ journal \in [Resources -> [Versions -> Statuses]]
    /\ adoption \in [Resources -> [status : Statuses, baseline : Nat, target : 0..MaxVersion]]
    /\ holder \in Runs \cup {None}
    /\ at \in [Runs -> Stages]
    /\ work \in [Runs -> Notes]
    /\ DOMAIN ran = Resources
    /\ \A res \in Resources : /\ DOMAIN ran[res] = Versions
                              /\ \A v \in Versions : ran[res][v] \in [DOMAIN Migration[res][v] -> 0..2]
    /\ faults \in 0..MaxFaults /\ losses \in 0..MaxLosses

\* docs/schemas.md, "The rules": raw SQL is never blindly re-run, whichever
\* runs crash, lose the lock or race for it (the journal row is written before
\* the statement and read by the next attempt).
RawSqlOnce ==
    \A res \in Resources, v \in Versions :
       \A n \in DOMAIN Migration[res][v] : ran[res][v][n] <= 1

Renames == {op \in AllOperations : op.type = "renameTable"}
RenameTargets == {op.to : op \in Renames}
Released == {op.table : op \in {o \in AllOperations : o.type = "releaseTable"}}
Departing == {op.from : op \in Renames}
               \cup {op.table : op \in {o \in AllOperations : o.type = "dropTable"}}

\* A table qbxsql created has an owner from the moment it exists, so that the
\* next start does not take it for a legacy table (applySchemaPlan).  Tables
\* that a rename brings about or a release gives away are another matter, and,
\* once a session is lost, those that were renamed or dropped and created again:
\* the ownership row may be taken away late.
MayBeBare(t) ==
    \/ t \in DOMAIN Legacy \cup RenameTargets \cup Released
    \/ losses # 0 /\ t \in Departing
CreatedMeansOwned ==
    \A t \in Tables : tables[t] # None /\ owner[t] = None => MayBeBare(t)

\* A run changes no table that another resource owns, and ensure() none that
\* nobody owns (assertOwnership, refuseImplicitAdoption, claimTables), but for
\* what the migrations of its resource have given away.  An adoption that is
\* resumed does not look again at tables that another resource declares too.
\* Without the lock a run changes more: once a session is lost, a claim of the
\* run that lost it may fall between the two checks of another run.
MentionedBy(r) ==
    DOMAIN Wanted(r) \cup UNION {Mentioned(op) : op \in OperationsOf(r, 1 .. Job[r].version)}
GivenAway(r) ==
    LET own == OperationsOf(r, 1 .. Job[r].version)
        released == {op.table : op \in {o \in own : o.type = "releaseTable"}}
        renames == {op \in own : op.type = "renameTable"}
    IN  {t \in Tables : \A closed \in SUBSET Tables :
            /\ released \subseteq closed
            /\ \A op \in renames : op.from \in closed => op.to \in closed
            => t \in closed}
Rivals(res, t) == {s \in Runs : Resource(s) # res /\ t \in MentionedBy(s)}
ChangedBy(t, r) ==
    /\ tables[t] # None /\ tables'[t] # tables[t]
    /\ <<at'[r], work'[r]>> # <<at[r], work[r]>>
OnlyOwnTables ==
    [][losses' = 0 =>
        \A t \in Tables, r \in Runs : ChangedBy(t, r) =>
           \/ owner[t] = Resource(r)
           \/ owner[t] = None /\ (Adopts(r) \/ t \in GivenAway(r))
           \/ Adopts(r) /\ Rivals(Resource(r), t) # {}]_vars

\* Restarts are enough: after the last failure, the calls the servers make when
\* they start again complete whatever was interrupted, wherever that was
\* (claimTables before CREATE TABLE, the recorded adoption, the journal).
Converges == \A goal \in Goals : <>[](registry[goal.resource].version = goal.version)

\* docs/schemas.md, "The rules": versions only move forward, whatever versions
\* the servers carry.  That takes the lock: a run that lost it between its last
\* assertLockHeld() and writeRegistry() overwrites the row of a later version.
VersionsMoveForward ==
    [][losses' = 0 =>
        \A res \in Resources : registry'[res].version >= registry[res].version]_vars

\* docs/schemas.md, "Ownership": ownership follows a successful rename.
OwnershipFollowsRename ==
    \A t \in RenameTargets :
       (tables[t] # None /\ owner[t] = None) ~> (tables[t] = None \/ owner[t] # None)

\* A registered version stands: each of its tables that no later migration of
\* the resource mentions, and no adoption of another resource, is there, with
\* its features, and is the resource's.  Once a session is lost this goes for
\* the tables that no migration of the resource and no other resource mentions.
Undisturbed(res, t) ==
    losses # 0 => Rivals(res, t) = {} /\ t \notin
                     UNION {Mentioned(op) : op \in UNION {OperationsAt(res, v) : v \in Versions}}
Standing(res) ==
    LET v == registry[res].version
        later == UNION {OperationsAt(res, n) : n \in v + 1 .. MaxVersion}
    IN  IF v = 0 THEN {} ELSE
        {t \in DOMAIN Declared[res][v] \ UNION {Mentioned(op) : op \in later} :
           Undisturbed(res, t) /\ \A s \in Rivals(res, t) : ~Adopts(s)}
InstalledStands ==
    \A res \in Resources : \A t \in Standing(res) :
       /\ owner[t] = res /\ tables[t] # None
       /\ Declared[res][registry[res].version][t] \subseteq tables[t]

-----------------------------------------------------------------------------
(* Why raw SQL runs once, as an inductive invariant.  A statement that has  *)
(* run is journaled (Journaled), a run begins a migration with raw SQL only *)
(* if it read no journal row (StageAgrees), and while it holds the lock     *)
(* what it read stays true of the statements (HolderAgrees).                *)
Journaled ==
    \A res \in Resources, v \in Versions :
       \A n \in DOMAIN Migration[res][v] : ran[res][v][n] # 0 => journal[res][v] # "none"

Amid == {"operate", "reconcile", "refresh"}
Ending == {"failing", "failAdoption", "unlock"}
StageAgrees(r) ==
    /\ at[r] \in {"idle", "registry"} => work[r] = Blank
    /\ at[r] \in Amid \cup {"begin", "failing"} => work[r].migrations # {}
    /\ at[r] = "baseline" => Adopts(r)
    /\ at[r] \in {"claim", "apply"} => \A c \in work[r].plan : c.table \in DOMAIN Wanted(r)
    /\ at[r] = "begin" => Resumable(r)
    /\ at[r] = "reconcile" => work[r].operations # <<>>
    /\ at[r] \in Amid =>
          /\ journal[Resource(r)][Current(r)] # "none"
          /\ Len(work[r].operations) <= Len(Migration[Resource(r)][Current(r)])
          /\ Range(work[r].operations) \subseteq OperationsAt(Resource(r), Current(r))

\* What the holder of the lock still has to run has not run before.
Untouched(r) ==
    \A v \in work[r].migrations :
       /\ work[r].journal[v] = "none"
       /\ at[r] \in Amid => v # Current(r)
       => \A n \in DOMAIN Migration[Resource(r)][v] : ran[Resource(r)][v][n] = 0
AheadIsUntouched(r) ==
    (\E op \in OperationsAt(Resource(r), Current(r)) : op.type = "sql")
       => \A n \in DOMAIN Migration[Resource(r)][Current(r)] :
             n > Position(r) \/ (n = Position(r) /\ at[r] # "reconcile")
                => ran[Resource(r)][Current(r)][n] = 0

\* A table the holder has seen is still there, unless it has just altered it.
Altering(r) ==
    \/ at[r] = "refresh"
    \/ /\ at[r] = "reconcile" /\ Operation(r).type # "releaseTable"
       /\ Needed(r, Operation(r), work[r].actual)
HolderAgrees(r) ==
    holder = r =>
       /\ at[r] \notin Ending => Untouched(r)
       /\ at[r] \in Amid => AheadIsUntouched(r)
       /\ at[r] \notin Ending /\ ~Altering(r) =>
             \A t \in Tables : work[r].actual[t] # None => tables[t] # None
       /\ at[r] \in {"claim", "apply"} =>
             \A c \in work[r].plan : c.feature # None => tables[c.table] # None

IInv ==
    /\ TypeOK /\ RawSqlOnce /\ Journaled
    /\ \A r \in Runs : StageAgrees(r) /\ HolderAgrees(r)

(* Why versions only move forward while no session is lost: whoever is in   *)
(* the middle of a call holds the lock, and since it read the registry row  *)
(* nobody else has written it.                                              *)
ForwardInv ==
    losses = 0 => \A r \in Runs :
       /\ at[r] # "idle" => holder = r
       /\ at[r] \notin {"idle", "registry"} \cup Ending =>
             registry[Resource(r)].version <= Job[r].version

-----------------------------------------------------------------------------
(* What CreatedMeansOwned, OnlyOwnTables and InstalledStands rest on.       *)
OwnersMention ==
    \A t \in Tables : owner[t] # None =>
       \E r \in Runs : Resource(r) = owner[t] /\ t \in MentionedBy(r)

\* A run migrates from the version it has read, and claims what it declares.
WorkAgrees(r) ==
    /\ work[r].migrations \subseteq Upgrades(r, work[r].registry)
    /\ at[r] = "adoption" => Adopts(r)
    /\ at[r] \in {"claim", "reclaim"} => work[r].claims \subseteq DOMAIN Wanted(r)

\* The holder of the lock creates no table that is there, and a statement that
\* it ran has renamed or dropped its table.
Sighted(r) ==
    \/ at[r] \in {"refuse", "baseline", "migrate", "begin", "reread"} \cup Amid
    \/ Adopts(r) /\ at[r] \in {"journal", "ownership"}
Renaming(r) == at[r] = "reconcile" /\ Altering(r) /\ Operation(r).type = "renameTable"
SightAgrees(r) ==
    holder = r =>
       /\ Sighted(r) /\ ~Altering(r) =>
             \A t \in Tables : work[r].actual[t] = None => tables[t] = None
       /\ Renaming(r) => tables[Operation(r).from] = None
       /\ at[r] = "reconcile" /\ Altering(r) /\ Operation(r).type = "dropTable" =>
             tables[Operation(r).table] = None
       /\ at[r] \in {"claim", "apply"} =>
             \A c \in work[r].plan : c.feature = None => tables[c.table] = None

\* A table is claimed before it is created, and what is registered was claimed
\* and verified.
ClaimAgrees(r) ==
    at[r] \in {"claim", "apply"} =>
       \A c \in work[r].plan :
          c.feature = None /\ (losses # 0 => c.table \notin Departing \cup Released) =>
             owner[c.table] = Resource(r) \/ (at[r] = "claim" /\ c.table \in work[r].claims)
VerifiedAgrees(r) ==
    at[r] \in {"reclaim", "register"} =>
       \A t \in DOMAIN Wanted(r) : Undisturbed(Resource(r), t) =>
          /\ tables[t] # None /\ Wanted(r)[t] \subseteq tables[t]
          /\ owner[t] = Resource(r) \/ (at[r] = "reclaim" /\ t \in work[r].claims)

\* While no session is lost, the row a run has read is the registered one, and
\* ensure() finds the tables it works on its own, or its resource's gift.
Busy == Stages \ ({"idle", "registry", "finish"} \cup Ending)
Acting == {"migrate", "begin", "reread", "claim", "apply"} \cup Amid
RowAgrees(r) ==
    losses = 0 /\ at[r] \in Busy =>
       /\ work[r].registry = registry[Resource(r)]
       /\ Adopts(r) => registry[Resource(r)].version = 0
OwnAgrees(r) ==
    losses = 0 /\ ~Adopts(r) =>
       /\ at[r] \in {"introspect", "refuse"} \cup Acting =>
             \A t \in Relevant(r) : owner[t] \in {None, Resource(r)}
       /\ at[r] \in Acting =>
             \A t \in Relevant(r) : tables[t] # None =>
                \/ owner[t] = Resource(r) \/ t \in GivenAway(r)
                \/ Renaming(r) /\ t = Operation(r).to
       /\ Renaming(r) => owner[Operation(r).from] = Resource(r) \/ Operation(r).to \in GivenAway(r)

RunAgrees(r) ==
    /\ WorkAgrees(r) /\ SightAgrees(r) /\ ClaimAgrees(r) /\ VerifiedAgrees(r)
    /\ RowAgrees(r) /\ OwnAgrees(r)
InstallInv ==
    /\ IInv /\ ForwardInv /\ OwnersMention /\ CreatedMeansOwned /\ InstalledStands
    /\ \A r \in Runs : RunAgrees(r)

=============================================================================
