----------------------- MODULE PostgresInstallProofs -----------------------
(***************************************************************************)
(* What ensure() and adopt() of the PostgreSQL lane leave behind: every    *)
(* table they create is owned, what they have registered stands, and they  *)
(* absorb nothing.  Calls of different resources interleave freely; what   *)
(* the proofs rest on is that a statement touches tables its own run       *)
(* declares or migrates, and nothing else.                                 *)
(***************************************************************************)
EXTENDS PostgresSchemaProofs

(* The parts of a migration's operation touch the tables it names.         *)
LEMMA OperationScope ==
    ASSUME NEW res \in Resources, NEW v \in Versions, NEW y \in MigrationTasks(res, v)
    PROVE  \E op \in OperationsAt(res, v) :
              /\ op \in Operations
              /\ OperationTable(y.statement) = OperationTable(op)
              /\ y.statement.type \in {"renameTable", "dropTable", "releaseTable"} => y.statement = op
              /\ y.statement.type # "createTable"
  <1>1. PICK n \in DOMAIN Migration[res][v] :
           \E k \in DOMAIN MigrationStatements(Migration[res][v][n]) :
              y = Task(v, n, k, MigrationStatements(Migration[res][v][n])[k])
    BY DEF MigrationTasks
  <1> DEFINE op == Migration[res][v][n]
  <1>2. PICK k \in DOMAIN MigrationStatements(op) : y = Task(v, n, k, MigrationStatements(op)[k])
    BY <1>1
  <1>3. op \in Operations /\ op \in OperationsAt(res, v)
    BY <1>1, PostgresAssumption DEF OperationsAt
  <1>4. y.statement = MigrationStatements(op)[k]
    BY <1>2 DEF Task
  <1>5. op = [type |-> op.type, table |-> op.table, feature |-> op.feature, to |-> op.to]
        /\ op.type \in OperationTypes
    BY <1>3 DEF Operations, OfTypes
  <1> HIDE DEF op
  <1>6. CASE op.type \in {"alterColumn", "addConstraint", "addIndex"}
    <2>1. PICK type \in {"alterType", "alterDefault", "alterNull", "addNotValid", "validate",
                         "buildIndexIfMissing"} : y.statement = [op EXCEPT !.type = type]
      <3>1. CASE op.type = "alterColumn"
        <4>1. MigrationStatements(op) = <<[op EXCEPT !.type = "alterType"],
                 [op EXCEPT !.type = "alterDefault"], [op EXCEPT !.type = "alterNull"]>>
          BY <3>1 DEF MigrationStatements
        <4> QED BY <1>2, <1>4, <4>1
      <3>2. CASE op.type = "addConstraint"
        <4>1. MigrationStatements(op) =
                 <<[op EXCEPT !.type = "addNotValid"], [op EXCEPT !.type = "validate"]>>
          BY <3>2 DEF MigrationStatements
        <4> QED BY <1>2, <1>4, <4>1
      <3>3. CASE op.type = "addIndex"
        <4>1. MigrationStatements(op) = <<[op EXCEPT !.type = "buildIndexIfMissing"]>>
          BY <3>3 DEF MigrationStatements
        <4> QED BY <1>2, <1>4, <4>1
      <3> QED BY <1>6, <3>1, <3>2, <3>3
    <2>2. y.statement.type = type /\ y.statement.table = op.table
      BY <1>5, <2>1
    <2> QED BY <1>3, <1>6, <2>2 DEF OperationTable
  <1>7. CASE op.type \notin {"alterColumn", "addConstraint", "addIndex"}
    <2>1. MigrationStatements(op) = <<op>>
      BY <1>7 DEF MigrationStatements
    <2>2. y.statement = op
      BY <1>2, <1>4, <2>1
    <2> QED BY <1>3, <1>5, <2>2 DEF OperationTypes
  <1> QED BY <1>6, <1>7

(* A statement leaves the tables that it does not name as they are.        *)
LEMMA StatementLocal ==
    ASSUME TypeOK, NEW r \in DOMAIN job, NEW st \in Statements,
           NEW t \in Tables \ OperationTable(st)
    PROVE  /\ Altered(r, st)[t] = tables[t] /\ Owned(r, st)[t] = owner[t]
           /\ Concurrent(st) => Interrupted(st)[t] = tables[t]
  <1>1. tables \in [Tables -> {None} \cup Shaped] /\ owner \in [Tables -> Resources \cup {None}]
    BY DEF TypeOK
  <1>2. /\ st.type = "renameTable" => t # st.table /\ t # st.to
        /\ st.type \notin {"renameTable", "sql"} => t # st.table
    BY DEF OperationTable
  <1>3. st.type # "sql" => \A shape : Becomes(st, shape)[t] = tables[t]
    BY <1>1, <1>2 DEF Becomes
  <1>4. Altered(r, st)[t] = tables[t]
    BY <1>1, <1>2, <1>3 DEF Altered
  <1>5. Owned(r, st)[t] = owner[t]
    BY <1>1, <1>2 DEF Owned
  <1>6. Concurrent(st) => Interrupted(st)[t] = tables[t]
    BY <1>1, <1>2, <1>3 DEF Interrupted, Concurrent
  <1> QED BY <1>4, <1>5, <1>6

(* Only three kinds of statement make a table or take one away.            *)
LEMMA StatementExistence ==
    ASSUME TypeOK, NEW r \in DOMAIN job, NEW st \in Statements, Accepted(st), NEW t \in Tables
    PROVE  /\ st.type \notin {"createTable", "renameTable", "dropTable"} =>
                 (Altered(r, st)[t] = None <=> tables[t] = None)
           /\ Concurrent(st) => (Interrupted(st)[t] = None <=> tables[t] = None)
  <1>1. tables \in [Tables -> {None} \cup Shaped] /\ None \notin Shaped
    BY PostgresAssumption DEF TypeOK
  <1>2. \A shape \in Shapes : Becomes(st, shape)[t] = None <=> tables[t] = None
    <2> SUFFICES ASSUME NEW shape \in Shapes
                 PROVE  Becomes(st, shape)[t] = None <=> tables[t] = None
      OBVIOUS
    <2>1. CASE tables[st.table] # None /\ st.table = t
      <3>1. tables[t] \in Shaped
        BY <1>1, <2>1
      <3>2. [tables[t] EXCEPT ![st.feature] = shape] \in Shaped
        BY <3>1 DEF Shaped
      <3> QED BY <1>1, <2>1, <3>2 DEF Becomes
    <2>2. CASE ~(tables[st.table] # None /\ st.table = t)
      BY <1>1, <2>2 DEF Becomes
    <2> QED BY <2>1, <2>2
  <1>3. {"absent", "unfinished", "present"} \subseteq Shapes
    BY DEF Shapes
  <1>4. ASSUME st.type = "renameColumn"
        PROVE  Altered(r, st)[t] = None <=> tables[t] = None
    <2>1. st.table \in Tables /\ tables[st.table] \in Shaped
      BY <1>1, <1>4 DEF Statements, WellFormed, Accepted
    <2>2. Shape(st) \in Shapes
      BY <1>4, <2>1 DEF Shape, Shaped, Statements, WellFormed
    <2>3. [tables[st.table] EXCEPT ![st.to] = Shape(st), ![st.feature] = "absent"] \in Shaped
      BY <1>3, <2>1, <2>2 DEF Shaped
    <2> QED BY <1>1, <1>4, <2>1, <2>3 DEF Altered
  <1>5. Concurrent(st) => (Interrupted(st)[t] = None <=> tables[t] = None)
    BY <1>2, <1>3 DEF Interrupted
  <1>6. ASSUME st.type \notin {"createTable", "renameTable", "dropTable"}
        PROVE  Altered(r, st)[t] = None <=> tables[t] = None
    <2>1. CASE st.type \in {"dropFeature", "dropIndex"}
      BY <1>2, <1>3, <2>1 DEF Altered
    <2>2. CASE st.type \in {"addFeature", "alterType", "validate", "buildIndex"}
      BY <1>2, <1>3, <2>2 DEF Altered
    <2>3. CASE st.type = "buildIndexIfMissing"
      BY <1>2, <1>3, <2>3 DEF Altered
    <2>4. CASE st.type = "addNotValid"
      BY <1>2, <1>3, <2>4 DEF Altered
    <2>5. CASE st.type \notin {"dropFeature", "dropIndex", "addFeature", "alterType", "validate",
                               "buildIndex", "buildIndexIfMissing", "addNotValid", "renameColumn"}
      BY <1>6, <2>5 DEF Altered
    <2> QED BY <1>4, <2>1, <2>2, <2>3, <2>4, <2>5
  <1> QED BY <1>5, <1>6

(* What the planner plans alters one feature of a table that is there.     *)
LEMMA PlannedLocal ==
    ASSUME TypeOK, NEW r \in DOMAIN job, NEW st \in Statements, st.type \in PlannedTypes,
           st.type # "createTable", tables[st.table] # None,
           NEW f \in Features, f # st.feature
    PROVE  /\ Altered(r, st)[st.table][f] = tables[st.table][f] /\ Owned(r, st) = owner
           /\ Concurrent(st) => Interrupted(st)[st.table][f] = tables[st.table][f]
  <1>1. /\ tables \in [Tables -> {None} \cup Shaped] /\ st.table \in Tables
        /\ st.type \in {"addFeature", "alterType", "buildIndex", "dropIndex", "addNotValid",
                        "validate", "replace"}
    BY DEF TypeOK, Statements, WellFormed, PlannedTypes
  <1>2. tables[st.table] \in Shaped
    BY <1>1
  <1>3. \A shape : Becomes(st, shape)[st.table][f] = tables[st.table][f]
    BY <1>1, <1>2 DEF Becomes, Shaped
  <1>4. Altered(r, st)[st.table][f] = tables[st.table][f] /\ Owned(r, st) = owner
    BY <1>1, <1>3 DEF Altered, Owned
  <1>5. Concurrent(st) => Interrupted(st)[st.table][f] = tables[st.table][f]
    BY <1>3 DEF Interrupted
  <1> QED BY <1>4, <1>5

-----------------------------------------------------------------------------
(* A step of r leaves the notes of the others alone, and writes nothing    *)
(* that it does not mention, nothing without its lock, and no other row of *)
(* the registry; whichever declared tables are unmanaged afterwards were   *)
(* so before.                                                              *)
Frame(r) ==
    /\ job' = job
    /\ \A u \in DOMAIN job \ {r} : at'[u] = at[u] /\ work'[u] = work[u]
    /\ \A res \in Resources : holder'[res] \in {holder[res], None, r}
Footprint(r) ==
    /\ Frame(r)
    /\ registry' # registry => Connected(r)
    /\ \A res \in Resources \ {Resource(r)} : registry'[res] = registry[res]
    /\ \A t \in Tables :
          tables'[t] # tables[t] \/ owner'[t] # owner[t] => Connected(r) /\ t \in Mentioned(r)
    /\ \A u \in DOMAIN job :
          u = r \/ Resource(u) # Resource(r) => Unmanaged(u)' \subseteq Unmanaged(u)

(* What follows from the deployment alone.                                 *)
LEMMA Derived ==
    ASSUME job' = job
    PROVE  /\ Contested' = Contested /\ DeployedOperations' = DeployedOperations
           /\ Unclaimed' = Unclaimed
           /\ \A u \in DOMAIN job :
                 /\ Resource(u)' = Resource(u) /\ Version(u)' = Version(u)
                 /\ Wanted(u)' = Wanted(u) /\ (Adopts(u)' <=> Adopts(u))
                 /\ Mentioned(u)' = Mentioned(u) /\ HandedOver(u)' = HandedOver(u)
                 /\ \A s : Planned(u, s)' <=> Planned(u, s)
  <1>1. \A u : /\ Resource(u)' = Resource(u) /\ Version(u)' = Version(u)
               /\ Wanted(u)' = Wanted(u) /\ (Adopts(u)' <=> Adopts(u))
    BY DEF Resource, Version, Wanted, Adopts
  <1>2. \A u : Mentioned(u)' = Mentioned(u)
    BY <1>1 DEF Mentioned, TablesOf, OperationsOf
  <1>3. Contested' = Contested
    BY <1>1, <1>2 DEF Contested
  <1>4. DeployedOperations' = DeployedOperations
    BY <1>1 DEF DeployedOperations
  <1>5. Unclaimed' = Unclaimed
    BY <1>3, <1>4 DEF Unclaimed, Released
  <1>6. \A u : HandedOver(u)' = HandedOver(u)
    BY <1>1 DEF HandedOver
  <1>7. \A u, s : Planned(u, s)' <=> Planned(u, s)
    BY <1>1 DEF Planned
  <1> QED BY <1>1, <1>2, <1>3, <1>4, <1>5, <1>6, <1>7

LEMMA SameStanding ==
    ASSUME job' = job, NEW res, registry'[res] = registry[res]
    PROVE  Standing(res)' = Standing(res) /\ Stands(res)' = Stands(res)
  BY Derived DEF Standing, Stands

(* What two runs of different resources both mention is contested.         *)
LEMMA ContestedTables ==
    ASSUME TypeOK, NEW r \in DOMAIN job, NEW u \in DOMAIN job, Resource(u) # Resource(r),
           NEW t \in Tables, t \in Mentioned(u), t \in Mentioned(r)
    PROVE  t \in Contested
  BY DEF Contested

LEMMA OthersRun ==
    ASSUME InstallInv, NEW r \in DOMAIN job, Footprint(r), NEW u \in DOMAIN job \ {r}
    PROVE  RunAgrees(u)'
  <1>1. RunAgrees(u) /\ IInv /\ TypeOK
    BY DEF InstallInv, IInv
  <1>2. /\ at'[u] = at[u] /\ work'[u] = work[u] /\ job' = job
        /\ Resource(u) \in Resources /\ Resource(r) \in Resources /\ u # None
    BY <1>1, JobTyped DEF Footprint, Frame
  <1>3. /\ Resource(u)' = Resource(u) /\ Version(u)' = Version(u) /\ Wanted(u)' = Wanted(u)
        /\ (Adopts(u)' <=> Adopts(u)) /\ HandedOver(u)' = HandedOver(u) /\ Contested' = Contested
        /\ \A s : Planned(u, s)' <=> Planned(u, s)
    BY <1>2, Derived
  <1>4. Migrating(u)' <=> Migrating(u)
    BY <1>2 DEF Migrating
  <1>5. ScopeAgrees(u)'
    BY <1>1, <1>2, <1>3, <1>4 DEF RunAgrees, ScopeAgrees
  <1>6. ASSUME Connected(u)'
        PROVE  UpgradesAgree(u)' /\ StandingAgrees(u)' /\ FinishAgrees(u)' /\ AbsorbAgrees(u)'
    <2>1. Connected(u) /\ holder[Resource(u)] = u
      BY <1>2, <1>3, <1>6 DEF Connected, Footprint, Frame
    <2>2. UpgradesAgree(u) /\ StandingAgrees(u) /\ FinishAgrees(u) /\ AbsorbAgrees(u)
      BY <1>1, <2>1 DEF RunAgrees
    <2>3. Resource(u) # Resource(r) \/ ~Connected(r)
      BY <2>1 DEF Connected
    <2>4. registry'[Resource(u)] = registry[Resource(u)]
      BY <1>2, <2>3 DEF Footprint
    <2>5. Standing(Resource(u))' = Standing(Resource(u)) /\ Stands(Resource(u))' = Stands(Resource(u))
      BY <1>2, <1>3, <2>4, SameStanding
    <2>6. UpgradesAgree(u)'
      BY <1>2, <1>3, <2>2, <2>4 DEF UpgradesAgree
    <2>7. StandingAgrees(u)'
      BY <1>2, <1>3, <1>4, <2>2, <2>5 DEF StandingAgrees
    <2>8. ASSUME NEW t \in DOMAIN Wanted(u) \ Contested PROVE tables'[t] = tables[t]
      <3>1. t \in Tables /\ t \in Mentioned(u)
        BY <1>1, JobTyped DEF Mentioned
      <3> QED BY <1>1, <2>3, <3>1, ContestedTables DEF Footprint
    <2>9. FinishAgrees(u)'
      BY <1>2, <1>3, <2>2, <2>8 DEF FinishAgrees
    <2>10. Unmanaged(u)' \subseteq Unmanaged(u)
      <3>1. CASE Resource(u) # Resource(r)
        BY <3>1 DEF Footprint
      <3>2. CASE ~Connected(r)
        <4>1. \A t \in Tables : tables'[t] = tables[t] /\ owner'[t] = owner[t]
          BY <3>2 DEF Footprint
        <4>2. DOMAIN Wanted(u) \subseteq Tables
          BY <1>1, JobTyped
        <4> QED BY <1>3, <4>1, <4>2 DEF Unmanaged
      <3> QED BY <2>3, <3>1, <3>2
    <2>11. AbsorbAgrees(u)'
      BY <1>2, <1>3, <2>2, <2>10 DEF AbsorbAgrees
    <2> QED BY <2>6, <2>7, <2>9, <2>11
  <1> QED BY <1>5, <1>6 DEF RunAgrees

-----------------------------------------------------------------------------
(* Where a run's own steps take it.  To a stage of which nothing is said:  *)
LEMMA Elsewhere ==
    ASSUME NEW r \in DOMAIN job, job' = job, at'[r] \notin {"refuse", "registry"} \cup Judged,
           at'[r] \in {"interrupted", "look"} => ~Adopts(r), at'[r] = "available" => Adopts(r),
           work'[r].migrations \subseteq 1 .. Version(r)
    PROVE  RunAgrees(r)'
  <1>1. at'[r] \notin Amid /\ at'[r] # "finish" /\ Version(r)' = Version(r) /\ (Adopts(r)' <=> Adopts(r))
    BY Derived DEF Judged
  <1> QED BY <1>1 DEF RunAgrees, ScopeAgrees, UpgradesAgree, StandingAgrees, FinishAgrees, AbsorbAgrees

(* Onwards, with a plan that may be new:                                   *)
LEMMA Proceeds ==
    ASSUME NEW r \in DOMAIN job, RunAgrees(r), job' = job, at[r] \in Judged,
           at'[r] \in Judged, work'[r].migrations \subseteq work[r].migrations,
           work'[r].resumed = work[r].resumed,
           at'[r] \in Amid /\ ~Migrating(r)' => \A x \in work'[r].tasks : Planned(r, x.statement),
           Connected(r)' =>
              /\ Connected(r) /\ registry'[Resource(r)] = registry[Resource(r)]
              /\ Unmanaged(r)' \subseteq Unmanaged(r) /\ StandingAgrees(r)'
              /\ at'[r] = "finish" => FinishAgrees(r)'
    PROVE  RunAgrees(r)'
  <1>1. /\ Resource(r)' = Resource(r) /\ Version(r)' = Version(r) /\ (Adopts(r)' <=> Adopts(r))
        /\ \A s : Planned(r, s)' <=> Planned(r, s)
    BY Derived
  <1>2. ScopeAgrees(r)'
    BY <1>1 DEF RunAgrees, ScopeAgrees, Judged, Amid, AtStatement
  <1>3. ASSUME Connected(r)' PROVE UpgradesAgree(r)' /\ FinishAgrees(r)' /\ AbsorbAgrees(r)'
    <2>1. UpgradesAgree(r) /\ AbsorbAgrees(r) /\ Unmanaged(r)' \subseteq Unmanaged(r)
          /\ registry'[Resource(r)] = registry[Resource(r)]
      BY <1>3 DEF RunAgrees
    <2>2. at'[r] # "refuse"
      BY DEF Judged, Amid, AtStatement
    <2>3. UpgradesAgree(r)'
      BY <1>1, <2>1 DEF UpgradesAgree
    <2>4. AbsorbAgrees(r)'
      BY <1>1, <2>1, <2>2 DEF AbsorbAgrees
    <2> QED BY <1>3, <2>3, <2>4 DEF FinishAgrees
  <1> QED BY <1>2, <1>3 DEF RunAgrees

(* Onwards through what is left of its statements:                         *)
LEMMA StaysAmid ==
    ASSUME NEW r \in DOMAIN job, RunAgrees(r), job' = job, at[r] \in Amid, at'[r] \in Amid,
           work'[r].migrations = work[r].migrations, work'[r].resumed = work[r].resumed,
           work'[r].tasks \subseteq work[r].tasks,
           Connected(r)' =>
              /\ Connected(r) /\ registry'[Resource(r)] = registry[Resource(r)]
              /\ Unmanaged(r)' \subseteq Unmanaged(r)
    PROVE  RunAgrees(r)'
  <1>1. Migrating(r)' <=> Migrating(r)
    BY DEF Migrating
  <1>2. at[r] \in Judged /\ at'[r] \in Judged /\ at'[r] # "finish"
    BY DEF Judged, Amid, AtStatement
  <1>3. at'[r] \in Amid /\ ~Migrating(r)' => \A x \in work'[r].tasks : Planned(r, x.statement)
    BY <1>1 DEF RunAgrees, ScopeAgrees
  <1>4. ASSUME Connected(r)' PROVE StandingAgrees(r)'
    <2>1. StandingAgrees(r) /\ registry'[Resource(r)] = registry[Resource(r)]
      BY <1>4 DEF RunAgrees
    <2>2. Resource(r)' = Resource(r)
      BY Derived
    <2>3. Standing(Resource(r))' = Standing(Resource(r)) /\ Stands(Resource(r))' = Stands(Resource(r))
      BY <2>1, <2>2, SameStanding
    <2> QED BY <1>1, <2>1, <2>2, <2>3 DEF StandingAgrees
  <1> QED BY <1>2, <1>3, <1>4, Proceeds

(* To where an error takes it:                                             *)
LEMMA CaughtRuns ==
    ASSUME NEW r \in DOMAIN job, RunAgrees(r), job' = job, at'[r] = Caught(r), work'[r] = work[r],
           Connected(r)' =>
              /\ Connected(r) /\ registry'[Resource(r)] = registry[Resource(r)]
              /\ Unmanaged(r)' \subseteq Unmanaged(r)
    PROVE  RunAgrees(r)'
  <1>1. \/ Caught(r) \in {"unlock", "failAdoption", "failMigration"}
        \/ Caught(r) = "failStatement" /\ at[r] \in {"execute", "settle"}
    BY DEF Caught, Upwards, Outwards
  <1>2. CASE Caught(r) \in {"unlock", "failAdoption", "failMigration"}
    <2>1. at'[r] \notin {"refuse", "registry", "interrupted", "look", "available"} \cup Judged
      BY <1>2 DEF Judged, Amid, AtStatement
    <2> QED BY <2>1, Elsewhere DEF RunAgrees, ScopeAgrees
  <1>3. CASE Caught(r) = "failStatement" /\ at[r] \in {"execute", "settle"}
    <2>1. at[r] \in Amid /\ at'[r] \in Amid
      BY <1>3 DEF Amid, AtStatement
    <2> QED BY <2>1, StaysAmid
  <1> QED BY <1>1, <1>2, <1>3

-----------------------------------------------------------------------------
(* A statement touches tables that its run mentions: those of an operation *)
(* of the migration at hand, or a declared table.                          *)
LEMMA AtHandScope ==
    ASSUME InstallInv, NEW r \in DOMAIN job, at[r] \in AtStatement
    PROVE  LET st == work[r].task.statement
           IN  /\ st \in Statements /\ OperationTable(st) \subseteq Mentioned(r)
               /\ Migrating(r) =>
                     /\ Current(r) \in work[r].migrations /\ Current(r) \in 1 .. Version(r)
                     /\ Current(r) \in Versions
                     /\ \E op \in OperationsAt(Resource(r), Current(r)) :
                           /\ op \in OperationsOf(Resource(r), 1 .. Version(r)) /\ op \in Operations
                           /\ OperationTable(st) = OperationTable(op)
                           /\ st.type \in {"renameTable", "dropTable", "releaseTable"} => st = op
                           /\ st.type # "createTable"
               /\ ~Migrating(r) => Planned(r, st)
  <1> DEFINE st == work[r].task.statement
  <1>1. IInv /\ TypeOK /\ RunAgrees(r) /\ PlanAgrees(r)
    BY DEF InstallInv, IInv
  <1>2. st \in Statements /\ work[r].task \in work[r].tasks
    BY <1>1, AtHand
  <1>3. at[r] \in Amid /\ Resource(r) \in Resources
    BY <1>1, JobTyped DEF Amid
  <1>4. CASE Migrating(r)
    <2>1. Current(r) \in work[r].migrations /\ Current(r) \in 1 .. Version(r) /\ Current(r) \in Versions
      BY <1>1, <1>4, CurrentTyped DEF RunAgrees, ScopeAgrees
    <2>2. work[r].task \in MigrationTasks(Resource(r), Current(r))
      BY <1>1, <1>2, <1>3, <1>4 DEF PlanAgrees
    <2>3. PICK op \in OperationsAt(Resource(r), Current(r)) :
             /\ op \in Operations /\ OperationTable(st) = OperationTable(op)
             /\ st.type \in {"renameTable", "dropTable", "releaseTable"} => st = op
             /\ st.type # "createTable"
      BY <1>3, <2>1, <2>2, OperationScope
    <2>4. op \in OperationsOf(Resource(r), 1 .. Version(r))
      BY <2>1, <2>3 DEF OperationsOf
    <2>5. OperationTable(op) \subseteq Mentioned(r)
      BY <2>4 DEF Mentioned, TablesOf
    <2> QED BY <1>2, <1>4, <2>1, <2>3, <2>4, <2>5
  <1>5. CASE ~Migrating(r)
    <2>1. Planned(r, st)
      BY <1>1, <1>2, <1>3, <1>5 DEF RunAgrees, ScopeAgrees
    <2>2. OperationTable(st) = {st.table} /\ st.table \in DOMAIN Wanted(r)
      BY <2>1 DEF Planned, PlannedTypes, OperationTable
    <2> QED BY <1>2, <1>5, <2>1, <2>2 DEF Mentioned
  <1> QED BY <1>4, <1>5

(* The two ways in which a statement takes effect, whole or halfway.       *)
Executes(r, st) ==
    /\ Accepted(st) /\ registry' = registry
    /\ \/ tables' = Altered(r, st) /\ owner' = Owned(r, st)
       \/ Concurrent(st) /\ tables' = Interrupted(st) /\ owner' = owner

(* Nothing that exists is without an owner afterwards that was not so      *)
(* before, but for what is released, and what is renamed by a run that     *)
(* does not own it.                                                        *)
LEMMA ExecutesUnowned ==
    ASSUME InstallInv, NEW r \in DOMAIN job, at[r] \in AtStatement,
           Executes(r, work[r].task.statement),
           NEW t \in Tables, tables'[t] # None, owner'[t] = None
    PROVE  \/ tables[t] # None /\ owner[t] = None
           \/ /\ work[r].task.statement \in OperationsOf(Resource(r), 1 .. Version(r))
              /\ work[r].task.statement.type = "releaseTable" /\ t = work[r].task.statement.table
           \/ /\ work[r].task.statement \in OperationsOf(Resource(r), 1 .. Version(r))
              /\ work[r].task.statement.type = "renameTable" /\ t = work[r].task.statement.to
              /\ work[r].task.statement.table \in Tables
              /\ tables[work[r].task.statement.table] # None
              /\ owner[work[r].task.statement.table] # Resource(r)
  <1> DEFINE st == work[r].task.statement
  <1>1. IInv /\ TypeOK /\ None \notin Shaped
    BY PostgresAssumption DEF InstallInv, IInv
  <1>2. /\ st \in Statements
        /\ Migrating(r) => st.type # "createTable"
              /\ (st.type \in {"renameTable", "dropTable", "releaseTable"} =>
                     st \in OperationsOf(Resource(r), 1 .. Version(r)))
        /\ ~Migrating(r) => st.type \in PlannedTypes
    BY AtHandScope DEF Planned
  <1>3. st.type \in {"renameTable", "releaseTable"} =>
           st \in OperationsOf(Resource(r), 1 .. Version(r))
    BY <1>2 DEF PlannedTypes
  <1> HIDE DEF st
  <1>4. /\ tables \in [Tables -> {None} \cup Shaped] /\ owner \in [Tables -> Resources \cup {None}]
        /\ Resource(r) \in Resources /\ None \notin Resources
        /\ Accepted(st)
        /\ \/ tables' = Altered(r, st) /\ owner' = Owned(r, st)
           \/ Concurrent(st) /\ tables' = Interrupted(st) /\ owner' = owner
    BY <1>1, JobTyped, PostgresAssumption DEF TypeOK, Executes, st
  <1>5. CASE t \notin OperationTable(st)
    <2>1. tables'[t] = tables[t] /\ owner'[t] = owner[t]
      BY <1>1, <1>2, <1>4, <1>5, StatementLocal
    <2> QED BY <2>1
  <1>6. CASE t \in OperationTable(st) /\ st.type = "createTable"
    <2>1. t = st.table /\ ~Concurrent(st)
      BY <1>6 DEF OperationTable, Concurrent
    <2>2. owner'[t] = Resource(r)
      BY <1>4, <1>6, <2>1 DEF Owned
    <2> QED BY <1>4, <2>2
  <1>7. CASE t \in OperationTable(st) /\ st.type = "renameTable"
    <2>1. /\ t \in {st.table, st.to} /\ ~Concurrent(st)
          /\ st.table \in Tables /\ st.to \in Tables /\ st.table # st.to
      BY <1>2, <1>7 DEF OperationTable, Concurrent, Statements, WellFormed
    <2>2. tables' = [tables EXCEPT ![st.to] = tables[st.table], ![st.table] = None]
          /\ owner' = Owned(r, st) /\ tables[st.table] # None
      BY <1>4, <1>7, <2>1 DEF Altered, Accepted
    <2>3. t = st.to
      BY <1>4, <2>1, <2>2
    <2>4. owner[st.table] # Resource(r)
      <3>1. SUFFICES ASSUME owner[st.table] = Resource(r) PROVE FALSE
        OBVIOUS
      <3>2. owner' = [owner EXCEPT ![st.to] = Resource(r), ![st.table] = None]
        BY <1>7, <2>2, <3>1 DEF Owned
      <3> QED BY <1>4, <2>1, <2>3, <3>2
    <2> QED BY <1>3, <1>7, <2>1, <2>2, <2>3, <2>4 DEF st
  <1>8. CASE t \in OperationTable(st) /\ st.type = "dropTable"
    <2>1. t = st.table /\ ~Concurrent(st)
      BY <1>8 DEF OperationTable, Concurrent
    <2>2. tables'[t] = None
      BY <1>4, <1>8, <2>1 DEF Altered
    <2> QED BY <2>2
  <1>9. CASE t \in OperationTable(st) /\ st.type = "releaseTable"
    <2>1. t = st.table
      BY <1>9 DEF OperationTable
    <2> QED BY <1>3, <1>9, <2>1 DEF st
  <1>10. CASE st.type \notin {"createTable", "renameTable", "dropTable", "releaseTable"}
    <2>1. tables'[t] = None <=> tables[t] = None
      BY <1>1, <1>2, <1>4, <1>10, StatementExistence
    <2>2. owner' = owner
      BY <1>4, <1>10 DEF Owned
    <2> QED BY <2>1, <2>2
  <1> QED BY <1>5, <1>6, <1>7, <1>8, <1>9, <1>10

LEMMA ExecutesFootprint ==
    ASSUME InstallInv, NEW r \in DOMAIN job, at[r] \in AtStatement, Connected(r), Frame(r),
           Executes(r, work[r].task.statement)
    PROVE  Footprint(r)
  <1> DEFINE st == work[r].task.statement
  <1>1. IInv /\ TypeOK /\ st \in Statements /\ OperationTable(st) \subseteq Mentioned(r)
    BY AtHandScope DEF InstallInv, IInv
  <1>2. ASSUME NEW t \in Tables, tables'[t] # tables[t] \/ owner'[t] # owner[t]
        PROVE  t \in Mentioned(r)
    <2>1. t \notin OperationTable(st) => tables'[t] = tables[t] /\ owner'[t] = owner[t]
      BY <1>1, StatementLocal DEF Executes
    <2> QED BY <1>1, <1>2, <2>1
  <1>3. ASSUME NEW u \in DOMAIN job, u = r \/ Resource(u) # Resource(r),
               NEW t \in Unmanaged(u)'
        PROVE  t \in Unmanaged(u)
    <2>1. Wanted(u)' = Wanted(u) /\ HandedOver(u)' = HandedOver(u)
      BY Derived DEF Frame
    <2>2. t \in DOMAIN Wanted(u) \ HandedOver(u) /\ tables'[t] # None /\ owner'[t] = None
      BY <2>1 DEF Unmanaged
    <2>3. t \in Tables
      BY <1>1, <2>2, JobTyped
    <2>4. \A op \in OperationsOf(Resource(r), 1 .. Version(r)) :
             /\ op.type = "releaseTable" => t # op.table
             /\ op.type = "renameTable" => t # op.to
      BY <1>3, <2>2 DEF HandedOver
    <2>5. tables[t] # None /\ owner[t] = None
      BY <2>2, <2>3, <2>4, ExecutesUnowned
    <2> QED BY <2>2, <2>5 DEF Unmanaged
  <1> QED BY <1>2, <1>3 DEF Footprint, Executes

-----------------------------------------------------------------------------
(* What a statement does to the data invariants.                           *)
LEMMA UnclaimedClosed ==
    ASSUME NEW t \in Tables
    PROVE  /\ t \in DOMAIN Legacy \cup Released => t \in Unclaimed
           /\ \A op \in DeployedOperations :
                 op.type = "renameTable" /\ op.to = t /\ op.table \in Unclaimed \cup Contested
                    => t \in Unclaimed
  BY DEF Unclaimed

LEMMA OwnersMentionKept ==
    ASSUME InstallInv, NEW r \in DOMAIN job, Footprint(r),
           \A t \in Tables : owner'[t] \in {owner[t], None, Resource(r)}
    PROVE  OwnersMention'
  <1> SUFFICES ASSUME NEW t \in Tables, owner'[t] # None
               PROVE  \E u \in DOMAIN job : Resource(u) = owner'[t] /\ t \in Mentioned(u)
    BY Derived DEF OwnersMention, Footprint, Frame
  <1>1. CASE owner'[t] = owner[t]
    BY <1>1 DEF InstallInv, OwnersMention
  <1>2. CASE owner'[t] # owner[t]
    BY <1>2 DEF Footprint
  <1> QED BY <1>1, <1>2

LEMMA RegisteredKept ==
    ASSUME InstallInv, job' = job, registry' = registry
    PROVE  RegisteredIsDeployed'
  BY Derived DEF InstallInv, RegisteredIsDeployed

(* What stands is mentioned by a run, so that a run of another resource    *)
(* cannot mention it.                                                      *)
LEMMA StandingMentioned ==
    ASSUME InstallInv, NEW res \in Resources, NEW t \in Standing(res)
    PROVE  /\ t \in Tables /\ t \notin Contested /\ registry[res].version \in Versions
           /\ t \in DOMAIN Stands(res) /\ Stands(res)[t] \subseteq Features
           /\ t \notin TablesOf(OperationsOf(res, registry[res].version + 1 .. MaxVersion))
           /\ \A u \in DOMAIN job : t \in Mentioned(u) => Resource(u) = res
  <1>1. /\ registry[res].version # 0 /\ t \in DOMAIN Stands(res) /\ t \notin Contested
        /\ t \notin TablesOf(OperationsOf(res, registry[res].version + 1 .. MaxVersion))
    BY DEF Standing, Stands
  <1>2. PICK w \in DOMAIN job : Resource(w) = res /\ Version(w) = registry[res].version
    BY <1>1 DEF InstallInv, RegisteredIsDeployed
  <1>3. Wanted(w) = Stands(res)
    BY <1>2 DEF Wanted, Stands
  <1>4. IInv /\ TypeOK
    BY DEF InstallInv, IInv
  <1>5. t \in Tables /\ t \in Mentioned(w) /\ Version(w) \in Versions /\ Stands(res)[t] \subseteq Features
    BY <1>1, <1>3, <1>4, JobTyped DEF Mentioned
  <1>6. ASSUME NEW u \in DOMAIN job, t \in Mentioned(u) PROVE Resource(u) = res
    BY <1>1, <1>2, <1>4, <1>5, <1>6, ContestedTables
  <1> QED BY <1>1, <1>2, <1>5, <1>6

LEMMA ExecutesCreated ==
    ASSUME InstallInv, NEW r \in DOMAIN job, at[r] \in AtStatement, job' = job,
           Executes(r, work[r].task.statement)
    PROVE  CreatedMeansOwned'
  <1> SUFFICES ASSUME NEW t \in Tables, tables'[t] # None, owner'[t] = None
               PROVE  t \in Unclaimed
    BY Derived DEF CreatedMeansOwned
  <1> DEFINE st == work[r].task.statement
  <1>1. IInv /\ TypeOK /\ st \in Statements /\ OperationTable(st) \subseteq Mentioned(r)
    BY AtHandScope DEF InstallInv, IInv
  <1>2. OperationsOf(Resource(r), 1 .. Version(r)) \subseteq DeployedOperations
    BY DEF DeployedOperations
  <1>3. CASE tables[t] # None /\ owner[t] = None
    BY <1>3 DEF InstallInv, CreatedMeansOwned
  <1>4. CASE st \in DeployedOperations /\ st.type = "releaseTable" /\ t = st.table
    BY <1>4, UnclaimedClosed DEF Released
  <1>5. CASE /\ st \in DeployedOperations /\ st.type = "renameTable" /\ t = st.to
             /\ st.table \in Tables /\ tables[st.table] # None /\ owner[st.table] # Resource(r)
    <2>1. st.table \in Unclaimed \cup Contested
      <3>1. CASE owner[st.table] = None
        BY <1>5, <3>1 DEF InstallInv, CreatedMeansOwned
      <3>2. CASE owner[st.table] # None
        <4>1. PICK u \in DOMAIN job : Resource(u) = owner[st.table] /\ st.table \in Mentioned(u)
          BY <1>5, <3>2 DEF InstallInv, OwnersMention
        <4>2. st.table \in Mentioned(r)
          BY <1>1, <1>5 DEF OperationTable
        <4> QED BY <1>1, <1>5, <4>1, <4>2, ContestedTables
      <3> QED BY <3>1, <3>2
    <2> QED BY <1>5, <2>1, UnclaimedClosed
  <1> QED BY <1>2, <1>3, <1>4, <1>5, ExecutesUnowned

LEMMA ExecutesStanding ==
    ASSUME InstallInv, NEW r \in DOMAIN job, at[r] \in AtStatement, Connected(r), Frame(r),
           Executes(r, work[r].task.statement)
    PROVE  InstalledStands'
  <1> DEFINE st == work[r].task.statement
  <1> SUFFICES ASSUME NEW res \in Resources, NEW t \in Standing(res)
               PROVE  /\ owner'[t] = res /\ tables'[t] # None
                      /\ \A f \in Stands(res)[t] : tables'[t][f] = "present"
    BY SameStanding DEF InstalledStands, Frame, Executes
  <1>1. /\ IInv /\ TypeOK /\ st \in Statements /\ t \in Tables
        /\ owner[t] = res /\ tables[t] # None /\ \A f \in Stands(res)[t] : tables[t][f] = "present"
    BY AtHandScope, StandingMentioned DEF InstallInv, IInv, InstalledStands
  <1>2. CASE tables'[t] = tables[t] /\ owner'[t] = owner[t]
    BY <1>1, <1>2
  <1>3. CASE tables'[t] # tables[t] \/ owner'[t] # owner[t]
    <2>1. t \in OperationTable(st)
      BY <1>1, <1>3, StatementLocal DEF Executes
    <2>2. Resource(r) = res
      BY <1>3, ExecutesFootprint, StandingMentioned DEF Footprint
    <2>3. RunAgrees(r) /\ UpgradesAgree(r) /\ StandingAgrees(r) /\ at[r] \in Judged /\ at[r] \in Amid
      BY DEF InstallInv, RunAgrees, Judged, Amid
    <2>4. registry[res].version # 0 /\ registry[res].version \in Nat /\ MaxVersion \in Nat
      BY StandingMentioned, PostgresAssumption DEF Standing, Versions
    <2>5. CASE Migrating(r)
      <3>1. PICK op \in OperationsAt(Resource(r), Current(r)) : OperationTable(st) = OperationTable(op)
        BY <2>5, AtHandScope
      <3>2. Current(r) \in work[r].migrations /\ Current(r) \in Versions
        BY <2>5, AtHandScope
      <3>3. Current(r) \in registry[res].version + 1 .. MaxVersion
        BY <2>2, <2>3, <2>4, <3>2 DEF UpgradesAgree, Versions
      <3>4. t \in TablesOf(OperationsOf(res, registry[res].version + 1 .. MaxVersion))
        BY <2>1, <2>2, <3>1, <3>3 DEF TablesOf, OperationsOf
      <3> QED BY <3>4, StandingMentioned
    <2>6. CASE ~Migrating(r)
      <3>1. Planned(r, st) /\ work[r].task \in work[r].tasks
        BY <2>6, AtHandScope, AtHand, <1>1
      <3>2. t = st.table /\ st.type \in PlannedTypes
        BY <2>1, <3>1 DEF Planned, PlannedTypes, OperationTable
      <3>3. st.type # "createTable" /\ st.feature \notin Stands(res)[t]
        BY <2>2, <2>3, <2>6, <3>1, <3>2 DEF StandingAgrees
      <3>4. Stands(res)[t] \subseteq Features
        BY StandingMentioned
      <3>5. owner' = owner
        <4>1. Stands(res)[t] \subseteq Features /\ Owned(r, st) = owner
          BY <3>2, <3>3, <3>4 DEF Owned, PlannedTypes
        <4> QED BY <4>1 DEF Executes
      <3>6. \A f \in Stands(res)[t] : tables'[t][f] = tables[t][f]
        BY <1>1, <3>2, <3>3, <3>4, PlannedLocal DEF Executes
      <3>7. tables'[t] # None
        BY <1>1, <3>2, <3>3, StatementExistence DEF Executes, PlannedTypes
      <3> QED BY <1>1, <3>5, <3>6, <3>7
    <2> QED BY <2>5, <2>6
  <1> QED BY <1>2, <1>3

(* The claims and the registry row of a call that finishes.                *)
Finishes(r) ==
    /\ at[r] = "finish" /\ Claimable(r)
    /\ owner' = [t \in Tables |-> IF t \in DOMAIN Wanted(r) THEN Resource(r) ELSE owner[t]]
    /\ registry' = [registry EXCEPT ![Resource(r)] = Registered(r)]
    /\ tables' = tables

LEMMA FinishesFootprint ==
    ASSUME InstallInv, NEW r \in DOMAIN job, Connected(r), Frame(r), Finishes(r)
    PROVE  Footprint(r)
  <1>1. /\ registry \in [Resources -> [version : 0..MaxVersion, tables : SUBSET Tables]]
        /\ owner \in [Tables -> Resources \cup {None}]
        /\ Resource(r) \in Resources /\ None \notin Resources /\ TypeOK
    BY JobTyped, PostgresAssumption DEF InstallInv, IInv, TypeOK
  <1>2. \A res \in Resources \ {Resource(r)} : registry'[res] = registry[res]
    BY <1>1 DEF Finishes
  <1>3. \A t \in Tables : tables'[t] # tables[t] \/ owner'[t] # owner[t] => t \in Mentioned(r)
    BY <1>1 DEF Finishes, Mentioned
  <1>4. \A t \in Tables : owner'[t] = None => owner[t] = None
    BY <1>1 DEF Finishes
  <1>5. ASSUME NEW u \in DOMAIN job PROVE Unmanaged(u)' \subseteq Unmanaged(u)
    <2>1. Wanted(u)' = Wanted(u) /\ HandedOver(u)' = HandedOver(u) /\ DOMAIN Wanted(u) \subseteq Tables
      BY <1>1, JobTyped, Derived DEF Frame
    <2> QED BY <1>4, <2>1 DEF Unmanaged, Finishes
  <1> QED BY <1>2, <1>3, <1>5 DEF Footprint

LEMMA FinishesData ==
    ASSUME InstallInv, NEW r \in DOMAIN job, Connected(r), Frame(r), Finishes(r)
    PROVE  OwnersMention' /\ RegisteredIsDeployed' /\ CreatedMeansOwned' /\ InstalledStands'
  <1>1. /\ registry \in [Resources -> [version : 0..MaxVersion, tables : SUBSET Tables]]
        /\ owner \in [Tables -> Resources \cup {None}]
        /\ Resource(r) \in Resources /\ None \notin Resources /\ TypeOK /\ job' = job
        /\ DOMAIN Wanted(r) \subseteq Tables /\ Version(r) \in Versions /\ 0 \notin Versions
    BY JobTyped, PostgresAssumption DEF InstallInv, IInv, TypeOK, Frame, Versions
  <1>2. /\ \A t \in Tables : owner'[t] \in {owner[t], Resource(r)} /\ (owner'[t] = None => owner[t] = None)
        /\ registry'[Resource(r)].version = Version(r)
        /\ \A res \in Resources \ {Resource(r)} : registry'[res] = registry[res]
    BY <1>1 DEF Finishes, Registered
  <1>3. OwnersMention'
    BY <1>2, FinishesFootprint, OwnersMentionKept
  <1>4. RegisteredIsDeployed'
    <2> SUFFICES ASSUME NEW res \in Resources, registry'[res].version # 0
                 PROVE  \E u \in DOMAIN job : Resource(u) = res /\ Version(u) = registry'[res].version
      BY <1>1, Derived DEF RegisteredIsDeployed
    <2> QED BY <1>2 DEF InstallInv, RegisteredIsDeployed
  <1>5. CreatedMeansOwned'
    <2>1. Unclaimed' = Unclaimed
      BY <1>1, Derived
    <2> QED BY <1>2, <2>1 DEF InstallInv, CreatedMeansOwned, Finishes
  <1>6. ASSUME NEW res \in Resources \ {Resource(r)}, NEW t \in Standing(res)'
        PROVE  /\ owner'[t] = res /\ tables'[t] # None
               /\ \A f \in Stands(res)'[t] : tables'[t][f] = "present"
    <2>1. Standing(res)' = Standing(res) /\ Stands(res)' = Stands(res)
      BY <1>1, <1>2, SameStanding
    <2>2. t \in Tables /\ t \notin Mentioned(r)
      BY <2>1, StandingMentioned
    <2>3. owner'[t] = owner[t]
      BY <1>1, <2>2 DEF Finishes, Mentioned
    <2> QED BY <2>1, <2>2, <2>3 DEF InstallInv, InstalledStands, Finishes
  <1>7. ASSUME NEW res \in Resources, res = Resource(r), NEW t \in Standing(res)'
        PROVE  /\ owner'[t] = res /\ tables'[t] # None
               /\ \A f \in Stands(res)'[t] : tables'[t][f] = "present"
    <2>1. Stands(res)' = Wanted(r)
      BY <1>1, <1>2, <1>7 DEF Stands, Wanted
    <2>2. t \in DOMAIN Wanted(r) \ Contested
      BY <1>1, <1>2, <1>7, Derived DEF Standing, Wanted
    <2>3. FinishAgrees(r)
      BY DEF InstallInv, RunAgrees
    <2>4. tables[t] # None /\ \A f \in Wanted(r)[t] : tables[t][f] = "present"
      BY <2>2, <2>3 DEF FinishAgrees, Finishes
    <2>5. owner'[t] = Resource(r)
      BY <1>1, <2>2 DEF Finishes
    <2> QED BY <1>7, <2>1, <2>4, <2>5 DEF Finishes
  <1>8. InstalledStands'
    <2> SUFFICES ASSUME NEW res \in Resources, NEW t \in Standing(res)'
                 PROVE  /\ owner'[t] = res /\ tables'[t] # None
                        /\ \A f \in Stands(res)'[t] : tables'[t][f] = "present"
      BY DEF InstalledStands
    <2>1. CASE res = Resource(r)
      BY <1>7, <2>1
    <2>2. CASE res # Resource(r)
      BY <1>6, <2>2
    <2> QED BY <2>1, <2>2
  <1> QED BY <1>3, <1>4, <1>5, <1>8

-----------------------------------------------------------------------------
(* A step keeps the invariant when it keeps its run's part and the data's. *)
LEMMA InstallKeeps ==
    ASSUME InstallInv, IInv', NEW r \in DOMAIN job, Footprint(r), RunAgrees(r)',
           OwnersMention', RegisteredIsDeployed', CreatedMeansOwned', InstalledStands'
    PROVE  InstallInv'
  <1>1. \A u \in DOMAIN job : RunAgrees(u)'
    BY OthersRun
  <1>2. job' = job
    BY DEF Footprint, Frame
  <1> QED BY <1>1, <1>2 DEF InstallInv

Quietly(r) == Frame(r) /\ UNCHANGED <<tables, owner, registry>>

LEMMA QuietFootprint ==
    ASSUME InstallInv, NEW r \in DOMAIN job, Quietly(r)
    PROVE  Footprint(r) /\ Unmanaged(r)' \subseteq Unmanaged(r)
  <1>1. \A u \in DOMAIN job : Unmanaged(u)' \subseteq Unmanaged(u)
    BY Derived DEF Quietly, Frame, Unmanaged
  <1> QED BY <1>1 DEF Quietly, Footprint

LEMMA QuietKeeps ==
    ASSUME InstallInv, IInv', NEW r \in DOMAIN job, Quietly(r), RunAgrees(r)'
    PROVE  InstallInv'
  <1>1. job' = job /\ UNCHANGED <<tables, owner, registry>>
    BY DEF Quietly, Frame
  <1>2. OwnersMention' /\ RegisteredIsDeployed' /\ CreatedMeansOwned'
    BY <1>1, Derived DEF InstallInv, OwnersMention, RegisteredIsDeployed, CreatedMeansOwned
  <1>3. InstalledStands'
    BY <1>1, SameStanding DEF InstallInv, InstalledStands
  <1> QED BY <1>2, <1>3, QuietFootprint, InstallKeeps

(* The forms of a step, once more.                                         *)
LEMMA Moved ==
    ASSUME TypeOK, NEW r \in DOMAIN job
    PROVE  /\ \A where : Goto(r, where) =>
                 at'[r] = where /\ \A u \in DOMAIN job \ {r} : at'[u] = at[u]
           /\ \A what : Note(r, what) =>
                 work'[r] = what /\ \A u \in DOMAIN job \ {r} : work'[u] = work[u]
  BY JobTyped DEF TypeOK, Goto, Note

LEMMA FrameOf ==
    ASSUME TypeOK, NEW r \in DOMAIN job, job' = job,
           at' = at \/ \E where : Goto(r, where),
           work' = work \/ \E what : Note(r, what),
           holder' \in {holder, Freed(r), [holder EXCEPT ![Resource(r)] = r]}
    PROVE  Frame(r)
  <1>1. \A u \in DOMAIN job \ {r} : at'[u] = at[u] /\ work'[u] = work[u]
    BY Moved
  <1>2. holder \in [Resources -> Runs \cup {None}]
    BY DEF TypeOK
  <1>3. \A res \in Resources : holder'[res] \in {holder[res], None, r}
    BY <1>2, FreedTyped
  <1> QED BY <1>1, <1>3 DEF Frame

LEMMA ReadsRun ==
    ASSUME InstallInv, NEW r \in DOMAIN job, NEW where, NEW what, Reads(r, where, what)
    PROVE  /\ Quietly(r) /\ at'[r] = where /\ work'[r] = what
           /\ UNCHANGED <<job, tables, owner, registry, holder>>
           /\ Connected(r)' <=> Connected(r)
           /\ Unmanaged(r)' \subseteq Unmanaged(r)
  <1>1. /\ TypeOK /\ Goto(r, where) /\ Note(r, what)
        /\ UNCHANGED <<job, tables, owner, registry, holder>>
    BY DEF Reads, metadata, InstallInv, IInv
  <1>2. Quietly(r)
    BY <1>1, FrameOf DEF Quietly
  <1>3. Connected(r)' <=> Connected(r)
    BY <1>1 DEF Connected, Resource
  <1> QED BY <1>1, <1>2, <1>3, Moved, QuietFootprint

LEMMA ThrowRuns ==
    ASSUME InstallInv, NEW r \in DOMAIN job, Goto(r, Caught(r)),
           UNCHANGED <<job, tables, metadata, holder, work>>
    PROVE  Quietly(r) /\ RunAgrees(r)'
  <1>1. /\ TypeOK /\ UNCHANGED <<job, tables, owner, registry, holder, work>> /\ RunAgrees(r)
    BY DEF metadata, InstallInv, IInv
  <1>2. Quietly(r)
    BY <1>1, FrameOf DEF Quietly
  <1>3. Connected(r)' => Connected(r)
    BY <1>1 DEF Connected, Resource
  <1> QED BY <1>1, <1>2, <1>3, Moved, QuietFootprint, CaughtRuns

(* An answer arrives, or is lost with the session.                         *)
LEMMA AnsweredFrame ==
    ASSUME InstallInv, NEW r \in DOMAIN job, NEW where, NEW what, Answered(r, where, what),
           job' = job
    PROVE  /\ Frame(r)
           /\ \/ at'[r] = where /\ work'[r] = what /\ holder' = holder
              \/ at'[r] = Caught(r) /\ work'[r] = work[r] /\ ~Connected(r)'
  <1>1. TypeOK
    BY DEF InstallInv, IInv
  <1>2. CASE Goto(r, where) /\ Note(r, what) /\ UNCHANGED <<holder, faults>>
    BY <1>1, <1>2, FrameOf, Moved
  <1>3. CASE Goto(r, Caught(r)) /\ UNCHANGED work /\ holder' = Freed(r) /\ Fault
    BY <1>1, <1>3, FrameOf, Moved, FreedTyped DEF Connected, Resource
  <1> QED BY <1>2, <1>3 DEF Answered

LEMMA AnsweredRuns ==
    ASSUME InstallInv, NEW r \in DOMAIN job, NEW where, NEW what, Answered(r, where, what),
           job' = job, at'[r] = where /\ work'[r] = what /\ holder' = holder => RunAgrees(r)'
    PROVE  Frame(r) /\ RunAgrees(r)'
  <1>1. RunAgrees(r)
    BY DEF InstallInv
  <1> QED BY <1>1, AnsweredFrame, CaughtRuns

-----------------------------------------------------------------------------
(* The steps that touch neither a table nor its owner.  Those that leave:  *)
LEMMA LeavesRuns ==
    ASSUME InstallInv, NEW r \in DOMAIN job, NEW where, Goto(r, where),
           where \notin {"refuse", "registry"} \cup Judged,
           where \in {"interrupted", "look"} => ~Adopts(r), where = "available" => Adopts(r),
           UNCHANGED <<job, tables, owner, registry>>, work' = work \/ Note(r, Blank),
           holder' \in {holder, Freed(r), [holder EXCEPT ![Resource(r)] = r]}
    PROVE  Quietly(r) /\ RunAgrees(r)'
  <1>1. TypeOK /\ RunAgrees(r)
    BY DEF InstallInv, IInv
  <1>2. Quietly(r)
    BY <1>1, FrameOf DEF Quietly
  <1>3. work'[r].migrations \subseteq 1 .. Version(r)
    <2>1. CASE Note(r, Blank)
      <3>1. work'[r] = Blank
        BY <1>1, <2>1, Moved
      <3> QED BY <3>1 DEF Blank
    <2> QED BY <1>1, <2>1 DEF RunAgrees, ScopeAgrees
  <1> QED BY <1>1, <1>2, <1>3, Moved, Elsewhere

LEMMA LeavingRuns ==
    ASSUME InstallInv, NEW r \in DOMAIN job,
           \/ AcquireLock(r) \/ AcquireTimesOut(r) \/ FailStatement(r) \/ FailMigration(r)
           \/ FailAdoption(r) \/ ReleaseLock(r) \/ Crash(r)
    PROVE  Quietly(r) /\ RunAgrees(r)'
  <1>1. {"unlock", "failAdoption", "failMigration", "idle", "interrupted", "available"} \cap
           ({"refuse", "registry", "look"} \cup Judged) = {}
    BY DEF Judged, Amid, AtStatement
  <1>2. CASE AcquireLock(r)
    <2>1. /\ Goto(r, IF Adopts(r) THEN "available" ELSE "interrupted")
          /\ UNCHANGED <<job, tables, owner, registry>> /\ work' = work
          /\ holder' = [holder EXCEPT ![Resource(r)] = r]
      BY <1>2 DEF AcquireLock, metadata
    <2> QED BY <1>1, <2>1, LeavesRuns
  <1>3. CASE AcquireTimesOut(r)
    BY <1>1, <1>3, LeavesRuns DEF AcquireTimesOut, metadata
  <1>4. CASE FailStatement(r)
    <2>1. Upwards(r) \in {"unlock", "failAdoption", "failMigration"}
      BY DEF Upwards, Outwards
    <2>2. Goto(r, Upwards(r)) /\ UNCHANGED <<job, tables, owner, registry, holder, work>>
      BY <1>4 DEF FailStatement
    <2> QED BY <1>1, <2>1, <2>2, LeavesRuns
  <1>5. CASE FailMigration(r)
    <2>1. Outwards(r) \in {"unlock", "failAdoption"}
      BY DEF Outwards
    <2>2. Goto(r, Outwards(r)) /\ UNCHANGED <<job, tables, owner, registry, holder, work>>
      BY <1>5 DEF FailMigration, Journal, metadata
    <2> QED BY <1>1, <2>1, <2>2, LeavesRuns
  <1>6. CASE FailAdoption(r)
    <2>1. Goto(r, "unlock") /\ UNCHANGED <<job, tables, owner, registry, holder, work>>
      BY <1>6 DEF FailAdoption, AdoptionStatus, metadata
    <2> QED BY <1>1, <2>1, LeavesRuns
  <1>7. CASE ReleaseLock(r) \/ Crash(r)
    <2>1. /\ Goto(r, "idle") /\ Note(r, Blank) /\ holder' = Freed(r)
          /\ UNCHANGED <<job, tables, owner, registry>>
      BY <1>7 DEF ReleaseLock, Crash, metadata
    <2> QED BY <1>1, <2>1, LeavesRuns
  <1> QED BY <1>2, <1>3, <1>4, <1>5, <1>6, <1>7

LEMMA LoseSessionRuns ==
    ASSUME InstallInv, NEW r \in DOMAIN job, LoseSession(r)
    PROVE  Quietly(r) /\ RunAgrees(r)'
  <1>1. /\ TypeOK /\ RunAgrees(r) /\ holder' = Freed(r)
        /\ UNCHANGED <<job, tables, owner, registry, at, work>>
    BY DEF LoseSession, metadata, InstallInv, IInv
  <1>2. Quietly(r)
    BY <1>1, FrameOf DEF Quietly
  <1>3. ~Connected(r)'
    BY <1>1, FreedTyped DEF Connected, Resource
  <1>4. ScopeAgrees(r)'
    BY <1>1, Derived DEF RunAgrees, ScopeAgrees, Migrating
  <1> QED BY <1>2, <1>3, <1>4 DEF RunAgrees

(* The search for tables that nobody manages.                              *)
LEMMA HasInterruptedReconciliationRuns ==
    ASSUME InstallInv, NEW r \in DOMAIN job, HasInterruptedReconciliation(r)
    PROVE  Quietly(r) /\ RunAgrees(r)'
  <1>1. PICK left \in BOOLEAN :
           Reads(r, IF left THEN "registry" ELSE "look", [work[r] EXCEPT !.resumed = left])
    BY DEF HasInterruptedReconciliation
  <1> DEFINE what == [work[r] EXCEPT !.resumed = left]
  <1>2. /\ RunAgrees(r) /\ ScopeAgrees(r) /\ at[r] = "interrupted" /\ work[r] \in Notes
        /\ what.migrations = work[r].migrations /\ what.resumed = left
    BY StayTyped DEF HasInterruptedReconciliation, InstallInv, IInv, RunAgrees, Notes
  <1> HIDE DEF what
  <1>3. /\ Quietly(r) /\ at'[r] = IF left THEN "registry" ELSE "look"
        /\ work'[r] = what /\ job' = job
    BY <1>1, ReadsRun DEF what
  <1>4. ~Adopts(r) /\ work'[r].migrations \subseteq 1 .. Version(r)
    BY <1>2, <1>3 DEF ScopeAgrees
  <1>5. at'[r] \notin Judged
    BY <1>3 DEF Judged, Amid, AtStatement
  <1>6. CASE ~left
    BY <1>3, <1>4, <1>5, <1>6, Elsewhere
  <1>7. CASE left
    <2>1. ScopeAgrees(r)'
      BY <1>3, <1>4, <1>5, <1>7, Derived DEF ScopeAgrees, Judged
    <2>2. UpgradesAgree(r)' /\ StandingAgrees(r)' /\ FinishAgrees(r)' /\ AbsorbAgrees(r)'
      BY <1>2, <1>3, <1>5, <1>7 DEF UpgradesAgree, StandingAgrees, FinishAgrees, AbsorbAgrees, Judged
    <2> QED BY <1>3, <2>1, <2>2 DEF RunAgrees
  <1> QED BY <1>3, <1>6, <1>7

LEMMA LookForTablesRuns ==
    ASSUME InstallInv, NEW r \in DOMAIN job, LookForTables(r)
    PROVE  Quietly(r) /\ RunAgrees(r)'
  <1> DEFINE what == [work[r] EXCEPT !.actual = {t \in DOMAIN Wanted(r) : tables[t] # None}]
  <1>1. /\ RunAgrees(r) /\ ScopeAgrees(r) /\ at[r] = "look" /\ work[r] \in Notes
        /\ what.migrations = work[r].migrations
        /\ what.actual = {t \in DOMAIN Wanted(r) : tables[t] # None}
    BY StayTyped DEF LookForTables, InstallInv, IInv, RunAgrees, Notes
  <1>2. Reads(r, "refuse", what)
    BY DEF LookForTables
  <1> HIDE DEF what
  <1>3. /\ Quietly(r) /\ at'[r] = "refuse" /\ work'[r] = what /\ job' = job
        /\ Unmanaged(r)' \subseteq Unmanaged(r)
    BY <1>2, ReadsRun
  <1>4. at'[r] \notin Judged /\ at'[r] # "registry"
    BY <1>3 DEF Judged, Amid, AtStatement
  <1>5. ScopeAgrees(r)'
    BY <1>1, <1>3, <1>4, Derived DEF ScopeAgrees, Judged
  <1>6. AbsorbAgrees(r)'
    BY <1>1, <1>3, <1>4 DEF AbsorbAgrees, Unmanaged
  <1>7. UpgradesAgree(r)' /\ StandingAgrees(r)' /\ FinishAgrees(r)'
    BY <1>4 DEF UpgradesAgree, StandingAgrees, FinishAgrees, Judged
  <1> QED BY <1>3, <1>5, <1>6, <1>7 DEF RunAgrees

LEMMA RefuseImplicitAdoptionRuns ==
    ASSUME InstallInv, NEW r \in DOMAIN job, RefuseImplicitAdoption(r)
    PROVE  Quietly(r) /\ RunAgrees(r)'
  <1>1. CASE Throw(r)
    BY <1>1, ThrowRuns DEF Throw
  <1>2. CASE /\ \A t \in work[r].actual : owner[t] = Resource(r)
             /\ Reads(r, "registry", work[r])
    <2>1. /\ RunAgrees(r) /\ ScopeAgrees(r) /\ at[r] = "refuse"
          /\ Resource(r) # None
      BY JobTyped, PostgresAssumption DEF RefuseImplicitAdoption, InstallInv, IInv, RunAgrees
    <2>2. /\ Quietly(r) /\ at'[r] = "registry" /\ work'[r] = work[r] /\ job' = job
          /\ Unmanaged(r)' \subseteq Unmanaged(r) /\ (Connected(r)' <=> Connected(r))
      BY <1>2, ReadsRun
    <2>3. at'[r] \notin Judged /\ at'[r] # "refuse"
      BY <2>2 DEF Judged, Amid, AtStatement
    <2>4. ScopeAgrees(r)'
      BY <2>1, <2>2, <2>3, Derived DEF ScopeAgrees, Judged
    <2>5. ASSUME Connected(r)' PROVE AbsorbAgrees(r)'
      <3>1. AbsorbAgrees(r) /\ (Adopts(r)' <=> Adopts(r))
        BY <2>1, <2>2, <2>5, Derived DEF RunAgrees
      <3>2. ~Adopts(r) /\ ~work[r].resumed => Unmanaged(r) \subseteq work[r].actual
        BY <2>1, <3>1 DEF AbsorbAgrees
      <3>3. ~Adopts(r) /\ ~work[r].resumed => Unmanaged(r) = {}
        BY <1>2, <2>1, <3>2 DEF Unmanaged
      <3> QED BY <2>2, <2>3, <3>1, <3>3 DEF AbsorbAgrees
    <2>6. UpgradesAgree(r)' /\ StandingAgrees(r)' /\ FinishAgrees(r)'
      BY <2>2, <2>3 DEF UpgradesAgree, StandingAgrees, FinishAgrees, Judged
    <2> QED BY <2>2, <2>4, <2>5, <2>6 DEF RunAgrees
  <1> QED BY <1>1, <1>2 DEF RefuseImplicitAdoption

-----------------------------------------------------------------------------
(* What a run reads of the registry before it migrates.                    *)
LEMMA UpgradesScope ==
    ASSUME TypeOK, NEW r \in DOMAIN job
    PROVE  /\ Upgrades(r) \subseteq 1 .. Version(r)
           /\ ~Adopts(r) => \A v \in Upgrades(r) : registry[Resource(r)].version < v
  <1>1. registry[Resource(r)].version \in Nat /\ Version(r) \in Nat
    BY JobTyped, PostgresAssumption DEF TypeOK, Versions
  <1>2. Adopts(r) => job[r].baseline \in Nat
    BY JobTyped, PostgresAssumption
  <1>3. \A n \in Nat : Pending(r, n) \subseteq 1 .. Version(r) /\ \A v \in Pending(r, n) : n < v
    BY <1>1 DEF Pending
  <1> QED BY <1>1, <1>2, <1>3 DEF Upgrades

LEMMA ReadRegistryRuns ==
    ASSUME InstallInv, NEW r \in DOMAIN job, ReadRegistry(r)
    PROVE  Quietly(r) /\ RunAgrees(r)'
  <1> DEFINE what == [work[r] EXCEPT !.migrations = Upgrades(r)]
  <1>1. CASE Throw(r)
    BY <1>1, ThrowRuns DEF Throw
  <1>2. CASE Reads(r, "ownership", what)
    <2>1. /\ RunAgrees(r) /\ ScopeAgrees(r) /\ at[r] = "registry" /\ work[r] \in Notes /\ TypeOK
          /\ what.migrations = Upgrades(r) /\ what.resumed = work[r].resumed
      BY StayTyped DEF ReadRegistry, InstallInv, IInv, RunAgrees, Notes
    <2> HIDE DEF what
    <2>2. /\ Quietly(r) /\ at'[r] = "ownership" /\ work'[r] = what /\ job' = job
          /\ registry' = registry
          /\ Unmanaged(r)' \subseteq Unmanaged(r) /\ (Connected(r)' <=> Connected(r))
      BY <1>2, ReadsRun
    <2>3. /\ Resource(r)' = Resource(r) /\ Version(r)' = Version(r) /\ (Adopts(r)' <=> Adopts(r))
      BY <2>2, Derived
    <2>4. at'[r] \in Judged /\ at'[r] \notin Amid
          /\ at'[r] \notin {"finish", "refuse", "registry", "interrupted", "look", "available"}
      BY <2>2 DEF Judged, Amid, AtStatement
    <2>5. ~Adopts(r)
      BY <2>1 DEF ScopeAgrees
    <2>6. ScopeAgrees(r)'
      BY <2>1, <2>2, <2>3, <2>4, UpgradesScope DEF ScopeAgrees
    <2>7. UpgradesAgree(r)'
      BY <2>1, <2>2, <2>3, <2>5, UpgradesScope DEF UpgradesAgree
    <2>8. ASSUME Connected(r)' PROVE AbsorbAgrees(r)'
      <3>1. AbsorbAgrees(r)
        BY <2>1, <2>2, <2>8 DEF RunAgrees
      <3> QED BY <2>1, <2>2, <2>3, <2>4, <3>1 DEF AbsorbAgrees
    <2>9. StandingAgrees(r)' /\ FinishAgrees(r)'
      BY <2>4 DEF StandingAgrees, FinishAgrees
    <2> QED BY <2>2, <2>6, <2>7, <2>8, <2>9 DEF RunAgrees
  <1> QED BY <1>1, <1>2 DEF ReadRegistry

(* A step onwards that only reads, or an answer that arrives, to a stage   *)
(* where there is no plan.                                                 *)
LEMMA Unplanned ==
    ASSUME NEW r \in DOMAIN job, at'[r] \in {"migrate", "record"}
    PROVE  /\ at'[r] \in Judged /\ at'[r] \notin Amid /\ at'[r] # "finish"
           /\ at'[r] \notin {"refuse", "registry", "interrupted", "look", "available"}
           /\ StandingAgrees(r)' /\ FinishAgrees(r)'
  <1>1. at'[r] \in Judged /\ at'[r] \notin Amid
    BY DEF Judged, Amid, AtStatement
  <1> QED BY <1>1 DEF StandingAgrees, FinishAgrees

LEMMA AssertOwnershipRuns ==
    ASSUME InstallInv, NEW r \in DOMAIN job, AssertOwnership(r)
    PROVE  Quietly(r) /\ RunAgrees(r)'
  <1>1. CASE Throw(r)
    BY <1>1, ThrowRuns DEF Throw
  <1>2. CASE Reads(r, "migrate", work[r])
    <2>1. RunAgrees(r) /\ at[r] \in Judged
      BY DEF AssertOwnership, InstallInv, Judged
    <2>2. /\ Quietly(r) /\ at'[r] = "migrate" /\ work'[r] = work[r] /\ job' = job
          /\ registry' = registry
          /\ Unmanaged(r)' \subseteq Unmanaged(r) /\ (Connected(r)' <=> Connected(r))
      BY <1>2, ReadsRun
    <2> QED BY <2>1, <2>2, Unplanned, Proceeds
  <1> QED BY <1>1, <1>2 DEF AssertOwnership

LEMMA AssertAdoptionAvailableRuns ==
    ASSUME InstallInv, NEW r \in DOMAIN job, AssertAdoptionAvailable(r)
    PROVE  Quietly(r) /\ RunAgrees(r)'
  <1>1. CASE Throw(r)
    BY <1>1, ThrowRuns DEF Throw
  <1>2. CASE registry[Resource(r)].version = 0 /\ Reads(r, "record", work[r])
    <2>1. RunAgrees(r) /\ ScopeAgrees(r) /\ at[r] = "available"
      BY DEF AssertAdoptionAvailable, InstallInv, RunAgrees
    <2>2. /\ Quietly(r) /\ at'[r] = "record" /\ work'[r] = work[r] /\ job' = job
          /\ registry' = registry
      BY <1>2, ReadsRun
    <2>3. /\ Resource(r)' = Resource(r) /\ Version(r)' = Version(r) /\ (Adopts(r)' <=> Adopts(r))
          /\ Adopts(r)
      BY <2>1, <2>2, Derived DEF ScopeAgrees
    <2>4. ScopeAgrees(r)'
      BY <2>1, <2>2, <2>3, Unplanned DEF ScopeAgrees
    <2>5. UpgradesAgree(r)' /\ AbsorbAgrees(r)'
      BY <1>2, <2>2, <2>3 DEF UpgradesAgree, AbsorbAgrees
    <2> QED BY <2>2, <2>4, <2>5, Unplanned DEF RunAgrees
  <1> QED BY <1>1, <1>2 DEF AssertAdoptionAvailable

LEMMA RecordAdoptionRuns ==
    ASSUME InstallInv, NEW r \in DOMAIN job, RecordAdoption(r)
    PROVE  Quietly(r) /\ RunAgrees(r)'
  <1> DEFINE what == [work[r] EXCEPT !.migrations = Upgrades(r)]
  <1>1. /\ RunAgrees(r) /\ at[r] = "record" /\ work[r] \in Notes /\ TypeOK
        /\ what.migrations = Upgrades(r) /\ what.resumed = work[r].resumed
    BY StayTyped DEF RecordAdoption, InstallInv, IInv, Notes
  <1>2. Answered(r, "migrate", what) /\ UNCHANGED <<job, tables, owner, registry>> /\ Connected(r)
    BY DEF RecordAdoption
  <1> HIDE DEF what
  <1>3. Quietly(r)
    BY <1>2, AnsweredFrame DEF Quietly
  <1>4. /\ Resource(r)' = Resource(r) /\ Version(r)' = Version(r) /\ (Adopts(r)' <=> Adopts(r))
    BY <1>2, Derived
  <1>5. ASSUME at'[r] = "migrate", work'[r] = what PROVE RunAgrees(r)'
    <2>1. UpgradesAgree(r) /\ AbsorbAgrees(r) /\ at[r] \in Judged
      BY <1>1, <1>2 DEF RunAgrees, Judged
    <2>2. ScopeAgrees(r)'
      BY <1>1, <1>4, <1>5, Unplanned, UpgradesScope DEF ScopeAgrees
    <2>3. UpgradesAgree(r)'
      BY <1>1, <1>2, <1>4, <1>5, <2>1, UpgradesScope DEF UpgradesAgree
    <2>4. AbsorbAgrees(r)'
      BY <1>1, <1>3, <1>4, <1>5, <2>1, Unplanned, QuietFootprint DEF AbsorbAgrees
    <2> QED BY <1>5, <2>2, <2>3, <2>4, Unplanned DEF RunAgrees
  <1> QED BY <1>2, <1>3, <1>5, AnsweredRuns, CaughtRuns

-----------------------------------------------------------------------------
(* The migrations and the reconciliation.                                  *)
LEMMA JournalQuiet ==
    ASSUME NEW r, NEW status, Journal(r, status)
    PROVE  UNCHANGED <<job, tables, owner, registry>>
  BY DEF Journal

LEMMA BeginMigrationRuns ==
    ASSUME InstallInv, NEW r \in DOMAIN job, BeginMigration(r)
    PROVE  Quietly(r) /\ RunAgrees(r)'
  <1> DEFINE what == [work[r] EXCEPT !.tasks = MigrationTasks(Resource(r), Current(r))]
  <1>1. /\ RunAgrees(r) /\ at[r] = "migrate" /\ work[r] \in Notes /\ TypeOK /\ Migrating(r)
        /\ what.migrations = work[r].migrations /\ what.resumed = work[r].resumed
    BY StayTyped DEF BeginMigration, InstallInv, IInv, Notes
  <1>2. Answered(r, "next", what) /\ UNCHANGED <<job, tables, owner, registry>> /\ Connected(r)
    BY JournalQuiet DEF BeginMigration
  <1> HIDE DEF what
  <1>3. Quietly(r) /\ Unmanaged(r)' \subseteq Unmanaged(r)
    BY <1>2, AnsweredFrame, QuietFootprint DEF Quietly
  <1>4. ASSUME at'[r] = "next", work'[r] = what PROVE RunAgrees(r)'
    <2>1. Migrating(r)'
      BY <1>1, <1>4 DEF Migrating
    <2>2. at[r] \in Judged /\ at'[r] \in Judged /\ StandingAgrees(r)'
      BY <1>1, <1>4, <2>1 DEF Judged, Amid, StandingAgrees
    <2> QED BY <1>1, <1>2, <1>3, <1>4, <2>1, <2>2, Proceeds
  <1> QED BY <1>2, <1>3, <1>4, AnsweredRuns

LEMMA CompleteMigrationRuns ==
    ASSUME InstallInv, NEW r \in DOMAIN job, CompleteMigration(r)
    PROVE  Quietly(r) /\ RunAgrees(r)'
  <1> DEFINE what == [work[r] EXCEPT !.migrations = @ \ {Current(r)}]
  <1>1. /\ RunAgrees(r) /\ at[r] = "next" /\ work[r] \in Notes /\ TypeOK
        /\ what.migrations \subseteq work[r].migrations /\ what.resumed = work[r].resumed
    BY StayTyped DEF CompleteMigration, InstallInv, IInv, Notes
  <1>2. Answered(r, "migrate", what) /\ UNCHANGED <<job, tables, owner, registry>> /\ Connected(r)
    BY JournalQuiet DEF CompleteMigration
  <1> HIDE DEF what
  <1>3. Quietly(r) /\ Unmanaged(r)' \subseteq Unmanaged(r)
    BY <1>2, AnsweredFrame, QuietFootprint DEF Quietly
  <1>4. ASSUME at'[r] = "migrate", work'[r] = what PROVE RunAgrees(r)'
    <2>1. at[r] \in Judged
      BY <1>1 DEF Judged, Amid
    <2> QED BY <1>1, <1>2, <1>3, <1>4, <2>1, Unplanned, Proceeds
  <1> QED BY <1>2, <1>3, <1>4, AnsweredRuns

(* The planner plans for what is declared and not there, and for nothing   *)
(* else.                                                                   *)
LEMMA RepairScope ==
    ASSUME NEW t, NEW f, NEW shape, NEW s \in Repair(t, f, shape)
    PROVE  /\ s.table = t /\ s.feature = f /\ shape # "present"
           /\ s.type \in {"addFeature", "alterType", "buildIndex", "dropIndex", "addNotValid",
                          "validate", "replace"}
  <1>1. shape # "present"
    BY DEF Repair
  <1>2. \E type \in {"addFeature", "alterType", "buildIndex", "dropIndex", "addNotValid",
                     "validate", "replace"} : s = Do(type, t, f)
    BY DEF Repair
  <1> QED BY <1>1, <1>2 DEF Do

LEMMA PlanScope ==
    ASSUME NEW r, NEW actual, NEW s \in Plan(r, actual)
    PROVE  /\ Planned(r, s)
           /\ actual[s.table] # None =>
                 /\ s.type # "createTable"
                 /\ actual[s.table][s.feature] # "present"
  <1>1. PICK t \in DOMAIN Wanted(r) :
           s \in IF actual[t] = None THEN CreateTable(t, Wanted(r)[t])
                 ELSE UNION {Repair(t, f, actual[t][f]) : f \in Wanted(r)[t]}
    BY DEF Plan
  <1>2. CASE actual[t] = None
    <2>1. s \in CreateTable(t, Wanted(r)[t])
      BY <1>1, <1>2
    <2>2. /\ s.table = t /\ s.type \in {"createTable", "addFeature"}
          /\ s.type # "createTable" => s.feature \in Wanted(r)[t]
      BY <2>1 DEF CreateTable, Do
    <2> QED BY <1>2, <2>2 DEF Planned, PlannedTypes
  <1>3. CASE actual[t] # None
    <2>1. PICK f \in Wanted(r)[t] : s \in Repair(t, f, actual[t][f])
      BY <1>1, <1>3
    <2>2. /\ s.table = t /\ s.feature = f /\ actual[t][f] # "present"
          /\ s.type \in {"addFeature", "alterType", "buildIndex", "dropIndex", "addNotValid",
                         "validate", "replace"}
      BY <2>1, RepairScope
    <2> QED BY <2>2 DEF Planned, PlannedTypes
  <1> QED BY <1>2, <1>3

LEMMA EmptyPlan ==
    ASSUME TypeOK, NEW r \in DOMAIN job, Plan(r, tables) = {}, NEW t \in DOMAIN Wanted(r)
    PROVE  tables[t] # None /\ \A f \in Wanted(r)[t] : tables[t][f] = "present"
  <1>1. t \in Tables /\ Wanted(r)[t] \subseteq Features
    BY JobTyped
  <1>2. tables[t] # None
    <2>1. SUFFICES ASSUME tables[t] = None PROVE FALSE
      OBVIOUS
    <2>2. Do("createTable", t, None) \in CreateTable(t, Wanted(r)[t])
      BY DEF CreateTable
    <2> QED BY <2>1, <2>2 DEF Plan
  <1>3. ASSUME NEW f \in Wanted(r)[t] PROVE tables[t][f] = "present"
    <2>1. tables[t][f] \in Shapes
      BY <1>1, <1>2, <1>3 DEF TypeOK, Shaped
    <2>2. Repair(t, f, tables[t][f]) = {}
      BY <1>2, <1>3 DEF Plan
    <2> QED BY <2>1, <2>2 DEF Repair, Shapes
  <1> QED BY <1>2, <1>3

LEMMA PlanReconciliationRuns ==
    ASSUME InstallInv, NEW r \in DOMAIN job, PlanReconciliation(r)
    PROVE  Quietly(r) /\ RunAgrees(r)'
  <1> DEFINE todo == {Task(Version(r), 0, 0, s) : s \in Plan(r, tables)}
             what == [work[r] EXCEPT !.tasks = todo]
  <1>1. CASE Throw(r)
    BY <1>1, ThrowRuns DEF Throw
  <1>2. CASE Reads(r, "next", what)
    <2>1. /\ RunAgrees(r) /\ at[r] = "migrate" /\ work[r] \in Notes /\ TypeOK /\ ~Migrating(r)
          /\ what.migrations = work[r].migrations /\ what.resumed = work[r].resumed
          /\ what.tasks = todo
      BY StayTyped DEF PlanReconciliation, InstallInv, IInv, Notes
    <2> HIDE DEF what
    <2>2. /\ Quietly(r) /\ at'[r] = "next" /\ work'[r] = what /\ job' = job
          /\ registry' = registry
          /\ Unmanaged(r)' \subseteq Unmanaged(r) /\ (Connected(r)' <=> Connected(r))
      BY <1>2, ReadsRun
    <2>3. at[r] \in Judged /\ at'[r] \in Judged
      BY <2>1, <2>2 DEF Judged, Amid
    <2>4. ASSUME NEW x \in todo
          PROVE  /\ Planned(r, x.statement)
                 /\ tables[x.statement.table] # None =>
                       /\ x.statement.type # "createTable"
                       /\ tables[x.statement.table][x.statement.feature] # "present"
      <3>1. PICK s \in Plan(r, tables) : x.statement = s
        BY DEF Task
      <3> QED BY <3>1, PlanScope
    <2>5. StandingAgrees(r)'
      <3>1. Resource(r) \in Resources /\ Resource(r)' = Resource(r)
        BY <2>1, <2>2, JobTyped, Derived
      <3>2. Standing(Resource(r))' = Standing(Resource(r)) /\ Stands(Resource(r))' = Stands(Resource(r))
        BY <2>2, <3>1, SameStanding
      <3>3. ASSUME NEW x \in todo, x.statement.table \in Standing(Resource(r))
            PROVE  /\ x.statement.type # "createTable"
                   /\ x.statement.feature \notin Stands(Resource(r))[x.statement.table]
        BY <2>4, <3>1, <3>3 DEF InstallInv, InstalledStands
      <3> QED BY <2>1, <2>2, <3>1, <3>2, <3>3 DEF StandingAgrees
    <2> QED BY <2>1, <2>2, <2>3, <2>4, <2>5, Proceeds
  <1> QED BY <1>1, <1>2 DEF PlanReconciliation

LEMMA CheckMarkRuns ==
    ASSUME InstallInv, NEW r \in DOMAIN job, CheckMark(r)
    PROVE  Quietly(r) /\ RunAgrees(r)'
  <1>1. PICK x \in First(work[r].tasks) :
           IF x \in completed[Resource(r)]
           THEN Reads(r, "next", [work[r] EXCEPT !.tasks = @ \ {x}])
           ELSE Reads(r, "mark", [work[r] EXCEPT !.task = x])
    BY DEF CheckMark
  <1>2. PICK where \in {"next", "mark"},
             what \in {[work[r] EXCEPT !.tasks = @ \ {x}], [work[r] EXCEPT !.task = x]} :
           Reads(r, where, what)
    BY <1>1
  <1>3. /\ RunAgrees(r) /\ at[r] = "next" /\ work[r] \in Notes
        /\ what.migrations = work[r].migrations /\ what.resumed = work[r].resumed
        /\ what.tasks \subseteq work[r].tasks
    BY StayTyped DEF CheckMark, InstallInv, IInv, Notes
  <1>4. /\ Quietly(r) /\ at'[r] = where /\ work'[r] = what /\ job' = job
        /\ registry' = registry
        /\ Unmanaged(r)' \subseteq Unmanaged(r) /\ (Connected(r)' <=> Connected(r))
    BY <1>2, ReadsRun
  <1>5. at[r] \in Amid /\ at'[r] \in Amid
    BY <1>3, <1>4 DEF Amid, AtStatement
  <1> QED BY <1>3, <1>4, <1>5, StaysAmid

(* An answer within the statements of a plan.                              *)
LEMMA AnsweredAmid ==
    ASSUME InstallInv, NEW r \in DOMAIN job, at[r] \in Amid, Connected(r), NEW where \in Amid,
           NEW what, Answered(r, where, what), job' = job, registry' = registry,
           what \in {work[r], Done(r)}, Frame(r) => Unmanaged(r)' \subseteq Unmanaged(r)
    PROVE  Frame(r) /\ RunAgrees(r)'
  <1>1. RunAgrees(r) /\ work[r] \in Notes
    BY StayTyped DEF InstallInv, IInv
  <1>2. /\ what.migrations = work[r].migrations /\ what.resumed = work[r].resumed
        /\ what.tasks \subseteq work[r].tasks
    BY <1>1 DEF Done, Notes
  <1>3. Frame(r)
    BY AnsweredFrame
  <1>4. at'[r] = where /\ work'[r] = what => RunAgrees(r)'
    BY <1>1, <1>2, <1>3, StaysAmid
  <1> QED BY <1>3, <1>4, AnsweredRuns

LEMMA MarksRun ==
    ASSUME InstallInv, NEW r \in DOMAIN job, MarkPending(r) \/ MarkCompleted(r)
    PROVE  Quietly(r) /\ RunAgrees(r)'
  <1>1. PICK where \in {"execute", "next"}, what \in {work[r], Done(r)} : Answered(r, where, what)
    BY DEF MarkPending, MarkCompleted
  <1>2. /\ at[r] \in Amid /\ where \in Amid /\ Connected(r)
        /\ UNCHANGED <<job, tables, owner, registry>>
    BY DEF MarkPending, MarkCompleted, Amid, AtStatement
  <1>3. Quietly(r) /\ Unmanaged(r)' \subseteq Unmanaged(r)
    BY <1>1, <1>2, AnsweredFrame, QuietFootprint DEF Quietly
  <1> QED BY <1>1, <1>2, <1>3, AnsweredAmid

LEMMA VerifyRuns ==
    ASSUME InstallInv, NEW r \in DOMAIN job, Verify(r)
    PROVE  Quietly(r) /\ RunAgrees(r)'
  <1>1. CASE Throw(r)
    BY <1>1, ThrowRuns DEF Throw
  <1>2. CASE Plan(r, tables) = {} /\ Reads(r, "finish", work[r])
    <2>1. RunAgrees(r) /\ at[r] = "next" /\ TypeOK
      BY DEF Verify, InstallInv, IInv
    <2>2. /\ Quietly(r) /\ at'[r] = "finish" /\ work'[r] = work[r] /\ job' = job
          /\ UNCHANGED <<registry, tables>>
          /\ Unmanaged(r)' \subseteq Unmanaged(r) /\ (Connected(r)' <=> Connected(r))
      BY <1>2, ReadsRun
    <2>3. at[r] \in Judged /\ at'[r] \in Judged /\ at'[r] \notin Amid
      BY <2>1, <2>2 DEF Judged, Amid, AtStatement
    <2>4. FinishAgrees(r)'
      BY <1>2, <2>1, <2>2, Derived, EmptyPlan DEF FinishAgrees
    <2>5. StandingAgrees(r)'
      BY <2>3 DEF StandingAgrees
    <2> QED BY <2>1, <2>2, <2>3, <2>4, <2>5, Proceeds
  <1> QED BY <1>1, <1>2 DEF Verify

LEMMA CompleteAdoptionRuns ==
    ASSUME InstallInv, NEW r \in DOMAIN job, CompleteAdoption(r)
    PROVE  Quietly(r) /\ RunAgrees(r)'
  <1>1. Answered(r, "unlock", work[r]) /\ UNCHANGED <<job, tables, owner, registry>> /\ RunAgrees(r)
    BY DEF CompleteAdoption, AdoptionStatus, InstallInv
  <1>2. Quietly(r)
    BY <1>1, AnsweredFrame DEF Quietly
  <1>3. ASSUME at'[r] = "unlock", work'[r] = work[r] PROVE RunAgrees(r)'
    <2>1. at'[r] \notin {"refuse", "registry", "interrupted", "look", "available"} \cup Judged
      BY <1>3 DEF Judged, Amid, AtStatement
    <2> QED BY <1>1, <1>3, <2>1, Elsewhere DEF RunAgrees, ScopeAgrees
  <1> QED BY <1>1, <1>2, <1>3, AnsweredRuns

-----------------------------------------------------------------------------
(* The three steps that write tables, owners and the registry.             *)
LEMMA ExecutesKeeps ==
    ASSUME InstallInv, IInv', NEW r \in DOMAIN job, at[r] \in AtStatement, Connected(r), Frame(r),
           Executes(r, work[r].task.statement), RunAgrees(r)'
    PROVE  InstallInv'
  <1>1. Footprint(r) /\ job' = job /\ registry' = registry
    BY ExecutesFootprint DEF Executes, Frame
  <1>2. IInv /\ TypeOK
    BY DEF InstallInv, IInv
  <1>3. \A t \in Tables : owner'[t] \in {owner[t], None, Resource(r)}
    <2>1. owner \in [Tables -> Resources \cup {None}]
      BY <1>2 DEF TypeOK
    <2> QED BY <2>1 DEF Executes, Owned
  <1>4. OwnersMention' /\ RegisteredIsDeployed'
    BY <1>1, <1>3, OwnersMentionKept, RegisteredKept
  <1>5. CreatedMeansOwned' /\ InstalledStands'
    BY <1>1, ExecutesCreated, ExecutesStanding
  <1> QED BY <1>1, <1>4, <1>5, InstallKeeps

LEMMA ConcurrentOwnsNothing ==
    ASSUME NEW r, NEW st, Concurrent(st)
    PROVE  Owned(r, st) = owner
  BY DEF Concurrent, Owned

LEMMA ExecuteInTransactionInstalls ==
    ASSUME InstallInv, IInv', NEW r \in DOMAIN job, ExecuteInTransaction(r)
    PROVE  InstallInv'
  <1>1. CASE Throw(r)
    BY <1>1, ThrowRuns, QuietKeeps DEF Throw
  <1>2. CASE ~Throw(r)
    <2>1. /\ at[r] = "execute" /\ Connected(r) /\ Executes(r, work[r].task.statement)
          /\ Answered(r, "next", Done(r)) /\ UNCHANGED <<job, registry>>
      BY <1>2 DEF ExecuteInTransaction, Executes
    <2>2. at[r] \in AtStatement /\ at[r] \in Amid /\ "next" \in Amid
      BY <2>1 DEF AtStatement, Amid
    <2>3. Frame(r) => Unmanaged(r)' \subseteq Unmanaged(r)
      BY <2>1, <2>2, ExecutesFootprint DEF Footprint
    <2>4. Frame(r) /\ RunAgrees(r)'
      BY <2>1, <2>2, <2>3, AnsweredAmid
    <2> QED BY <2>1, <2>2, <2>4, ExecutesKeeps
  <1> QED BY <1>1, <1>2

LEMMA ExecuteConcurrentlyInstalls ==
    ASSUME InstallInv, IInv', NEW r \in DOMAIN job, ExecuteConcurrently(r)
    PROVE  InstallInv'
  <1> DEFINE st == work[r].task.statement
  <1>1. /\ at[r] = "execute" /\ at[r] \in AtStatement /\ at[r] \in Amid /\ Connected(r)
        /\ Concurrent(st) /\ TypeOK /\ RunAgrees(r)
    BY DEF ExecuteConcurrently, AtStatement, Amid, InstallInv, IInv
  <1>2. CASE Throw(r)
    BY <1>2, ThrowRuns, QuietKeeps DEF Throw
  <1>3. CASE /\ Accepted(st) /\ tables' = Altered(r, st) /\ Answered(r, "settle", work[r])
             /\ UNCHANGED <<job, metadata, ran>>
    <2>1. Executes(r, st) /\ job' = job /\ registry' = registry
      BY <1>1, <1>3, ConcurrentOwnsNothing DEF Executes, metadata
    <2>2. Frame(r) => Unmanaged(r)' \subseteq Unmanaged(r)
      BY <1>1, <2>1, ExecutesFootprint DEF Footprint
    <2>3. "settle" \in Amid
      BY DEF Amid, AtStatement
    <2>4. Frame(r) /\ RunAgrees(r)'
      BY <1>1, <1>3, <2>1, <2>2, <2>3, AnsweredAmid
    <2> QED BY <1>1, <2>1, <2>4, ExecutesKeeps
  <1>4. CASE /\ Accepted(st) /\ tables' = Interrupted(st) /\ Goto(r, "failStatement")
             /\ Fault /\ holder' \in {holder, Freed(r)} /\ UNCHANGED <<job, metadata, work, ran>>
    <2>1. Executes(r, st) /\ job' = job /\ registry' = registry
      BY <1>1, <1>4 DEF Executes, metadata
    <2>2. Frame(r)
      BY <1>1, <1>4, FrameOf
    <2>3. Unmanaged(r)' \subseteq Unmanaged(r)
      BY <1>1, <2>1, <2>2, ExecutesFootprint DEF Footprint
    <2>4. at'[r] = "failStatement" /\ work'[r] = work[r] /\ at'[r] \in Amid
      BY <1>1, <1>4, Moved DEF Amid, AtStatement
    <2>5. RunAgrees(r)'
      BY <1>1, <2>1, <2>3, <2>4, StaysAmid
    <2> QED BY <1>1, <2>1, <2>2, <2>5, ExecutesKeeps
  <1> QED BY <1>2, <1>3, <1>4 DEF ExecuteConcurrently

LEMMA FinishSchemaInstalls ==
    ASSUME InstallInv, IInv', NEW r \in DOMAIN job, FinishSchema(r)
    PROVE  InstallInv'
  <1>1. CASE Throw(r)
    BY <1>1, ThrowRuns, QuietKeeps DEF Throw
  <1>2. CASE ~Throw(r)
    <2> DEFINE where == IF Adopts(r) THEN "complete" ELSE "unlock"
    <2>1. /\ Finishes(r) /\ Connected(r) /\ Answered(r, where, work[r]) /\ job' = job
      BY <1>2 DEF FinishSchema, Finishes
    <2>2. where \notin {"refuse", "registry", "interrupted", "look", "available"} \cup Judged
      BY DEF Judged, Amid, AtStatement
    <2> HIDE DEF where
    <2>3. Frame(r)
      BY <2>1, AnsweredFrame
    <2>4. at'[r] = where /\ work'[r] = work[r] => RunAgrees(r)'
      BY <2>1, <2>2, Elsewhere DEF InstallInv, RunAgrees, ScopeAgrees
    <2>5. RunAgrees(r)'
      BY <2>1, <2>4, AnsweredRuns
    <2> QED BY <2>1, <2>3, <2>5, FinishesFootprint, FinishesData, InstallKeeps
  <1> QED BY <1>1, <1>2

LEMMA InitInstalls == Init => InstallInv
  <1> SUFFICES ASSUME Init PROVE InstallInv
    OBVIOUS
  <1>1. IInv /\ TypeOK
    BY InitInvariant DEF IInv
  <1>2. /\ \A t \in Tables : owner[t] = None /\ (tables[t] # None => t \in DOMAIN Legacy)
        /\ \A res \in Resources : registry[res].version = 0
        /\ \A r \in DOMAIN job : at[r] = "idle" /\ work[r] = Blank
    BY <1>1, JobTyped DEF Init, Nothing
  <1>3. OwnersMention /\ RegisteredIsDeployed /\ CreatedMeansOwned
    BY <1>2, UnclaimedClosed DEF OwnersMention, RegisteredIsDeployed, CreatedMeansOwned
  <1>4. InstalledStands
    BY <1>2 DEF InstalledStands, Standing
  <1>5. ASSUME NEW r \in DOMAIN job PROVE RunAgrees(r)
    <2>1. at[r] = "idle" /\ at[r] \notin Judged /\ at[r] \notin Amid
      BY <1>2 DEF Judged, Amid, AtStatement
    <2>2. ScopeAgrees(r)
      BY <1>2, <2>1 DEF ScopeAgrees, Blank
    <2> QED BY <2>1, <2>2
           DEF RunAgrees, UpgradesAgree, StandingAgrees, FinishAgrees, AbsorbAgrees
  <1> QED BY <1>1, <1>3, <1>4, <1>5 DEF InstallInv

LEMMA StutterInstalls ==
    ASSUME InstallInv, IInv', UNCHANGED vars
    PROVE  InstallInv'
  <1>1. UNCHANGED <<job, tables, owner, registry, holder, at, work>>
    BY DEF vars, metadata
  <1>2. OwnersMention' /\ RegisteredIsDeployed' /\ CreatedMeansOwned'
    BY <1>1, Derived DEF InstallInv, OwnersMention, RegisteredIsDeployed, CreatedMeansOwned
  <1>3. InstalledStands'
    BY <1>1, SameStanding DEF InstallInv, InstalledStands
  <1>4. ASSUME NEW r \in DOMAIN job PROVE RunAgrees(r)'
    <2>1. Footprint(r)
      BY <1>1, Derived DEF Footprint, Frame, Unmanaged
    <2>2. \A u \in DOMAIN job \ {r} : RunAgrees(u)'
      BY <2>1, OthersRun
    <2>3. RunAgrees(r) /\ Migrating(r)' = Migrating(r) /\ Unmanaged(r)' = Unmanaged(r)
          /\ (Connected(r)' <=> Connected(r))
      BY <1>1, Derived DEF InstallInv, Migrating, Unmanaged, Connected, Resource
    <2>4. Standing(Resource(r))' = Standing(Resource(r)) /\ Stands(Resource(r))' = Stands(Resource(r))
      BY <1>1, Derived, SameStanding
    <2>5. ScopeAgrees(r)'
      BY <1>1, <2>3, Derived DEF RunAgrees, ScopeAgrees
    <2>6. ASSUME Connected(r)
          PROVE  UpgradesAgree(r)' /\ StandingAgrees(r)' /\ FinishAgrees(r)' /\ AbsorbAgrees(r)'
      <3>1. UpgradesAgree(r)' /\ AbsorbAgrees(r)'
        BY <1>1, <2>3, <2>6, Derived DEF RunAgrees, UpgradesAgree, AbsorbAgrees
      <3>2. StandingAgrees(r)'
        BY <1>1, <2>3, <2>4, <2>6, Derived DEF RunAgrees, StandingAgrees
      <3>3. FinishAgrees(r)'
        BY <1>1, <2>3, <2>6, Derived DEF RunAgrees, FinishAgrees
      <3> QED BY <3>1, <3>2, <3>3
    <2> QED BY <2>3, <2>5, <2>6 DEF RunAgrees
  <1> QED BY <1>1, <1>2, <1>3, <1>4 DEF InstallInv

LEMMA NextInstalls == InstallInv /\ [Next]_vars => InstallInv'
  <1> SUFFICES ASSUME InstallInv, [Next]_vars PROVE InstallInv'
    OBVIOUS
  <1>1. IInv'
    BY NextInvariant DEF InstallInv
  <1>2. ASSUME NEW r \in DOMAIN job, Step(r) PROVE InstallInv'
    <2>1. CASE ExecuteInTransaction(r) \/ ExecuteConcurrently(r) \/ FinishSchema(r)
      BY <1>1, <2>1, ExecuteInTransactionInstalls, ExecuteConcurrentlyInstalls, FinishSchemaInstalls
    <2>2. CASE SessionGone(r)
      BY <1>1, <2>2, ThrowRuns, QuietKeeps DEF SessionGone, Throw
    <2>3. CASE ~(ExecuteInTransaction(r) \/ ExecuteConcurrently(r) \/ FinishSchema(r) \/ SessionGone(r))
      <3>1. Quietly(r) /\ RunAgrees(r)'
        BY <1>2, <2>3, HasInterruptedReconciliationRuns, LookForTablesRuns,
           RefuseImplicitAdoptionRuns, ReadRegistryRuns, AssertOwnershipRuns,
           AssertAdoptionAvailableRuns, RecordAdoptionRuns, BeginMigrationRuns,
           PlanReconciliationRuns, CheckMarkRuns, MarksRun, CompleteMigrationRuns, LeavingRuns,
           VerifyRuns, CompleteAdoptionRuns
           DEF Step
      <3> QED BY <1>1, <3>1, QuietKeeps
    <2> QED BY <2>1, <2>2, <2>3
  <1>3. ASSUME NEW r \in DOMAIN job,
               AcquireLock(r) \/ AcquireTimesOut(r) \/ Refused(r) \/ LoseSession(r) \/ Crash(r)
        PROVE  InstallInv'
    <2>1. Quietly(r) /\ RunAgrees(r)'
      BY <1>3, LeavingRuns, LoseSessionRuns, ThrowRuns DEF Refused
    <2> QED BY <1>1, <2>1, QuietKeeps
  <1> QED BY <1>1, <1>2, <1>3, StutterInstalls DEF Next

(* The whole invariant holds.                                              *)
THEOREM InstallInductive == Spec => []InstallInv
  BY InitInstalls, NextInstalls, PTL DEF Spec

(* Every table that a call has created, or renamed one it owns to, has an  *)
(* owner: the claim commits with the statement (executeStatement(),        *)
(* manager.ts:1086-1130), so that no crash leaves a table behind which the *)
(* next start refuses as an implicit adoption.                             *)
THEOREM CreatedIsOwned == Spec => []CreatedMeansOwned
  <1>1. InstallInv => CreatedMeansOwned
    BY DEF InstallInv
  <1> QED BY <1>1, InstallInductive, PTL

(* What is registered stands: neither the calls of other resources nor     *)
(* older or newer servers, interrupted or not, take anything of it away    *)
(* (ensure(), manager.ts:360-376, with finishSchema()).                    *)
THEOREM InstalledKeepsStanding == Spec => []InstalledStands
  <1>1. InstallInv => InstalledStands
    BY DEF InstallInv
  <1> QED BY <1>1, InstallInductive, PTL

(* A table passes from nobody to a run's resource in a step of that run:   *)
(* the claim of a statement, or that of finishSchema().                    *)
LEMMA ClaimAbsorbs ==
    ASSUME InstallInv, NEW r \in DOMAIN job, NEW t \in Tables, ExecuteInTransaction(r),
           tables[t] # None, owner[t] = None, owner'[t] = Resource(r)
    PROVE  Frame(r) /\ t \in HandedOver(r)
  <1> DEFINE st == work[r].task.statement
  <1>1. TypeOK /\ at[r] = "execute" /\ at[r] \in AtStatement
    BY DEF InstallInv, IInv, ExecuteInTransaction, AtStatement
  <1>2. Resource(r) \in Resources /\ None \notin Resources /\ owner \in [Tables -> Resources \cup {None}]
    BY <1>1, JobTyped, PostgresAssumption DEF TypeOK
  <1>3. /\ Accepted(st) /\ owner' = Owned(r, st) /\ job' = job
        /\ Answered(r, "next", Done(r))
    BY <1>2 DEF ExecuteInTransaction, Throw, metadata
  <1>4. Frame(r)
    BY <1>3, AnsweredFrame
  <1>5. \/ st.type = "createTable" /\ t = st.table
        \/ st.type = "renameTable" /\ t = st.to
    BY <1>2, <1>3 DEF Owned
  <1>6. st.type = "renameTable" /\ t = st.to
    BY <1>3, <1>5 DEF Accepted
  <1>7. st \in OperationsOf(Resource(r), 1 .. Version(r))
    BY <1>1, <1>6, AtHandScope DEF Planned, PlannedTypes
  <1> QED BY <1>4, <1>6, <1>7 DEF HandedOver

LEMMA FinishAbsorbs ==
    ASSUME InstallInv, NEW r \in DOMAIN job, NEW t \in Tables, FinishSchema(r), ~Adopts(r),
           tables[t] # None, owner[t] = None, owner'[t] # None
    PROVE  Frame(r) /\ (work[r].resumed \/ t \in HandedOver(r))
  <1>1. /\ Connected(r) /\ at[r] = "finish" /\ job' = job
        /\ Answered(r, IF Adopts(r) THEN "complete" ELSE "unlock", work[r])
        /\ owner' = [n \in Tables |-> IF n \in DOMAIN Wanted(r) THEN Resource(r) ELSE owner[n]]
    BY DEF FinishSchema, Throw, metadata
  <1>2. Frame(r)
    BY <1>1, AnsweredFrame
  <1>3. t \in DOMAIN Wanted(r)
    BY <1>1
  <1>4. ~work[r].resumed => Unmanaged(r) = {}
    BY <1>1 DEF InstallInv, RunAgrees, AbsorbAgrees, Judged
  <1> QED BY <1>2, <1>3, <1>4 DEF Unmanaged

LEMMA NextAbsorbs ==
    ASSUME InstallInv, [Next]_vars
    PROVE  \A t \in Tables, r \in DOMAIN job :
              /\ Moves(r) /\ ~Adopts(r) /\ tables[t] # None
              /\ owner[t] = None /\ owner'[t] = Resource(r)
              => work[r].resumed \/ t \in HandedOver(r)
  <1> SUFFICES ASSUME NEW t \in Tables, NEW r \in DOMAIN job, Moves(r), ~Adopts(r),
                      tables[t] # None, owner[t] = None, owner'[t] = Resource(r)
               PROVE  work[r].resumed \/ t \in HandedOver(r)
    OBVIOUS
  <1>1. TypeOK /\ Resource(r) # None
    BY JobTyped, PostgresAssumption DEF InstallInv, IInv
  <1>2. ASSUME NEW u \in DOMAIN job, ExecuteInTransaction(u)
        PROVE  work[r].resumed \/ t \in HandedOver(r)
    <2>1. Frame(u)
      <3>1. Answered(u, "next", Done(u)) /\ job' = job
        BY <1>1, <1>2 DEF ExecuteInTransaction, Throw, metadata
      <3> QED BY <3>1, AnsweredFrame
    <2>2. u = r
      BY <2>1 DEF Frame, Moves
    <2> QED BY <1>2, <2>2, ClaimAbsorbs
  <1>3. ASSUME NEW u \in DOMAIN job, FinishSchema(u)
        PROVE  work[r].resumed \/ t \in HandedOver(r)
    <2>1. Frame(u)
      <3>1. job' = job /\ Answered(u, IF Adopts(u) THEN "complete" ELSE "unlock", work[u])
        BY <1>1, <1>3 DEF FinishSchema, Throw, metadata
      <3> QED BY <3>1, AnsweredFrame
    <2>2. u = r
      BY <2>1 DEF Frame, Moves
    <2> QED BY <1>1, <1>3, <2>2, FinishAbsorbs
  <1> QED BY <1>1, <1>2, <1>3, Writers

(* ensure() takes no existing table that nobody manages, whatever other    *)
(* resources do between its look at the tables and finishSchema()          *)
(* (refuseImplicitAdoption(), manager.ts:817-834): only the              *)
(* continuation of an interrupted call, a release or a rename hand it one. *)
THEOREM NothingIsAbsorbed == Spec => AbsorbsNothing
  <1>1. InstallInv /\ [Next]_vars =>
           [\A t \in Tables, r \in DOMAIN job :
              /\ Moves(r) /\ ~Adopts(r) /\ tables[t] # None
              /\ owner[t] = None /\ owner'[t] = Resource(r)
              => work[r].resumed \/ t \in HandedOver(r)]_vars
    BY NextAbsorbs
  <1> QED BY <1>1, InstallInductive, PTL DEF Spec, AbsorbsNothing

=============================================================================
