----------------------- MODULE PostgresSchemaProofs -----------------------
(***************************************************************************)
(* Theorems about ensure() and adopt() of the PostgreSQL lane, for any     *)
(* resources, declarations, migrations and deployments, and any number of  *)
(* crashes, refused or interrupted statements and lost sessions.           *)
(***************************************************************************)
EXTENDS PostgresSchema, FiniteSetTheorems, WellFoundedInduction, TLAPS

(* A set of numbers that is not empty has a least element: among the       *)
(* intervals that end in one of them, one is contained in all others.      *)
LEMMA LeastElement ==
    ASSUME NEW S \in SUBSET Nat, S # {}
    PROVE  Min(S) \in S
  <1> DEFINE Intervals == {0..n : n \in S}
  <1>1. PICK low \in Intervals : \A i \in Intervals : ~ (<<i, low>> \in StrictSubsetOrdering(Nat))
    <2>1. \A n \in S : IsFiniteSet(0..n)
      BY FS_Interval
    <2>2. Intervals \subseteq FiniteSubsetsOf(Nat)
      BY <2>1 DEF FiniteSubsetsOf
    <2>3. Intervals # {}
      OBVIOUS
    <2> HIDE DEF Intervals
    <2> QED BY <2>2, <2>3, WFMin, FS_StrictSubsetOrderingWellFounded
  <1>2. PICK n \in S : low = 0..n
    BY <1>1
  <1>3. ASSUME NEW k \in S, k < n PROVE FALSE
    <2>1. 0..k \subseteq 0..n /\ n \in 0..n /\ n \notin 0..k
      BY <1>3
    <2>2. 0..k \in Intervals /\ <<0..k, 0..n>> \in StrictSubsetOrdering(Nat)
      BY <2>1 DEF StrictSubsetOrdering
    <2> QED BY <1>1, <1>2, <2>2
  <1>4. \A k \in S : n <= k
    BY <1>3
  <1> QED BY <1>4 DEF Min

(* What the declaration of a run is made of.                               *)
LEMMA JobTyped ==
    ASSUME TypeOK, NEW r \in DOMAIN job
    PROVE  /\ r \in Runs /\ r # None
           /\ Resource(r) \in Resources /\ Version(r) \in Versions
           /\ Adopts(r) => job[r].baseline \in 0..MaxVersion
           /\ DOMAIN Wanted(r) \subseteq Tables
           /\ \A t \in DOMAIN Wanted(r) : Wanted(r)[t] \subseteq Features
  <1>1. /\ job \in Deployments /\ MaxVersion \in Nat
        /\ DOMAIN job \subseteq Runs /\ None \notin Runs
        /\ job[r].resource \in Resources /\ job[r].version \in Versions
        /\ job[r].baseline # None => job[r].baseline \in 0 .. job[r].version - 1
    BY PostgresAssumption DEF TypeOK
  <1>2. /\ DOMAIN Wanted(r) \subseteq Tables
        /\ \A t \in DOMAIN Wanted(r) : Wanted(r)[t] \subseteq Features
    BY <1>1, PostgresAssumption DEF Wanted, Resource, Version
  <1>3. Adopts(r) => job[r].baseline \in 0..MaxVersion
    BY <1>1 DEF Adopts, Versions
  <1> QED BY <1>1, <1>2, <1>3 DEF Resource, Version

(* The statements of an operation are well formed.                         *)
LEMMA StatementsTyped ==
    ASSUME NEW op \in Operations
    PROVE  MigrationStatements(op) \in Seq(Statements)
  <1>1. /\ op = [type |-> op.type, table |-> op.table, feature |-> op.feature, to |-> op.to]
        /\ op.type \in OperationTypes /\ op.table \in Tables \cup {None}
        /\ op.feature \in Features \cup {None} /\ op.to \in Tables \cup Features \cup {None}
        /\ WellFormed(op)
    BY DEF Operations, OfTypes
  <1>2. ASSUME NEW type \in StatementTypes \ {"renameTable", "renameColumn", "createTable",
                                              "dropTable", "releaseTable", "sql"},
               op.type \in {"alterColumn", "addConstraint", "addIndex"}
        PROVE  [op EXCEPT !.type = type] \in Statements
    <2>1. [op EXCEPT !.type = type] =
             [type |-> type, table |-> op.table, feature |-> op.feature, to |-> op.to]
      BY <1>1
    <2>2. op.table \in Tables /\ op.feature \in Features
      BY <1>1, <1>2 DEF WellFormed
    <2> QED BY <1>1, <2>1, <2>2 DEF Statements, OfTypes, WellFormed
  <1>3. CASE op.type = "alterColumn"
    <2>1. {"alterType", "alterDefault", "alterNull"} \subseteq
             StatementTypes \ {"renameTable", "renameColumn", "createTable",
                               "dropTable", "releaseTable", "sql"}
      BY DEF StatementTypes, OperationTypes
    <2>2. MigrationStatements(op) = <<[op EXCEPT !.type = "alterType"],
             [op EXCEPT !.type = "alterDefault"], [op EXCEPT !.type = "alterNull"]>>
      BY <1>3 DEF MigrationStatements
    <2> QED BY <1>2, <1>3, <2>1, <2>2
  <1>4. CASE op.type = "addConstraint"
    <2>1. {"addNotValid", "validate"} \subseteq
             StatementTypes \ {"renameTable", "renameColumn", "createTable",
                               "dropTable", "releaseTable", "sql"}
      BY DEF StatementTypes, OperationTypes
    <2>2. MigrationStatements(op) =
             <<[op EXCEPT !.type = "addNotValid"], [op EXCEPT !.type = "validate"]>>
      BY <1>4 DEF MigrationStatements
    <2> QED BY <1>2, <1>4, <2>1, <2>2
  <1>5. CASE op.type = "addIndex"
    <2>1. "buildIndexIfMissing" \in
             StatementTypes \ {"renameTable", "renameColumn", "createTable",
                               "dropTable", "releaseTable", "sql"}
      BY DEF StatementTypes, OperationTypes
    <2>2. MigrationStatements(op) = <<[op EXCEPT !.type = "buildIndexIfMissing"]>>
      BY <1>5 DEF MigrationStatements
    <2> QED BY <1>2, <1>5, <2>1, <2>2
  <1>6. CASE op.type \notin {"alterColumn", "addConstraint", "addIndex"}
    <2>1. op \in Statements
      BY <1>1, <1>6 DEF Statements, StatementTypes, OfTypes
    <2>2. MigrationStatements(op) = <<op>>
      BY <1>6 DEF MigrationStatements
    <2> QED BY <2>1, <2>2
  <1> QED BY <1>3, <1>4, <1>5, <1>6

LEMMA MigrationTyped ==
    ASSUME NEW res \in Resources, NEW v \in Versions
    PROVE  /\ MigrationTasks(res, v) \subseteq Tasks
           /\ \A y \in MigrationTasks(res, v) : y.operation # 0
  <1> SUFFICES ASSUME NEW y \in MigrationTasks(res, v)
               PROVE  y \in Tasks /\ y.operation # 0
    OBVIOUS
  <1>1. Migration[res][v] \in Seq(Operations)
    BY PostgresAssumption
  <1>2. PICK n \in DOMAIN Migration[res][v] :
           \E k \in DOMAIN MigrationStatements(Migration[res][v][n]) :
              y = Task(v, n, k, MigrationStatements(Migration[res][v][n])[k])
    BY DEF MigrationTasks
  <1>3. Migration[res][v][n] \in Operations /\ n \in Nat /\ n # 0
    BY <1>1, <1>2
  <1> DEFINE statements == MigrationStatements(Migration[res][v][n])
  <1>4. statements \in Seq(Statements)
    BY <1>3, StatementsTyped
  <1>5. PICK k \in DOMAIN statements : y = Task(v, n, k, statements[k])
    BY <1>2
  <1> HIDE DEF statements
  <1>6. statements[k] \in Statements /\ k \in Nat
    BY <1>4, <1>5
  <1> QED BY <1>3, <1>5, <1>6 DEF Task, Tasks

(* What the planner plans is well formed as well.                          *)
LEMMA DoTyped ==
    ASSUME NEW t \in Tables, NEW f \in Features \cup {None},
           NEW type \in StatementTypes \ {"renameTable", "renameColumn"},
           f = None => type = "createTable"
    PROVE  Do(type, t, f) \in Statements
  BY DEF Do, Statements, OfTypes, WellFormed

LEMMA RepairTyped ==
    ASSUME NEW t \in Tables, NEW f \in Features, NEW shape
    PROVE  Repair(t, f, shape) \subseteq Statements
  <1>1. {"addFeature", "alterType", "buildIndex", "dropIndex", "addNotValid", "validate", "replace"}
           \subseteq StatementTypes \ {"renameTable", "renameColumn"}
    BY DEF StatementTypes, OperationTypes
  <1>2. \A type \in {"addFeature", "alterType", "buildIndex", "dropIndex", "addNotValid",
                     "validate", "replace"} : Do(type, t, f) \in Statements
    BY <1>1, DoTyped, PostgresAssumption
  <1> QED BY <1>2 DEF Repair

LEMMA PlanTyped ==
    ASSUME TypeOK, NEW r \in DOMAIN job, NEW actual
    PROVE  Plan(r, actual) \subseteq Statements
  <1>1. ASSUME NEW t \in DOMAIN Wanted(r) PROVE CreateTable(t, Wanted(r)[t]) \subseteq Statements
    <2>1. "createTable" \in StatementTypes /\ "addFeature" \in StatementTypes
      BY DEF StatementTypes, OperationTypes
    <2>2. t \in Tables /\ Wanted(r)[t] \subseteq Features
      BY JobTyped
    <2>3. Do("createTable", t, None) \in Statements
      BY <2>1, <2>2, DoTyped
    <2>4. \A f \in Wanted(r)[t] : Do("addFeature", t, f) \in Statements
      BY <2>1, <2>2, DoTyped, PostgresAssumption
    <2> QED BY <2>3, <2>4 DEF CreateTable
  <1>2. ASSUME NEW t \in DOMAIN Wanted(r), NEW f \in Wanted(r)[t]
        PROVE  Repair(t, f, actual[t][f]) \subseteq Statements
    BY JobTyped, RepairTyped
  <1> QED BY <1>1, <1>2 DEF Plan

-----------------------------------------------------------------------------
(* What TypeOK says of the database and the metadata.                      *)
DataTyped ==
    /\ tables \in [Tables -> {None} \cup Shaped]
    /\ owner \in [Tables -> Resources \cup {None}]
    /\ registry \in [Resources -> [version : 0..MaxVersion, tables : SUBSET Tables]]
    /\ journal \in [Resources -> [Versions -> Statuses]]
    /\ actions \in [Resources -> SUBSET Tasks]
    /\ completed \in [Resources -> SUBSET Tasks]
    /\ adoption \in [Resources -> AdoptionRows]
    /\ ran \in [Resources -> SUBSET Tasks]

(* A step of r that leaves alone what the other runs rely on: their notes, *)
(* and, without the lock, the marks and the row of their resource.         *)
Apart(r) ==
    /\ job' = job
    /\ \A u \in DOMAIN job \ {r} : at'[u] = at[u] /\ work'[u] = work[u]
    /\ \A res \in Resources :
          /\ holder'[res] \in {holder[res], None, r}
          /\ completed'[res] # completed[res] \/ registry'[res] # registry[res] => holder[res] = r

LEMMA OthersAgree ==
    ASSUME IInv, NEW r \in DOMAIN job, Apart(r), NEW u \in DOMAIN job \ {r}
    PROVE  PlanAgrees(u)' /\ (Connected(u)' => LockAgrees(u)')
  <1>1. /\ at'[u] = at[u] /\ work'[u] = work[u] /\ job' = job
        /\ PlanAgrees(u) /\ (Connected(u) => LockAgrees(u))
    BY DEF IInv, Apart
  <1>2. /\ Resource(u)' = Resource(u) /\ Version(u)' = Version(u)
        /\ (Migrating(u)' <=> Migrating(u)) /\ Current(u)' = Current(u)
        /\ MigrationTasks(Resource(u), Current(u))' = MigrationTasks(Resource(u), Current(u))
    BY <1>1 DEF Resource, Version, Migrating, Current
  <1>3. PlanAgrees(u)'
    BY <1>1, <1>2 DEF PlanAgrees
  <1>4. ASSUME Connected(u)' PROVE LockAgrees(u)'
    <2>1. Resource(u) \in Resources /\ u # None
      BY JobTyped DEF IInv
    <2>2. holder[Resource(u)] = u
      BY <1>2, <1>4, <2>1 DEF Apart, Connected
    <2>3. completed'[Resource(u)] = completed[Resource(u)]
          /\ registry'[Resource(u)] = registry[Resource(u)]
      BY <2>1, <2>2 DEF Apart
    <2>4. LockAgrees(u)
      BY <1>1, <2>2 DEF Connected
    <2> QED BY <1>1, <1>2, <2>3, <2>4 DEF LockAgrees
  <1> QED BY <1>3, <1>4

LEMMA StepKeeps ==
    ASSUME IInv, NEW r \in DOMAIN job, TypeOK', Apart(r), EffectsMarked',
           RecordedMigrationsRan', PlanAgrees(r)', Connected(r)' => LockAgrees(r)'
    PROVE  IInv'
  <1>1. job' = job
    BY DEF Apart
  <1>2. ASSUME NEW u \in DOMAIN job PROVE PlanAgrees(u)' /\ (Connected(u)' => LockAgrees(u)')
    BY OthersAgree, u = r \/ u \in DOMAIN job \ {r}
  <1> QED BY <1>1, <1>2 DEF IInv

(* The forms of a step.                                                    *)
LEMMA MoveTyped ==
    ASSUME TypeOK, NEW r \in DOMAIN job, NEW where \in Stages, NEW what \in Notes,
           Goto(r, where), Note(r, what)
    PROVE  /\ at' \in [Runs -> Stages] /\ work' \in [Runs -> Notes]
           /\ at'[r] = where /\ work'[r] = what
           /\ \A u \in DOMAIN job \ {r} : at'[u] = at[u] /\ work'[u] = work[u]
  BY JobTyped, PostgresAssumption DEF TypeOK, Goto, Note

LEMMA StayTyped ==
    ASSUME TypeOK, NEW r \in DOMAIN job
    PROVE  work[r] \in Notes /\ (UNCHANGED work => Note(r, work[r]))
  BY JobTyped DEF TypeOK, Note

LEMMA FreedTyped ==
    ASSUME TypeOK, NEW r \in DOMAIN job
    PROVE  /\ Freed(r) \in [Resources -> Runs \cup {None}]
           /\ \A res \in Resources : Freed(r)[res] \in {holder[res], None}
           /\ Freed(r)[Resource(r)] # r
  BY JobTyped DEF TypeOK, Freed, Connected

LEMMA FaultTyped ==
    ASSUME TypeOK, Fault
    PROVE  faults' \in 0..MaxFaults
  BY PostgresAssumption DEF TypeOK, Fault

LEMMA CaughtWhere ==
    ASSUME TypeOK, NEW r \in DOMAIN job
    PROVE  /\ Caught(r) \in Stages
           /\ Caught(r) \notin Judged \/ (Caught(r) = "failStatement" /\ at[r] \in {"execute", "settle"})
           /\ Outwards(r) \in Stages \ Judged /\ Upwards(r) \in Stages \ Judged
  BY DEF Caught, Upwards, Outwards, Stages, Judged, Amid, AtStatement

(* A run that is sent on without having changed its notes keeps its plan,  *)
(* unless it is sent on to a stage that speaks of it.                      *)
LEMMA CaughtAgrees ==
    ASSUME IInv, NEW r \in DOMAIN job, Goto(r, Caught(r)), UNCHANGED <<job, work>>
    PROVE  PlanAgrees(r)'
  <1>1. /\ at'[r] = Caught(r) /\ work'[r] = work[r] /\ PlanAgrees(r)
    BY JobTyped DEF IInv, TypeOK, Goto
  <1>2. /\ Resource(r)' = Resource(r) /\ (Migrating(r)' <=> Migrating(r)) /\ Current(r)' = Current(r)
        /\ MigrationTasks(Resource(r), Current(r))' = MigrationTasks(Resource(r), Current(r))
    BY DEF Resource, Migrating, Current
  <1>3. CASE Caught(r) \notin Judged
    BY <1>1, <1>3 DEF PlanAgrees, Judged, Amid
  <1>4. CASE Caught(r) = "failStatement" /\ at[r] \in {"execute", "settle"}
    BY <1>1, <1>2, <1>4 DEF PlanAgrees, Amid, AtStatement
  <1> QED BY <1>3, <1>4, CaughtWhere DEF IInv

LEMMA CaughtKeeps ==
    ASSUME IInv, NEW r \in DOMAIN job, Goto(r, Caught(r)),
           UNCHANGED <<job, tables, metadata, holder, work, ran>>, faults' \in 0..MaxFaults
    PROVE  IInv'
  <1>1. UNCHANGED <<completed, registry, journal, ran, job, holder, work>>
    BY DEF metadata, marks
  <1>2. at' \in [Runs -> Stages] /\ at'[r] = Caught(r) /\ \A u \in DOMAIN job \ {r} : at'[u] = at[u]
    BY JobTyped, CaughtWhere DEF IInv, TypeOK, Goto
  <1>3. TypeOK'
    BY <1>2 DEF IInv, TypeOK, metadata, marks
  <1>4. Apart(r) /\ EffectsMarked' /\ RecordedMigrationsRan'
    BY <1>1, <1>2 DEF Apart, IInv, EffectsMarked, RecordedMigrationsRan
  <1>5. PlanAgrees(r)'
    BY <1>1, CaughtAgrees
  <1>6. ASSUME Connected(r)' PROVE LockAgrees(r)'
    <2>1. LockAgrees(r) /\ work'[r] = work[r]
      BY <1>1, <1>6 DEF IInv, Connected, Resource
    <2>2. /\ Resource(r)' = Resource(r) /\ Version(r)' = Version(r)
          /\ (Migrating(r)' <=> Migrating(r)) /\ Current(r)' = Current(r)
          /\ MigrationTasks(Resource(r), Current(r))' = MigrationTasks(Resource(r), Current(r))
      BY <1>1 DEF Resource, Version, Migrating, Current
    <2>3. CASE Caught(r) \notin Judged
      BY <1>2, <2>3 DEF LockAgrees, Judged, Amid
    <2>4. CASE Caught(r) = "failStatement" /\ at[r] \in {"execute", "settle"}
      BY <1>1, <1>2, <2>1, <2>2, <2>4 DEF LockAgrees, Judged, Amid, AtStatement
    <2> QED BY <2>3, <2>4, CaughtWhere DEF IInv
  <1> QED BY <1>3, <1>4, <1>5, <1>6, StepKeeps

LEMMA ThrowKeeps ==
    ASSUME IInv, NEW r \in DOMAIN job, Throw(r)
    PROVE  IInv'
  BY CaughtKeeps DEF Throw, IInv, TypeOK

LEMMA ReadsKeeps ==
    ASSUME IInv, NEW r \in DOMAIN job, NEW where \in Stages, NEW what \in Notes,
           Reads(r, where, what), PlanAgrees(r)', Connected(r) => LockAgrees(r)'
    PROVE  IInv'
  <1>1. UNCHANGED <<job, tables, metadata, completed, registry, journal, ran, holder, faults>>
    BY DEF Reads, metadata, marks
  <1>2. /\ at' \in [Runs -> Stages] /\ work' \in [Runs -> Notes]
        /\ \A u \in DOMAIN job \ {r} : at'[u] = at[u] /\ work'[u] = work[u]
    BY MoveTyped DEF Reads, IInv
  <1>3. TypeOK'
    BY <1>1, <1>2 DEF IInv, TypeOK, metadata, marks
  <1>4. Apart(r) /\ EffectsMarked' /\ RecordedMigrationsRan'
    BY <1>1, <1>2 DEF Apart, IInv, EffectsMarked, RecordedMigrationsRan
  <1>5. Connected(r)' => LockAgrees(r)'
    BY <1>1 DEF Connected, Resource
  <1> QED BY <1>3, <1>4, <1>5, StepKeeps

(* ... to a stage of which the invariant says nothing.                     *)
LEMMA PlainReads ==
    ASSUME IInv, NEW r \in DOMAIN job, NEW where \in Stages \ Judged, NEW what \in Notes,
           Reads(r, where, what)
    PROVE  IInv'
  <1>1. at'[r] = where
    BY MoveTyped DEF Reads, IInv
  <1>2. PlanAgrees(r)' /\ LockAgrees(r)'
    BY <1>1 DEF PlanAgrees, LockAgrees, Judged, Amid
  <1> QED BY <1>2, ReadsKeeps

LEMMA AnsweredKeeps ==
    ASSUME IInv, NEW r \in DOMAIN job, Connected(r), NEW where \in Stages, NEW what \in Notes,
           Answered(r, where, what), job' = job, DataTyped', EffectsMarked', RecordedMigrationsRan',
           \A res \in Resources \ {Resource(r)} :
              completed'[res] = completed[res] /\ registry'[res] = registry[res],
           at'[r] = where /\ work'[r] = what => PlanAgrees(r)' /\ LockAgrees(r)'
    PROVE  IInv'
  <1>1. CASE Goto(r, where) /\ Note(r, what) /\ UNCHANGED <<holder, faults>>
    <2>1. /\ at' \in [Runs -> Stages] /\ work' \in [Runs -> Notes]
          /\ at'[r] = where /\ work'[r] = what
          /\ \A u \in DOMAIN job \ {r} : at'[u] = at[u] /\ work'[u] = work[u]
      BY <1>1, MoveTyped DEF IInv
    <2>2. TypeOK'
      BY <1>1, <2>1 DEF IInv, TypeOK, DataTyped
    <2>3. Apart(r)
      BY <1>1, <2>1 DEF Apart, Connected
    <2> QED BY <2>1, <2>2, <2>3, StepKeeps
  <1>2. CASE Goto(r, Caught(r)) /\ UNCHANGED work /\ holder' = Freed(r) /\ Fault
    <2>1. at' \in [Runs -> Stages] /\ \A u \in DOMAIN job \ {r} : at'[u] = at[u]
      BY <1>2, JobTyped, CaughtWhere DEF IInv, TypeOK, Goto
    <2>2. TypeOK'
      BY <1>2, <2>1, FreedTyped, FaultTyped DEF IInv, TypeOK, DataTyped
    <2>3. Apart(r)
      BY <1>2, <2>1, FreedTyped DEF Apart, Connected, IInv
    <2>4. PlanAgrees(r)'
      BY <1>2, CaughtAgrees
    <2>5. ~Connected(r)'
      BY <1>2, FreedTyped DEF Connected, Resource, IInv
    <2> QED BY <2>2, <2>3, <2>4, <2>5, StepKeeps
  <1> QED BY <1>1, <1>2 DEF Answered

(* ... by a statement that leaves the marks and the registry as they are,  *)
(* on the way to a stage of which the invariant says nothing.              *)
LEMMA PlainAnswered ==
    ASSUME IInv, NEW r \in DOMAIN job, Connected(r), NEW where \in Stages \ Judged,
           NEW what \in Notes, Answered(r, where, what), DataTyped',
           UNCHANGED <<job, completed, registry, journal, ran>>
    PROVE  IInv'
  <1>1. EffectsMarked' /\ RecordedMigrationsRan'
    BY DEF IInv, EffectsMarked, RecordedMigrationsRan
  <1>2. at'[r] = where => PlanAgrees(r)' /\ LockAgrees(r)'
    BY DEF PlanAgrees, LockAgrees, Judged, Amid
  <1> QED BY <1>1, <1>2, AnsweredKeeps

(* A run that leaves, whatever becomes of its lock.                        *)
LEMMA LeavingKeeps ==
    ASSUME IInv, NEW r \in DOMAIN job, NEW where \in Stages \ Judged, NEW what \in Notes,
           Goto(r, where), Note(r, what), job' = job, DataTyped',
           holder' \in {holder, Freed(r)}, faults' \in 0..MaxFaults,
           UNCHANGED <<completed, registry, ran>>, RecordedMigrationsRan'
    PROVE  IInv'
  <1>1. /\ at' \in [Runs -> Stages] /\ work' \in [Runs -> Notes] /\ at'[r] = where
        /\ \A u \in DOMAIN job \ {r} : at'[u] = at[u] /\ work'[u] = work[u]
    BY MoveTyped DEF IInv
  <1>2. TypeOK'
    BY <1>1, FreedTyped DEF IInv, TypeOK, DataTyped
  <1>3. Apart(r)
    BY <1>1, FreedTyped DEF Apart, IInv
  <1>4. EffectsMarked'
    BY DEF IInv, EffectsMarked
  <1>5. PlanAgrees(r)' /\ LockAgrees(r)'
    BY <1>1 DEF PlanAgrees, LockAgrees, Judged, Amid
  <1> QED BY <1>2, <1>3, <1>4, <1>5, StepKeeps

-----------------------------------------------------------------------------
(* The two ways to the lock, and what a run reads before it plans.         *)
LEMMA AcquireLockKeeps ==
    ASSUME IInv, NEW r \in DOMAIN job, AcquireLock(r)
    PROVE  IInv'
  <1> DEFINE where == IF Adopts(r) THEN "available" ELSE "interrupted"
  <1>1. /\ holder' = [holder EXCEPT ![Resource(r)] = r] /\ Goto(r, where)
        /\ UNCHANGED <<job, tables, metadata, completed, registry, journal, work, ran, faults>>
    BY DEF AcquireLock, metadata, marks
  <1>2. where \in Stages \ Judged
    BY DEF Stages, Judged, Amid, AtStatement
  <1> HIDE DEF where
  <1>3. /\ at' \in [Runs -> Stages] /\ at'[r] = where
        /\ \A u \in DOMAIN job \ {r} : at'[u] = at[u] /\ work'[u] = work[u]
    BY <1>1, <1>2, JobTyped DEF Goto, IInv, TypeOK
  <1>4. TypeOK'
    BY <1>1, <1>3, JobTyped DEF IInv, TypeOK, metadata, marks
  <1>5. Apart(r) /\ EffectsMarked' /\ RecordedMigrationsRan'
    BY <1>1, <1>3 DEF Apart, IInv, TypeOK, EffectsMarked, RecordedMigrationsRan
  <1>6. PlanAgrees(r)' /\ LockAgrees(r)'
    BY <1>2, <1>3 DEF PlanAgrees, LockAgrees, Judged, Amid
  <1> QED BY <1>4, <1>5, <1>6, StepKeeps

LEMMA DataSame ==
    ASSUME IInv, UNCHANGED <<tables, metadata, ran>>
    PROVE  DataTyped' /\ UNCHANGED <<completed, registry, journal>> /\ RecordedMigrationsRan'
  <1>1. UNCHANGED <<tables, owner, registry, journal, actions, completed, adoption, ran>>
    BY DEF metadata, marks
  <1> QED BY <1>1 DEF IInv, TypeOK, DataTyped, RecordedMigrationsRan

LEMMA AcquireTimesOutKeeps ==
    ASSUME IInv, NEW r \in DOMAIN job, AcquireTimesOut(r)
    PROVE  IInv'
  <1>1. "failAdoption" \in Stages \ Judged
    BY DEF Stages, Judged, Amid, AtStatement
  <1> QED BY <1>1, DataSame, StayTyped, FaultTyped, LeavingKeeps DEF AcquireTimesOut, IInv

LEMMA HasInterruptedReconciliationKeeps ==
    ASSUME IInv, NEW r \in DOMAIN job, HasInterruptedReconciliation(r)
    PROVE  IInv'
  <1>1. PICK left \in BOOLEAN :
           Reads(r, IF left THEN "registry" ELSE "look", [work[r] EXCEPT !.resumed = left])
    BY DEF HasInterruptedReconciliation
  <1>2. [work[r] EXCEPT !.resumed = left] \in Notes
    BY StayTyped DEF IInv, Notes
  <1>3. (IF left THEN "registry" ELSE "look") \in Stages \ Judged
    BY DEF Stages, Judged, Amid, AtStatement
  <1> QED BY <1>1, <1>2, <1>3, PlainReads

LEMMA LookForTablesKeeps ==
    ASSUME IInv, NEW r \in DOMAIN job, LookForTables(r)
    PROVE  IInv'
  <1> DEFINE there == {t \in DOMAIN Wanted(r) : tables[t] # None}
             what == [work[r] EXCEPT !.actual = there]
  <1>1. there \subseteq Tables
    BY JobTyped DEF IInv
  <1>2. what \in Notes
    BY <1>1, StayTyped DEF IInv, Notes
  <1>3. Reads(r, "refuse", what)
    BY DEF LookForTables
  <1>4. "refuse" \in Stages \ Judged
    BY DEF Stages, Judged, Amid, AtStatement
  <1> HIDE DEF what
  <1> QED BY <1>2, <1>3, <1>4, PlainReads

LEMMA RefuseImplicitAdoptionKeeps ==
    ASSUME IInv, NEW r \in DOMAIN job, RefuseImplicitAdoption(r)
    PROVE  IInv'
  <1>1. "registry" \in Stages \ Judged
    BY DEF Stages, Judged, Amid, AtStatement
  <1> QED BY <1>1, ThrowKeeps, StayTyped, PlainReads DEF RefuseImplicitAdoption, IInv

LEMMA UpgradesTyped ==
    ASSUME TypeOK, NEW r \in DOMAIN job
    PROVE  Upgrades(r) \subseteq Versions
  <1>1. ASSUME NEW n \in Nat PROVE Pending(r, n) \subseteq Versions
    <2>1. Version(r) \in 1..MaxVersion /\ MaxVersion \in Nat
      BY JobTyped, PostgresAssumption DEF Versions
    <2> QED BY <2>1 DEF Pending, Versions
  <1>2. registry[Resource(r)].version \in Nat
    BY JobTyped, PostgresAssumption DEF TypeOK
  <1>3. Adopts(r) => job[r].baseline \in Nat
    BY JobTyped, PostgresAssumption
  <1> QED BY <1>1, <1>2, <1>3 DEF Upgrades

LEMMA ReadRegistryKeeps ==
    ASSUME IInv, NEW r \in DOMAIN job, ReadRegistry(r)
    PROVE  IInv'
  <1> DEFINE what == [work[r] EXCEPT !.migrations = Upgrades(r)]
  <1>1. CASE Throw(r)
    BY <1>1, ThrowKeeps
  <1>2. CASE registry[Resource(r)].version <= Version(r) /\ Reads(r, "ownership", what)
    <2>1. what \in Notes /\ "ownership" \in Stages
      BY UpgradesTyped, StayTyped DEF IInv, Notes, Stages
    <2> HIDE DEF what
    <2>2. at'[r] = "ownership" /\ job' = job /\ registry' = registry
      BY <1>2, <2>1, MoveTyped DEF Reads, metadata, IInv
    <2>3. PlanAgrees(r)' /\ LockAgrees(r)'
      BY <1>2, <2>2 DEF PlanAgrees, LockAgrees, Amid, AtStatement, Resource, Version
    <2> QED BY <1>2, <2>1, <2>3, ReadsKeeps
  <1> QED BY <1>1, <1>2 DEF ReadRegistry

(* A run that goes on under the lock, to a stage where no statement is at  *)
(* hand.                                                                   *)
LEMMA OnwardReads ==
    ASSUME IInv, NEW r \in DOMAIN job, at[r] \in Judged, NEW where \in {"migrate", "finish"},
           Reads(r, where, work[r])
    PROVE  IInv'
  <1>1. at'[r] = where /\ job' = job /\ registry' = registry /\ where \in Stages /\ work[r] \in Notes
    BY MoveTyped, StayTyped DEF Reads, metadata, IInv, Stages
  <1>2. PlanAgrees(r)'
    BY <1>1 DEF PlanAgrees, Amid, AtStatement
  <1>3. Connected(r) => LockAgrees(r)'
    BY <1>1 DEF IInv, LockAgrees, Judged, Amid, AtStatement, Resource, Version
  <1> QED BY <1>1, <1>2, <1>3, ReadsKeeps

LEMMA AssertOwnershipKeeps ==
    ASSUME IInv, NEW r \in DOMAIN job, AssertOwnership(r)
    PROVE  IInv'
  BY ThrowKeeps, OnwardReads DEF AssertOwnership, Judged

LEMMA AssertAdoptionAvailableKeeps ==
    ASSUME IInv, NEW r \in DOMAIN job, AssertAdoptionAvailable(r)
    PROVE  IInv'
  <1>1. CASE Throw(r)
    BY <1>1, ThrowKeeps
  <1>2. CASE registry[Resource(r)].version = 0 /\ Reads(r, "record", work[r])
    <2>1. at'[r] = "record" /\ job' = job /\ registry' = registry /\ "record" \in Stages
          /\ work[r] \in Notes
      BY <1>2, MoveTyped, StayTyped DEF Reads, metadata, IInv, Stages
    <2>2. registry[Resource(r)].version <= Version(r)
      BY <1>2, JobTyped, PostgresAssumption DEF IInv, Versions
    <2>3. PlanAgrees(r)' /\ LockAgrees(r)'
      BY <2>1, <2>2 DEF PlanAgrees, LockAgrees, Amid, AtStatement, Resource, Version
    <2> QED BY <1>2, <2>1, <2>3, ReadsKeeps
  <1> QED BY <1>1, <1>2 DEF AssertAdoptionAvailable

LEMMA RecordAdoptionKeeps ==
    ASSUME IInv, NEW r \in DOMAIN job, RecordAdoption(r)
    PROVE  IInv'
  <1> DEFINE row == [status |-> "pending", baseline |-> job[r].baseline, target |-> Version(r)]
             what == [work[r] EXCEPT !.migrations = Upgrades(r)]
  <1>1. /\ at[r] = "record" /\ Connected(r) /\ Answered(r, "migrate", what)
        /\ adoption' = [adoption EXCEPT ![Resource(r)] = row]
        /\ UNCHANGED <<job, tables, owner, registry, journal, actions, completed, ran>>
    BY DEF RecordAdoption, marks
  <1>2. row \in AdoptionRows
    BY JobTyped DEF IInv, Adopts, AdoptionRows, Statuses, Versions
  <1>3. what \in Notes /\ "migrate" \in Stages
    BY UpgradesTyped, StayTyped DEF IInv, Notes, Stages
  <1> HIDE DEF row, what
  <1>4. DataTyped'
    BY <1>1, <1>2 DEF IInv, TypeOK, DataTyped
  <1>5. EffectsMarked' /\ RecordedMigrationsRan'
    BY <1>1 DEF IInv, EffectsMarked, RecordedMigrationsRan
  <1>6. at'[r] = "migrate" => PlanAgrees(r)' /\ LockAgrees(r)'
    BY <1>1 DEF IInv, PlanAgrees, LockAgrees, Judged, Amid, AtStatement, Resource, Version
  <1> QED BY <1>1, <1>3, <1>4, <1>5, <1>6, AnsweredKeeps

-----------------------------------------------------------------------------
(* The migrations.                                                         *)
LEMMA CurrentTyped ==
    ASSUME TypeOK, NEW r \in DOMAIN job, Migrating(r)
    PROVE  /\ Current(r) \in Versions /\ Current(r) \in work[r].migrations
           /\ MigrationTasks(Resource(r), Current(r)) \subseteq Tasks
           /\ \A y \in MigrationTasks(Resource(r), Current(r)) : y.operation # 0
  <1>1. work[r].migrations \subseteq Versions /\ Versions \subseteq Nat /\ work[r].migrations # {}
    BY StayTyped DEF Notes, Versions, Migrating
  <1>2. Current(r) \in work[r].migrations
    BY <1>1, LeastElement DEF Current
  <1> QED BY <1>1, <1>2, JobTyped, MigrationTyped

LEMMA JournalTyped ==
    ASSUME IInv, NEW r \in DOMAIN job, NEW status \in Statuses, Journal(r, status)
    PROVE  /\ DataTyped' /\ EffectsMarked' /\ UNCHANGED <<job, completed, registry, ran>>
           /\ \A res \in Resources, v \in Versions :
                 journal'[res][v] \in {journal[res][v], status}
           /\ status # "completed" => RecordedMigrationsRan'
  <1>1. /\ journal' = [journal EXCEPT ![Resource(r)][Current(r)] = status]
        /\ UNCHANGED <<job, tables, owner, registry, actions, completed, adoption, ran>>
    BY DEF Journal, marks
  <1>2. journal \in [Resources -> [Versions -> Statuses]]
    BY DEF IInv, TypeOK
  <1>3. /\ journal' \in [Resources -> [Versions -> Statuses]]
        /\ \A res \in Resources, v \in Versions : journal'[res][v] \in {journal[res][v], status}
    BY <1>1, <1>2
  <1>4. DataTyped' /\ EffectsMarked'
    BY <1>1, <1>3 DEF IInv, TypeOK, DataTyped, EffectsMarked
  <1>5. status # "completed" => RecordedMigrationsRan'
    BY <1>1, <1>3 DEF IInv, RecordedMigrationsRan
  <1> QED BY <1>1, <1>3, <1>4, <1>5

LEMMA BeginMigrationKeeps ==
    ASSUME IInv, NEW r \in DOMAIN job, BeginMigration(r)
    PROVE  IInv'
  <1> DEFINE todo == MigrationTasks(Resource(r), Current(r))
             what == [work[r] EXCEPT !.tasks = todo]
  <1>1. at[r] = "migrate" /\ Migrating(r) /\ Connected(r) /\ Journal(r, "pending")
        /\ Answered(r, "next", what)
    BY DEF BeginMigration
  <1>2. todo \subseteq Tasks
    BY <1>1, CurrentTyped DEF IInv
  <1>3. /\ what \in Notes /\ "next" \in Stages /\ "pending" \in Statuses
        /\ what.tasks = todo /\ what.migrations = work[r].migrations
    BY <1>2, StayTyped DEF IInv, Notes, Stages, Statuses
  <1> HIDE DEF what
  <1>4. /\ DataTyped' /\ EffectsMarked' /\ RecordedMigrationsRan'
        /\ UNCHANGED <<job, completed, registry, ran>>
    BY <1>1, <1>3, JournalTyped
  <1>5. ASSUME at'[r] = "next", work'[r] = what PROVE PlanAgrees(r)' /\ LockAgrees(r)'
    <2>1. /\ MigrationTasks(Resource(r), Current(r))' = todo /\ work'[r].tasks = todo
          /\ Resource(r)' = Resource(r) /\ Version(r)' = Version(r)
      BY <1>3, <1>4, <1>5 DEF Resource, Version, Current
    <2>2. registry[Resource(r)].version <= Version(r)
      BY <1>1 DEF IInv, LockAgrees, Judged
    <2> QED BY <1>4, <1>5, <2>1, <2>2 DEF PlanAgrees, LockAgrees, AtStatement
  <1> QED BY <1>1, <1>3, <1>4, <1>5, AnsweredKeeps

LEMMA CompleteMigrationKeeps ==
    ASSUME IInv, NEW r \in DOMAIN job, CompleteMigration(r)
    PROVE  IInv'
  <1> DEFINE what == [work[r] EXCEPT !.migrations = @ \ {Current(r)}]
  <1>1. /\ at[r] = "next" /\ work[r].tasks = {} /\ Migrating(r) /\ Connected(r)
        /\ Journal(r, "completed") /\ Answered(r, "migrate", what)
    BY DEF CompleteMigration
  <1>2. what \in Notes /\ "migrate" \in Stages /\ "completed" \in Statuses
    BY StayTyped DEF IInv, Notes, Stages, Statuses
  <1>3. LockAgrees(r) /\ Resource(r) \in Resources
    BY <1>1, JobTyped DEF IInv
  <1>4. DataTyped' /\ EffectsMarked' /\ UNCHANGED <<job, completed, registry, ran>>
    BY <1>1, <1>2, JournalTyped
  <1>5. RecordedMigrationsRan'
    <2>1. MigrationTasks(Resource(r), Current(r)) \subseteq completed[Resource(r)]
      BY <1>1, <1>3 DEF LockAgrees, Amid
    <2>2. /\ journal' = [journal EXCEPT ![Resource(r)][Current(r)] = "completed"]
          /\ journal \in [Resources -> [Versions -> Statuses]]
      BY <1>1 DEF Journal, IInv, TypeOK
    <2>3. ASSUME NEW res \in Resources, NEW v \in Versions, journal'[res][v] = "completed"
          PROVE  journal[res][v] = "completed" \/ (res = Resource(r) /\ v = Current(r))
      BY <2>2, <2>3
    <2> QED BY <1>4, <2>1, <2>3 DEF IInv, RecordedMigrationsRan
  <1>6. at'[r] = "migrate" => PlanAgrees(r)' /\ LockAgrees(r)'
    BY <1>1, <1>3, <1>4
      DEF PlanAgrees, LockAgrees, Judged, Amid, AtStatement, Resource, Version
  <1> HIDE DEF what
  <1> QED BY <1>1, <1>2, <1>4, <1>5, <1>6, AnsweredKeeps

-----------------------------------------------------------------------------
(* The statements of a migration or a plan.                                *)
LEMMA PlanReconciliationKeeps ==
    ASSUME IInv, NEW r \in DOMAIN job, PlanReconciliation(r)
    PROVE  IInv'
  <1> DEFINE todo == {Task(Version(r), 0, 0, st) : st \in Plan(r, tables)}
             what == [work[r] EXCEPT !.tasks = todo]
  <1>1. CASE Throw(r)
    BY <1>1, ThrowKeeps
  <1>2. CASE Reads(r, "next", what)
    <2>1. todo \subseteq Tasks
      BY PlanTyped, JobTyped DEF IInv, Task, Tasks
    <2>2. what \in Notes /\ "next" \in Stages /\ what.migrations = work[r].migrations
      BY <2>1, StayTyped DEF IInv, Notes, Stages
    <2> HIDE DEF what
    <2>3. at[r] = "migrate" /\ ~Migrating(r) /\ at'[r] = "next" /\ work'[r] = what
          /\ UNCHANGED <<job, registry>>
      BY <1>2, <2>2, MoveTyped DEF PlanReconciliation, Reads, metadata, IInv
    <2>4. ~Migrating(r)'
      BY <2>2, <2>3 DEF Migrating
    <2>5. PlanAgrees(r)' /\ (Connected(r) => LockAgrees(r)')
      BY <2>3, <2>4 DEF IInv, PlanAgrees, LockAgrees, Judged, AtStatement, Resource, Version
    <2> QED BY <1>2, <2>2, <2>5, ReadsKeeps
  <1> QED BY <1>1, <1>2 DEF PlanReconciliation

(* A run keeps what it is migrating when it only crosses off statements.   *)
LEMMA SameMigration ==
    ASSUME NEW r, UNCHANGED job, work'[r].migrations = work[r].migrations
    PROVE  /\ Resource(r)' = Resource(r) /\ Version(r)' = Version(r)
           /\ (Migrating(r)' <=> Migrating(r)) /\ Current(r)' = Current(r)
           /\ MigrationTasks(Resource(r), Current(r))' = MigrationTasks(Resource(r), Current(r))
  BY DEF Resource, Version, Migrating, Current

LEMMA CheckMarkKeeps ==
    ASSUME IInv, NEW r \in DOMAIN job, CheckMark(r)
    PROVE  IInv'
  <1>1. PICK y \in First(work[r].tasks) :
           IF y \in completed[Resource(r)]
           THEN Reads(r, "next", [work[r] EXCEPT !.tasks = @ \ {y}])
           ELSE Reads(r, "mark", [work[r] EXCEPT !.task = y])
    BY DEF CheckMark
  <1>2. at[r] = "next" /\ y \in work[r].tasks /\ work[r] \in Notes /\ y \in Tasks
    BY StayTyped DEF CheckMark, First, IInv, Notes
  <1>3. PlanAgrees(r) /\ (Connected(r) => LockAgrees(r))
    BY DEF IInv
  <1>4. CASE y \in completed[Resource(r)]
    <2> DEFINE what == [work[r] EXCEPT !.tasks = @ \ {y}]
    <2>1. /\ what \in Notes /\ "next" \in Stages /\ Reads(r, "next", what)
          /\ what.migrations = work[r].migrations /\ what.tasks = work[r].tasks \ {y}
      BY <1>1, <1>2, <1>4 DEF Notes, Stages
    <2> HIDE DEF what
    <2>2. at'[r] = "next" /\ work'[r] = what /\ UNCHANGED <<job, registry, completed>>
      BY <2>1, MoveTyped DEF Reads, metadata, marks, IInv
    <2>3. PlanAgrees(r)' /\ (Connected(r) => LockAgrees(r)')
      BY <1>2, <1>3, <1>4, <2>1, <2>2, SameMigration
        DEF PlanAgrees, LockAgrees, Judged, Amid, AtStatement
    <2> QED BY <2>1, <2>3, ReadsKeeps
  <1>5. CASE y \notin completed[Resource(r)]
    <2> DEFINE what == [work[r] EXCEPT !.task = y]
    <2>1. /\ what \in Notes /\ "mark" \in Stages /\ Reads(r, "mark", what) /\ what.task = y
          /\ what.migrations = work[r].migrations /\ what.tasks = work[r].tasks
      BY <1>1, <1>2, <1>5 DEF Notes, Stages
    <2> HIDE DEF what
    <2>2. at'[r] = "mark" /\ work'[r] = what /\ UNCHANGED <<job, registry, completed>>
      BY <2>1, MoveTyped DEF Reads, metadata, marks, IInv
    <2>3. PlanAgrees(r)' /\ (Connected(r) => LockAgrees(r)')
      BY <1>2, <1>3, <1>5, <2>1, <2>2, SameMigration
        DEF PlanAgrees, LockAgrees, Judged, Amid, AtStatement
    <2> QED BY <2>1, <2>3, ReadsKeeps
  <1> QED BY <1>4, <1>5

(* The statement a run is at, with its lock still held.                    *)
LEMMA AtHand ==
    ASSUME IInv, NEW r \in DOMAIN job, at[r] \in AtStatement
    PROVE  /\ work[r].task \in work[r].tasks /\ work[r].task \in Tasks
           /\ work[r].task.statement \in Statements
           /\ Migrating(r) => work[r].task.operation # 0
           /\ Connected(r) => work[r].task \notin completed[Resource(r)]
  <1>1. work[r].task \in work[r].tasks /\ work[r].tasks \subseteq Tasks
    BY StayTyped DEF IInv, PlanAgrees, Notes
  <1>2. Migrating(r) => work[r].task \in MigrationTasks(Resource(r), Current(r))
    BY <1>1 DEF IInv, PlanAgrees, Amid
  <1>3. Connected(r) => work[r].task \notin completed[Resource(r)]
    BY DEF IInv, LockAgrees
  <1> QED BY <1>1, <1>2, <1>3, CurrentTyped DEF IInv, Tasks

(* ... stays what it is when the run goes on to the next stage of it.      *)
LEMMA StillAtHand ==
    ASSUME IInv, NEW r \in DOMAIN job, at[r] \in AtStatement, at'[r] \in AtStatement,
           work'[r] = work[r], UNCHANGED <<job, completed, registry>>
    PROVE  PlanAgrees(r)' /\ (Connected(r) => LockAgrees(r)')
  <1>1. PlanAgrees(r) /\ (Connected(r) => LockAgrees(r))
    BY DEF IInv
  <1> QED BY <1>1, SameMigration DEF PlanAgrees, LockAgrees, Judged, Amid

LEMMA MarkPendingKeeps ==
    ASSUME IInv, NEW r \in DOMAIN job, MarkPending(r)
    PROVE  IInv'
  <1>1. /\ at[r] = "mark" /\ Connected(r) /\ Answered(r, "execute", work[r])
        /\ actions' = [actions EXCEPT ![Resource(r)] = @ \cup {work[r].task}]
        /\ completed' = [completed EXCEPT ![Resource(r)] = @ \ {work[r].task}]
        /\ UNCHANGED <<job, tables, owner, registry, journal, adoption, ran>>
    BY DEF MarkPending
  <1>2. work[r].task \in Tasks /\ work[r].task \notin completed[Resource(r)]
    BY <1>1, AtHand DEF AtStatement
  <1>3. completed' = completed
    BY <1>1, <1>2 DEF IInv, TypeOK
  <1>4. DataTyped' /\ EffectsMarked' /\ RecordedMigrationsRan'
    BY <1>1, <1>2, <1>3, JobTyped
      DEF IInv, TypeOK, DataTyped, EffectsMarked, RecordedMigrationsRan
  <1>5. at'[r] = "execute" /\ work'[r] = work[r] => PlanAgrees(r)' /\ LockAgrees(r)'
    BY <1>1, <1>3, StillAtHand DEF AtStatement
  <1>6. work[r] \in Notes /\ "execute" \in Stages
    BY StayTyped DEF IInv, Stages
  <1> QED BY <1>1, <1>3, <1>4, <1>5, <1>6, AnsweredKeeps

(* What a statement that PostgreSQL accepts makes of the tables.           *)
LEMMA AlteredTyped ==
    ASSUME TypeOK, NEW r \in DOMAIN job, NEW st \in Statements, Accepted(st)
    PROVE  Altered(r, st) \in [Tables -> {None} \cup Shaped]
  <1>1. tables \in [Tables -> {None} \cup Shaped] /\ None \notin Shaped
    BY PostgresAssumption DEF TypeOK
  <1>2. ASSUME NEW shape \in Shapes PROVE Becomes(st, shape) \in [Tables -> {None} \cup Shaped]
    BY <1>1 DEF Becomes, Shaped
  <1>3. {"absent", "unfinished", "present"} \subseteq Shapes
    BY DEF Shapes
  <1>4. st.type \in StatementTypes /\ WellFormed(st)
    BY DEF Statements, OfTypes
  <1>5. CASE st.type = "createTable"
    <2>1. [f \in Features |-> IF f \in Inline(Wanted(r)[st.table]) THEN "present" ELSE "absent"]
             \in Shaped
      BY <1>3 DEF Shaped
    <2> QED BY <1>1, <1>5, <2>1 DEF Altered
  <1>6. CASE st.type = "renameTable"
    <2>1. st.table \in Tables /\ st.to \in Tables
      BY <1>4, <1>6 DEF WellFormed
    <2> QED BY <1>1, <1>6, <2>1 DEF Altered
  <1>7. CASE st.type = "dropTable"
    BY <1>1, <1>7 DEF Altered
  <1>8. CASE st.type = "renameColumn"
    <2>1. st.table \in Tables /\ tables[st.table] \in Shaped /\ st.feature \in Features
      BY <1>1, <1>4, <1>8 DEF WellFormed, Accepted
    <2>2. [tables[st.table] EXCEPT ![st.to] = tables[st.table][st.feature], ![st.feature] = "absent"]
             \in Shaped
      BY <1>3, <2>1 DEF Shaped
    <2> QED BY <1>1, <1>8, <2>1, <2>2 DEF Altered, Shape
  <1>9. CASE st.type \in {"dropFeature", "dropIndex"}
    BY <1>2, <1>3, <1>9 DEF Altered
  <1>10. CASE st.type \in {"addFeature", "alterType", "validate", "buildIndex"}
    BY <1>2, <1>3, <1>10 DEF Altered
  <1>11. CASE st.type = "buildIndexIfMissing"
    BY <1>1, <1>2, <1>3, <1>11 DEF Altered
  <1>12. CASE st.type = "addNotValid"
    BY <1>2, <1>3, <1>12 DEF Altered
  <1>13. CASE st.type \in {"releaseTable", "sql", "alterDefault", "alterNull", "replace"}
    BY <1>1, <1>13 DEF Altered
  <1> QED BY <1>4, <1>5, <1>6, <1>7, <1>8, <1>9, <1>10, <1>11, <1>12, <1>13
         DEF StatementTypes, OperationTypes

LEMMA InterruptedTyped ==
    ASSUME TypeOK, NEW st
    PROVE  Interrupted(st) \in [Tables -> {None} \cup Shaped]
  <1>1. tables \in [Tables -> {None} \cup Shaped] /\ "unfinished" \in Shapes
    BY DEF TypeOK, Shapes
  <1>2. Becomes(st, "unfinished") \in [Tables -> {None} \cup Shaped]
    BY <1>1 DEF Becomes, Shaped
  <1> QED BY <1>1, <1>2 DEF Interrupted

LEMMA OwnedTyped ==
    ASSUME TypeOK, NEW r \in DOMAIN job, NEW st
    PROVE  Owned(r, st) \in [Tables -> Resources \cup {None}]
  BY JobTyped DEF TypeOK, Owned

(* The statement at hand is done and marked.                               *)
LEMMA DoneKeeps ==
    ASSUME IInv, NEW r \in DOMAIN job, at[r] \in AtStatement, Connected(r),
           Completes(r), Answered(r, "next", Done(r)), UNCHANGED <<job, registry, journal>>,
           tables' \in [Tables -> {None} \cup Shaped], owner' \in [Tables -> Resources \cup {None}],
           UNCHANGED <<actions, adoption>>,
           ran' \in {ran, [ran EXCEPT ![Resource(r)] = @ \cup {work[r].task}]},
           ran' = ran \/ Migrating(r)
    PROVE  IInv'
  <1> DEFINE y == work[r].task
             what == Done(r)
  <1>1. /\ y \in work[r].tasks /\ y \in Tasks /\ (Migrating(r) => y.operation # 0)
        /\ Resource(r) \in Resources
    BY AtHand, JobTyped DEF IInv
  <1>2. /\ completed' = [completed EXCEPT ![Resource(r)] = @ \cup {y}]
        /\ completed \in [Resources -> SUBSET Tasks] /\ ran \in [Resources -> SUBSET Tasks]
    BY DEF Completes, IInv, TypeOK
  <1>3. /\ what \in Notes /\ "next" \in Stages
        /\ what.migrations = work[r].migrations /\ what.tasks = work[r].tasks \ {y}
    BY StayTyped DEF IInv, Done, Notes, Stages
  <1> HIDE DEF y, what
  <1>4. /\ \A res \in Resources : completed[res] \subseteq completed'[res]
        /\ \A res \in Resources \ {Resource(r)} : completed'[res] = completed[res]
        /\ completed'[Resource(r)] = completed[Resource(r)] \cup {y}
        /\ completed' \in [Resources -> SUBSET Tasks]
    BY <1>1, <1>2
  <1>5. ran' \in [Resources -> SUBSET Tasks]
    BY <1>1, <1>2 DEF y
  <1>6. DataTyped'
    BY <1>4, <1>5 DEF IInv, TypeOK, DataTyped
  <1>7. EffectsMarked'
    <2>1. CASE ran' = ran
      BY <1>4, <2>1 DEF IInv, EffectsMarked
    <2>2. CASE ran' = [ran EXCEPT ![Resource(r)] = @ \cup {y}] /\ Migrating(r)
      BY <1>1, <1>2, <1>4, <2>2 DEF IInv, EffectsMarked
    <2> QED BY <2>1, <2>2 DEF y
  <1>8. RecordedMigrationsRan'
    BY <1>4 DEF IInv, RecordedMigrationsRan
  <1>9. ASSUME at'[r] = "next", work'[r] = what PROVE PlanAgrees(r)' /\ LockAgrees(r)'
    <2>1. PlanAgrees(r) /\ LockAgrees(r) /\ at[r] \in Amid /\ at[r] \in Judged
      BY DEF IInv, Amid, Judged
    <2>2. work'[r].migrations = work[r].migrations /\ work'[r].tasks = work[r].tasks \ {y}
      BY <1>3, <1>9
    <2> QED BY <1>4, <1>9, <2>1, <2>2, SameMigration
           DEF PlanAgrees, LockAgrees, Judged, Amid, AtStatement
  <1> QED BY <1>3, <1>4, <1>6, <1>7, <1>8, <1>9, AnsweredKeeps DEF what

LEMMA ExecuteInTransactionKeeps ==
    ASSUME IInv, NEW r \in DOMAIN job, ExecuteInTransaction(r)
    PROVE  IInv'
  <1> DEFINE st == work[r].task.statement
  <1>1. at[r] = "execute" /\ Connected(r) /\ st \in Statements
    BY AtHand DEF ExecuteInTransaction, AtStatement
  <1>2. CASE Throw(r)
    BY <1>2, ThrowKeeps
  <1>3. CASE /\ Accepted(st) /\ tables' = Altered(r, st) /\ owner' = Owned(r, st)
             /\ ran' = IF Migrating(r) THEN [ran EXCEPT ![Resource(r)] = @ \cup {work[r].task}] ELSE ran
             /\ Completes(r) /\ Answered(r, "next", Done(r))
             /\ UNCHANGED <<job, registry, journal, actions, adoption>>
    BY <1>1, <1>3, AlteredTyped, OwnedTyped, DoneKeeps DEF IInv, AtStatement
  <1> QED BY <1>2, <1>3 DEF ExecuteInTransaction

LEMMA MarkCompletedKeeps ==
    ASSUME IInv, NEW r \in DOMAIN job, MarkCompleted(r)
    PROVE  IInv'
  BY DoneKeeps DEF MarkCompleted, IInv, TypeOK, AtStatement

LEMMA ExecuteConcurrentlyKeeps ==
    ASSUME IInv, NEW r \in DOMAIN job, ExecuteConcurrently(r)
    PROVE  IInv'
  <1> DEFINE st == work[r].task.statement
  <1>1. at[r] = "execute" /\ Connected(r) /\ st \in Statements /\ work[r] \in Notes
    BY AtHand, StayTyped DEF ExecuteConcurrently, AtStatement, IInv
  <1>2. CASE Throw(r)
    BY <1>2, ThrowKeeps
  <1>3. ASSUME UNCHANGED <<job, metadata, ran>>, tables' \in [Tables -> {None} \cup Shaped]
        PROVE  /\ UNCHANGED <<job, completed, registry, journal>>
               /\ DataTyped' /\ EffectsMarked' /\ RecordedMigrationsRan'
    BY <1>3 DEF metadata, marks, IInv, TypeOK, DataTyped, EffectsMarked, RecordedMigrationsRan
  <1>4. CASE /\ Accepted(st) /\ tables' = Altered(r, st) /\ Answered(r, "settle", work[r])
             /\ UNCHANGED <<job, metadata, ran>>
    <2>1. tables' \in [Tables -> {None} \cup Shaped]
      BY <1>1, <1>4, AlteredTyped DEF IInv
    <2>2. at'[r] = "settle" /\ work'[r] = work[r] => PlanAgrees(r)' /\ LockAgrees(r)'
      BY <1>1, <1>3, <1>4, <2>1, StillAtHand DEF AtStatement
    <2>3. "settle" \in Stages
      BY DEF Stages
    <2> QED BY <1>1, <1>3, <1>4, <2>1, <2>2, <2>3, AnsweredKeeps
  <1>5. CASE /\ tables' = Interrupted(st) /\ Goto(r, "failStatement") /\ Fault
             /\ holder' \in {holder, Freed(r)} /\ UNCHANGED <<job, metadata, work, ran>>
    <2>1. tables' \in [Tables -> {None} \cup Shaped]
      BY <1>5, InterruptedTyped DEF IInv
    <2>2. "failStatement" \in Stages /\ Note(r, work[r])
      BY <1>5, StayTyped DEF Stages, IInv
    <2>3. /\ at' \in [Runs -> Stages] /\ work' \in [Runs -> Notes]
          /\ at'[r] = "failStatement" /\ work'[r] = work[r]
          /\ \A u \in DOMAIN job \ {r} : at'[u] = at[u] /\ work'[u] = work[u]
      BY <1>1, <1>5, <2>2, MoveTyped DEF IInv
    <2>4. TypeOK'
      BY <1>3, <1>5, <2>1, <2>3, FreedTyped, FaultTyped DEF IInv, TypeOK, DataTyped
    <2>5. Apart(r)
      BY <1>3, <1>5, <2>1, <2>3, FreedTyped DEF Apart, IInv
    <2>6. PlanAgrees(r)' /\ LockAgrees(r)'
      BY <1>1, <1>3, <1>5, <2>1, <2>3, StillAtHand DEF AtStatement
    <2> QED BY <1>3, <1>5, <2>1, <2>4, <2>5, <2>6, StepKeeps
  <1> QED BY <1>2, <1>4, <1>5 DEF ExecuteConcurrently

-----------------------------------------------------------------------------
(* The end of a call, well or badly.                                       *)
LEMMA FailStatementKeeps ==
    ASSUME IInv, NEW r \in DOMAIN job, FailStatement(r)
    PROVE  IInv'
  <1>1. /\ at[r] = "failStatement" /\ Goto(r, Upwards(r))
        /\ UNCHANGED <<job, tables, owner, registry, journal, actions, adoption, holder, work, ran>>
    BY DEF FailStatement
  <1>2. completed' = completed
    <2>1. CASE Connected(r) /\ completed' = [completed EXCEPT ![Resource(r)] = @ \ {work[r].task}]
      <3>1. work[r].task \notin completed[Resource(r)]
        BY <1>1, <2>1, AtHand DEF AtStatement
      <3> QED BY <2>1, <3>1 DEF IInv, TypeOK
    <2> QED BY <2>1 DEF FailStatement
  <1>3. faults' \in 0..MaxFaults
    BY FaultTyped DEF FailStatement, IInv, TypeOK
  <1>4. DataTyped' /\ RecordedMigrationsRan'
    BY <1>1, <1>2 DEF IInv, TypeOK, DataTyped, RecordedMigrationsRan
  <1> QED BY <1>1, <1>2, <1>3, <1>4, StayTyped, CaughtWhere, LeavingKeeps DEF IInv

LEMMA FailMigrationKeeps ==
    ASSUME IInv, NEW r \in DOMAIN job, FailMigration(r)
    PROVE  IInv'
  <1>1. Goto(r, Outwards(r)) /\ UNCHANGED <<holder, work>> /\ faults' \in 0..MaxFaults
    BY FaultTyped DEF FailMigration, IInv, TypeOK
  <1>2. DataTyped' /\ RecordedMigrationsRan' /\ UNCHANGED <<job, completed, registry, ran>>
    <2>1. CASE Journal(r, "failed")
      BY <2>1, JournalTyped DEF Statuses
    <2>2. CASE UNCHANGED <<job, tables, metadata, ran>>
      BY <2>2, DataSame
    <2> QED BY <2>1, <2>2 DEF FailMigration
  <1> QED BY <1>1, <1>2, StayTyped, CaughtWhere, LeavingKeeps DEF IInv

LEMMA VerifyKeeps ==
    ASSUME IInv, NEW r \in DOMAIN job, Verify(r)
    PROVE  IInv'
  BY ThrowKeeps, OnwardReads DEF Verify, Judged, Amid

LEMMA FinishSchemaKeeps ==
    ASSUME IInv, NEW r \in DOMAIN job, FinishSchema(r)
    PROVE  IInv'
  <1>1. CASE Throw(r)
    BY <1>1, ThrowKeeps
  <1>2. CASE ~Throw(r)
    <2> DEFINE where == IF Adopts(r) THEN "complete" ELSE "unlock"
    <2>1. /\ Connected(r) /\ Answered(r, where, work[r])
          /\ owner' = [t \in Tables |-> IF t \in DOMAIN Wanted(r) THEN Resource(r) ELSE owner[t]]
          /\ registry' = [registry EXCEPT ![Resource(r)] = Registered(r)]
          /\ actions' = [actions EXCEPT ![Resource(r)] = {y \in @ : y.operation # 0}]
          /\ completed' = [completed EXCEPT ![Resource(r)] = {y \in @ : y.operation # 0}]
          /\ UNCHANGED <<job, tables, journal, adoption, ran>>
      BY <1>2 DEF FinishSchema
    <2>2. where \in Stages \ Judged /\ work[r] \in Notes
      BY StayTyped DEF Stages, Judged, Amid, AtStatement, IInv
    <2> HIDE DEF where
    <2>3. /\ registry \in [Resources -> [version : 0..MaxVersion, tables : SUBSET Tables]]
          /\ completed \in [Resources -> SUBSET Tasks] /\ actions \in [Resources -> SUBSET Tasks]
          /\ Resource(r) \in Resources
      BY JobTyped DEF IInv, TypeOK
    <2>4. Registered(r) \in [version : 0..MaxVersion, tables : SUBSET Tables]
      BY JobTyped DEF IInv, Registered, Versions
    <2>5. /\ completed' \in [Resources -> SUBSET Tasks] /\ actions' \in [Resources -> SUBSET Tasks]
          /\ registry' \in [Resources -> [version : 0..MaxVersion, tables : SUBSET Tables]]
          /\ \A res \in Resources \ {Resource(r)} :
                completed'[res] = completed[res] /\ registry'[res] = registry[res]
          /\ \A res \in Resources, y \in Tasks :
                y \in completed[res] /\ y.operation # 0 => y \in completed'[res]
      BY <2>1, <2>3, <2>4
    <2>6. DataTyped'
      BY <2>1, <2>3, <2>5 DEF IInv, TypeOK, DataTyped
    <2>7. EffectsMarked'
      BY <2>1, <2>3, <2>5 DEF IInv, TypeOK, EffectsMarked
    <2>8. RecordedMigrationsRan'
      BY <2>1, <2>5, MigrationTyped DEF IInv, RecordedMigrationsRan
    <2>9. at'[r] = where => PlanAgrees(r)' /\ LockAgrees(r)'
      BY <2>2 DEF PlanAgrees, LockAgrees, Judged, Amid
    <2> QED BY <2>1, <2>2, <2>5, <2>6, <2>7, <2>8, <2>9, AnsweredKeeps
  <1> QED BY <1>1, <1>2

LEMMA AdoptionStatusTyped ==
    ASSUME IInv, NEW r \in DOMAIN job, NEW status \in Statuses, AdoptionStatus(r, status)
    PROVE  DataTyped' /\ RecordedMigrationsRan' /\ UNCHANGED <<job, completed, registry, journal, ran>>
  <1>1. adoption' = [adoption EXCEPT ![Resource(r)].status = status]
        /\ UNCHANGED <<job, tables, owner, registry, journal, actions, completed, ran>>
    BY DEF AdoptionStatus, marks
  <1>2. adoption' \in [Resources -> AdoptionRows]
    BY <1>1, JobTyped DEF IInv, TypeOK, AdoptionRows
  <1> QED BY <1>1, <1>2 DEF IInv, TypeOK, DataTyped, RecordedMigrationsRan

LEMMA CompleteAdoptionKeeps ==
    ASSUME IInv, NEW r \in DOMAIN job, CompleteAdoption(r)
    PROVE  IInv'
  <1>1. "unlock" \in Stages \ Judged /\ "completed" \in Statuses
    BY DEF Stages, Judged, Amid, AtStatement, Statuses
  <1> QED BY <1>1, AdoptionStatusTyped, StayTyped, PlainAnswered DEF CompleteAdoption, IInv

LEMMA FailAdoptionKeeps ==
    ASSUME IInv, NEW r \in DOMAIN job, FailAdoption(r)
    PROVE  IInv'
  <1>1. Goto(r, "unlock") /\ UNCHANGED <<holder, work>> /\ faults' \in 0..MaxFaults
    BY FaultTyped DEF FailAdoption, IInv, TypeOK
  <1>2. DataTyped' /\ RecordedMigrationsRan' /\ UNCHANGED <<job, completed, registry, ran>>
    <2>1. CASE AdoptionStatus(r, "failed")
      BY <2>1, AdoptionStatusTyped DEF Statuses
    <2>2. CASE UNCHANGED <<job, tables, metadata, ran>>
      BY <2>2, DataSame
    <2> QED BY <2>1, <2>2 DEF FailAdoption
  <1>3. "unlock" \in Stages \ Judged
    BY DEF Stages, Judged, Amid, AtStatement
  <1> QED BY <1>1, <1>2, <1>3, StayTyped, LeavingKeeps DEF IInv

LEMMA GoneKeeps ==
    ASSUME IInv, NEW r \in DOMAIN job, ReleaseLock(r) \/ Crash(r)
    PROVE  IInv'
  <1>1. /\ Goto(r, "idle") /\ Note(r, Blank) /\ holder' = Freed(r) /\ faults' \in 0..MaxFaults
        /\ UNCHANGED <<job, tables, metadata, ran>>
    BY FaultTyped DEF ReleaseLock, Crash, IInv, TypeOK
  <1>2. "idle" \in Stages \ Judged /\ Blank \in Notes
    BY DEF Stages, Judged, Amid, AtStatement, Blank, Notes
  <1> QED BY <1>1, <1>2, DataSame, LeavingKeeps

LEMMA LoseSessionKeeps ==
    ASSUME IInv, NEW r \in DOMAIN job, LoseSession(r)
    PROVE  IInv'
  <1>1. /\ holder' = Freed(r) /\ Fault
        /\ UNCHANGED <<job, tables, metadata, completed, registry, journal, at, work, ran>>
    BY DEF LoseSession, metadata, marks
  <1>2. TypeOK'
    BY <1>1, FreedTyped, FaultTyped DEF IInv, TypeOK, metadata, marks
  <1>3. Apart(r) /\ EffectsMarked' /\ RecordedMigrationsRan'
    BY <1>1, FreedTyped DEF Apart, IInv, EffectsMarked, RecordedMigrationsRan
  <1>4. PlanAgrees(r)' /\ ~Connected(r)'
    BY <1>1, FreedTyped, SameMigration DEF IInv, PlanAgrees, Connected
  <1> QED BY <1>2, <1>3, <1>4, StepKeeps

LEMMA InitInvariant == Init => IInv
  <1> SUFFICES ASSUME Init PROVE IInv
    OBVIOUS
  <1>1. Blank \in Notes /\ Unadopted \in AdoptionRows /\ 0 \in 0..MaxFaults
    BY PostgresAssumption DEF Blank, Notes, Unadopted, AdoptionRows, Statuses
  <1>2. tables \in [Tables -> {None} \cup Shaped]
    BY PostgresAssumption DEF Init
  <1>3. [version |-> 0, tables |-> {}] \in [version : 0..MaxVersion, tables : SUBSET Tables]
    BY PostgresAssumption
  <1>4. TypeOK
    BY <1>1, <1>2, <1>3 DEF Init, TypeOK, Nothing, Statuses, Stages
  <1>5. EffectsMarked /\ RecordedMigrationsRan
    BY DEF Init, EffectsMarked, RecordedMigrationsRan
  <1>6. \A r \in DOMAIN job : at[r] = "idle"
    BY <1>4, JobTyped DEF Init
  <1>7. \A r \in DOMAIN job : PlanAgrees(r) /\ LockAgrees(r)
    BY <1>6 DEF PlanAgrees, LockAgrees, Judged, Amid, AtStatement
  <1> QED BY <1>4, <1>5, <1>7 DEF IInv

LEMMA StutterKeeps ==
    ASSUME IInv, UNCHANGED vars
    PROVE  IInv'
  <1>1. UNCHANGED <<job, tables, owner, registry, journal, actions, completed, adoption,
                    holder, at, work, ran, faults>>
    BY DEF vars, metadata, marks
  <1>2. TypeOK' /\ EffectsMarked' /\ RecordedMigrationsRan'
    BY <1>1 DEF IInv, TypeOK, EffectsMarked, RecordedMigrationsRan
  <1>3. ASSUME NEW r \in DOMAIN job PROVE PlanAgrees(r)' /\ (Connected(r)' => LockAgrees(r)')
    BY <1>1, SameMigration DEF IInv, PlanAgrees, LockAgrees, Connected
  <1> QED BY <1>1, <1>2, <1>3 DEF IInv

LEMMA NextInvariant == IInv /\ [Next]_vars => IInv'
  <1> SUFFICES ASSUME IInv, [Next]_vars PROVE IInv'
    OBVIOUS
  <1>1. ASSUME NEW r \in DOMAIN job, Step(r) PROVE IInv'
    BY <1>1, HasInterruptedReconciliationKeeps, LookForTablesKeeps, RefuseImplicitAdoptionKeeps,
       ReadRegistryKeeps, AssertOwnershipKeeps, AssertAdoptionAvailableKeeps, RecordAdoptionKeeps,
       BeginMigrationKeeps, PlanReconciliationKeeps, CheckMarkKeeps, MarkPendingKeeps,
       ExecuteInTransactionKeeps, ExecuteConcurrentlyKeeps, MarkCompletedKeeps,
       CompleteMigrationKeeps, FailStatementKeeps, FailMigrationKeeps, VerifyKeeps,
       FinishSchemaKeeps, CompleteAdoptionKeeps, FailAdoptionKeeps, ThrowKeeps, GoneKeeps
       DEF Step, SessionGone
  <1>2. ASSUME NEW r \in DOMAIN job, Refused(r) PROVE IInv'
    BY <1>2, CaughtKeeps, FaultTyped DEF Refused, IInv
  <1> QED BY <1>1, <1>2, AcquireLockKeeps, AcquireTimesOutKeeps, LoseSessionKeeps, GoneKeeps,
             StutterKeeps DEF Next

(* The inductive invariant always holds: the marks of a migration agree    *)
(* with what took effect and with what each run has read.                  *)
THEOREM Inductive == Spec => []IInv
  BY InitInvariant, NextInvariant, PTL DEF Spec

(* Every variable keeps its type.                                          *)
THEOREM TypeCorrect == Spec => []TypeOK
  <1>1. IInv => TypeOK
    BY DEF IInv
  <1> QED BY <1>1, Inductive, PTL

(* A migration that schema_migrations calls completed ran whole.           *)
THEOREM RecordedRan == Spec => []RecordedMigrationsRan
  <1>1. IInv => RecordedMigrationsRan
    BY DEF IInv
  <1> QED BY <1>1, Inductive, PTL

(* No run that holds its lock is about to repeat a transactional statement *)
(* of a migration (executeStatement(), manager.ts:1061-1136): what took    *)
(* effect is marked, and what is at hand is not.                           *)
THEOREM StatementsRunOnce == Spec => []StatementsOnce
  <1>1. IInv => StatementsOnce
    <2> SUFFICES ASSUME IInv, NEW r \in DOMAIN job, at[r] \in {"mark", "execute"}, Connected(r)
                 PROVE  work[r].task \notin ran[Resource(r)]
      BY DEF StatementsOnce
    <2>1. work[r].task \notin completed[Resource(r)]
      BY AtHand DEF AtStatement
    <2> QED BY <2>1, JobTyped DEF IInv, EffectsMarked
  <1> QED BY <1>1, Inductive, PTL

-----------------------------------------------------------------------------
(* Only two steps write a row of another run's concern.                    *)
LEMMA Writers ==
    ASSUME [Next]_vars
    PROVE  \/ UNCHANGED <<owner, registry>>
           \/ \E r \in DOMAIN job : ExecuteInTransaction(r) /\ registry' = registry
           \/ \E r \in DOMAIN job : FinishSchema(r)
  <1>1. ASSUME NEW r \in DOMAIN job, Step(r), ~ExecuteInTransaction(r), ~FinishSchema(r)
        PROVE  UNCHANGED <<owner, registry>>
    BY <1>1
      DEF Step, HasInterruptedReconciliation, LookForTables, RefuseImplicitAdoption, ReadRegistry,
          AssertOwnership, AssertAdoptionAvailable, RecordAdoption, BeginMigration,
          PlanReconciliation, CheckMark, MarkPending, ExecuteConcurrently, MarkCompleted,
          CompleteMigration, FailStatement, FailMigration, Verify, CompleteAdoption, FailAdoption,
          SessionGone, ReleaseLock, Journal, AdoptionStatus, Throw, Reads, metadata
  <1>2. ASSUME NEW r \in DOMAIN job, ExecuteInTransaction(r) PROVE registry' = registry
    BY <1>2 DEF ExecuteInTransaction, Throw, metadata
  <1>3. ASSUME NEW r \in DOMAIN job,
               AcquireLock(r) \/ AcquireTimesOut(r) \/ Refused(r) \/ LoseSession(r) \/ Crash(r)
        PROVE  UNCHANGED <<owner, registry>>
    BY <1>3 DEF AcquireLock, AcquireTimesOut, Refused, LoseSession, Crash, metadata
  <1>4. CASE UNCHANGED vars
    BY <1>4 DEF vars, metadata
  <1> QED BY <1>1, <1>2, <1>3, <1>4 DEF Next

LEMMA NextForward ==
    ASSUME IInv, [Next]_vars
    PROVE  \A res \in Resources : registry'[res].version >= registry[res].version
  <1>1. registry \in [Resources -> [version : 0..MaxVersion, tables : SUBSET Tables]]
        /\ MaxVersion \in Nat
    BY PostgresAssumption DEF IInv, TypeOK
  <1>2. CASE registry' = registry
    BY <1>1, <1>2
  <1>3. ASSUME NEW r \in DOMAIN job, FinishSchema(r), registry' # registry
        PROVE  \A res \in Resources : registry'[res].version >= registry[res].version
    <2>1. /\ at[r] = "finish" /\ Connected(r)
          /\ registry' = [registry EXCEPT ![Resource(r)] = Registered(r)]
      BY <1>3 DEF FinishSchema, Throw, metadata
    <2>2. registry[Resource(r)].version <= Version(r) /\ Registered(r).version = Version(r)
      BY <2>1 DEF IInv, LockAgrees, Judged, Registered
    <2>3. Resource(r) \in Resources /\ Version(r) \in 1..MaxVersion
      BY JobTyped DEF IInv, Versions
    <2> QED BY <1>1, <2>1, <2>2, <2>3
  <1> QED BY <1>2, <1>3, Writers

(* The registered version of a resource never goes down, whatever versions *)
(* the servers carry and whichever sessions are lost: ensure() compares    *)
(* the row with the declaration and writes it much later, through the      *)
(* session that holds the lock (finishSchema(), manager.ts:1149-1210).     *)
THEOREM VersionsOnlyRise == Spec => VersionsMoveForward
  <1>1. IInv /\ [Next]_vars =>
           [\A res \in Resources : registry'[res].version >= registry[res].version]_vars
    BY NextForward
  <1> QED BY <1>1, Inductive, PTL DEF Spec, VersionsMoveForward

(* A step that an answer is awaited from moves the run.                    *)
LEMMA AnsweredMoves ==
    ASSUME TypeOK, NEW r \in DOMAIN job, NEW where, NEW what, Answered(r, where, what),
           where # at[r], Caught(r) # at[r]
    PROVE  Moves(r)
  <1>1. at \in [Runs -> Stages] /\ r \in Runs
    BY JobTyped DEF TypeOK
  <1>2. at'[r] # at[r]
    BY <1>1 DEF Answered, Goto
  <1> QED BY <1>2 DEF Moves

LEMMA NextKeepsOwners ==
    ASSUME IInv, [Next]_vars
    PROVE  \A t \in Tables :
              owner[t] # None /\ owner'[t] # owner[t] =>
                 \E r \in DOMAIN job : Resource(r) = owner[t] /\ Connected(r) /\ Moves(r)
  <1> SUFFICES ASSUME NEW t \in Tables, owner[t] # None, owner'[t] # owner[t]
               PROVE  \E r \in DOMAIN job : Resource(r) = owner[t] /\ Connected(r) /\ Moves(r)
    OBVIOUS
  <1>1. owner \in [Tables -> Resources \cup {None}]
    BY DEF IInv, TypeOK
  <1>2. ASSUME NEW r \in DOMAIN job, FinishSchema(r) PROVE FALSE
    <2>1. /\ Claimable(r)
          /\ owner' = [n \in Tables |-> IF n \in DOMAIN Wanted(r) THEN Resource(r) ELSE owner[n]]
      BY <1>2 DEF FinishSchema, Throw, metadata
    <2> QED BY <2>1 DEF Claimable
  <1>3. ASSUME NEW r \in DOMAIN job, ExecuteInTransaction(r)
        PROVE  Resource(r) = owner[t] /\ Connected(r) /\ Moves(r)
    <2> DEFINE st == work[r].task.statement
    <2>1. /\ at[r] = "execute" /\ Connected(r) /\ ~OwnerRefused(r, st)
          /\ owner' = Owned(r, st) /\ Answered(r, "next", Done(r))
      BY <1>3 DEF ExecuteInTransaction, Throw, metadata
    <2>2. Resource(r) = owner[t]
      BY <1>1, <2>1 DEF Owned, OwnerRefused
    <2>3. Caught(r) # "execute"
      BY <2>1 DEF Caught
    <2> QED BY <2>1, <2>2, <2>3, AnsweredMoves DEF IInv
  <1> QED BY <1>2, <1>3, Writers

(* A resource loses a table by a statement of its own only, whatever calls *)
(* of other resources race for it (executeStatement() and finishSchema(),  *)
(* manager.ts:1085-1126 and 1160-1184).                                    *)
THEOREM OwnershipIsSafe == Spec => OwnersKeepTheirTables
  <1>1. IInv /\ [Next]_vars =>
           [\A t \in Tables :
              owner[t] # None /\ owner'[t] # owner[t] =>
                 \E r \in DOMAIN job : Resource(r) = owner[t] /\ Connected(r) /\ Moves(r)]_vars
    BY NextKeepsOwners
  <1> QED BY <1>1, Inductive, PTL DEF Spec, OwnersKeepTheirTables

=============================================================================
