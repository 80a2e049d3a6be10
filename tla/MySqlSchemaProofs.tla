------------------------- MODULE MySqlSchemaProofs -------------------------
(***************************************************************************)
(* Theorems about ensure() and adopt(), for any resources, declarations,   *)
(* migrations and servers, and any number of crashes, refused statements,  *)
(* lost answers and lost lock sessions.                                    *)
(***************************************************************************)
EXTENDS MySqlSchema, FiniteSetTheorems, WellFoundedInduction, TLAPS

(* A set of numbers that is not empty has a least element.                 *)
LEMMA HasMin ==
    ASSUME NEW S \in SUBSET Nat, S # {}
    PROVE  Min(S) \in S
  <1> DEFINE Upto == {0..s : s \in S}
  <1>1. PICK x \in Upto : \A y \in Upto : ~ (<<y, x>> \in StrictSubsetOrdering(Nat))
    <2>1. \A s \in S : IsFiniteSet(0..s)
      BY FS_Interval
    <2>2. Upto \subseteq FiniteSubsetsOf(Nat)
      BY <2>1 DEF FiniteSubsetsOf
    <2>3. Upto # {}
      OBVIOUS
    <2> HIDE DEF Upto
    <2> QED BY <2>2, <2>3, WFMin, FS_StrictSubsetOrderingWellFounded
  <1>2. PICK s \in S : x = 0..s
    BY <1>1
  <1>3. ASSUME NEW t \in S PROVE s <= t
    <2>1. SUFFICES ASSUME t < s PROVE FALSE
      OBVIOUS
    <2>2. 0..t \subseteq 0..s /\ s \in 0..s /\ s \notin 0..t
      BY <2>1
    <2>3. 0..t \in Upto /\ 0..t # 0..s
      BY <2>2
    <2>4. <<0..t, 0..s>> \in StrictSubsetOrdering(Nat)
      BY <2>2, <2>3 DEF StrictSubsetOrdering
    <2> QED BY <1>1, <1>2, <2>3, <2>4
  <1> QED BY <1>3 DEF Min

(* What the declarations of a run are made of.                             *)
LEMMA JobTyped ==
    ASSUME NEW r \in Runs
    PROVE  /\ Resource(r) \in Resources /\ Job[r].version \in Versions
           /\ Adopts(r) => Job[r].baseline \in Nat
           /\ DOMAIN Wanted(r) \subseteq Tables
           /\ \A t \in DOMAIN Wanted(r) : Wanted(r)[t] \subseteq Features
  BY SchemaAssumption DEF Resource, Wanted, Adopts, Versions

LEMMA CurrentTyped ==
    ASSUME TypeOK, NEW r \in Runs, work[r].migrations # {}
    PROVE  /\ Current(r) \in work[r].migrations /\ Current(r) \in Versions
           /\ Migration[Resource(r)][Current(r)] \in Seq(Operations)
  <1>1. work[r].migrations \in SUBSET Versions /\ Versions \subseteq Nat
    BY DEF TypeOK, Notes, Versions
  <1>2. Current(r) \in work[r].migrations
    BY <1>1, HasMin DEF Current
  <1> QED BY <1>1, <1>2, JobTyped, SchemaAssumption

(* The fields of an operation, by its type.                                *)
LEMMA OperationTyped ==
    ASSUME NEW op \in Operations
    PROVE  /\ op.type = "renameTable" => op.from \in Tables /\ op.to \in Tables
           /\ op.type \in {"dropTable", "releaseTable"} => op.table \in Tables
           /\ op.type \in {"addFeature", "dropFeature", "addForeignKey"} =>
                 op.table \in Tables /\ op.feature \in Features
           /\ op.type = "renameColumn" =>
                 op.table \in Tables /\ op.from \in Features /\ op.to \in Features
           /\ op.type \in {"renameTable", "dropTable", "releaseTable", "addFeature",
                           "dropFeature", "addForeignKey", "renameColumn", "sql"}
  BY DEF Operations

LEMMA HeadTyped ==
    ASSUME TypeOK, NEW r \in Runs, work[r].operations # <<>>
    PROVE  /\ Operation(r) \in Operations
           /\ Operation(r) \in Range(work[r].operations)
           /\ Tail(work[r].operations) \in Seq(Operations)
           /\ Len(Tail(work[r].operations)) = Len(work[r].operations) - 1
           /\ Range(Tail(work[r].operations)) \subseteq Range(work[r].operations)
           /\ Len(work[r].operations) >= 1
  BY DEF TypeOK, Notes, Operation, Range

-----------------------------------------------------------------------------
(* A step of r that leaves alone what the other runs rely on.              *)
Apart(r) ==
    /\ \A u \in Runs \ {r} : at'[u] = at[u] /\ work'[u] = work[u]
    /\ holder' \in {holder, None, r}
    /\ holder # r => /\ ran' = ran
                     /\ \A t \in Tables : tables[t] # None => tables'[t] # None
    /\ \A res \in Resources, v \in Versions :
          journal[res][v] # "none" => journal'[res][v] # "none"

LEMMA OthersStage ==
    ASSUME IInv, NEW r \in Runs, Apart(r), NEW u \in Runs \ {r}
    PROVE  StageAgrees(u)'
  <1>1. StageAgrees(u) /\ at'[u] = at[u] /\ work'[u] = work[u]
    BY DEF IInv, Apart
  <1>2. Current(u)' = Current(u) /\ (Resumable(u)' <=> Resumable(u))
    BY <1>1 DEF Current, Resumable
  <1>3. ASSUME at[u] \in Amid PROVE journal'[Resource(u)][Current(u)] # "none"
    <2>1. Resource(u) \in Resources /\ Current(u) \in Versions
      BY <1>1, <1>3, JobTyped, CurrentTyped DEF IInv, StageAgrees
    <2> QED BY <1>1, <1>3, <2>1 DEF StageAgrees, Apart
  <1> QED BY <1>1, <1>2, <1>3 DEF StageAgrees, Blank

LEMMA OthersHolder ==
    ASSUME IInv, NEW r \in Runs, Apart(r), NEW u \in Runs \ {r}
    PROVE  HolderAgrees(u)'
  <1> SUFFICES ASSUME holder' = u PROVE HolderAgrees(u)'
    BY DEF HolderAgrees
  <1>1. HolderAgrees(u) /\ at'[u] = at[u] /\ work'[u] = work[u]
    BY DEF IInv, Apart
  <1>2. holder = u /\ holder # r /\ u # None
    BY SchemaAssumption DEF Apart
  <1>3. ran' = ran /\ \A t \in Tables : tables[t] # None => tables'[t] # None
    BY <1>2 DEF Apart
  <1>4. Current(u)' = Current(u) /\ Position(u)' = Position(u) /\ Operation(u)' = Operation(u)
    BY <1>1 DEF Current, Position, Operation
  <1>5. Untouched(u)' <=> Untouched(u)
    BY <1>1, <1>3, <1>4 DEF Untouched
  <1>6. AheadIsUntouched(u)' <=> AheadIsUntouched(u)
    BY <1>1, <1>3, <1>4 DEF AheadIsUntouched
  <1>7. Altering(u)' <=> Altering(u)
    BY <1>1, <1>4 DEF Altering, Needed
  <1>8. \A c \in work[u].plan : c.table \in Tables
    BY DEF IInv, TypeOK, Notes
  <1> QED BY <1>1, <1>2, <1>3, <1>5, <1>6, <1>7, <1>8 DEF HolderAgrees, Amid, Ending

(* What is left to show of a step of run r.                                *)
LEMMA StepKeeps ==
    ASSUME IInv, NEW r \in Runs, TypeOK', Apart(r), RawSqlOnce', Journaled',
           StageAgrees(r)', HolderAgrees(r)'
    PROVE  IInv'
  <1>1. ASSUME NEW u \in Runs PROVE StageAgrees(u)' /\ HolderAgrees(u)'
    BY OthersStage, OthersHolder, u = r \/ u \in Runs \ {r}
  <1> QED BY <1>1 DEF IInv

-----------------------------------------------------------------------------
(* The variables that only TypeOK speaks of.                               *)
RestTyped ==
    /\ owner \in [Tables -> Resources \cup {None}]
    /\ registry \in [Resources -> [version : 0..MaxVersion, tables : SUBSET Tables]]
    /\ adoption \in [Resources -> [status : Statuses, baseline : Nat, target : 0..MaxVersion]]
    /\ faults \in 0..MaxFaults /\ losses \in 0..MaxLosses

(* A step that runs no statement of a migration.                           *)
Quiet(r) ==
    /\ UNCHANGED <<tables, journal, ran>>
    /\ holder' \in {holder, None}
    /\ RestTyped'

LEMMA QuietTyped ==
    ASSUME IInv, NEW r \in Runs, Quiet(r), NEW where \in Stages, NEW what \in Notes,
           Goto(r, where), Note(r, what)
    PROVE  TypeOK' /\ Apart(r) /\ RawSqlOnce' /\ Journaled'
  <1>1. at' \in [Runs -> Stages] /\ work' \in [Runs -> Notes]
    BY DEF IInv, TypeOK, Goto, Note
  <1>2. TypeOK'
    BY <1>1 DEF IInv, TypeOK, Quiet, RestTyped
  <1>3. Apart(r)
    BY DEF IInv, TypeOK, Quiet, Apart, Goto, Note
  <1>4. RawSqlOnce' /\ Journaled'
    BY DEF IInv, Quiet, RawSqlOnce, Journaled
  <1> QED BY <1>2, <1>3, <1>4

(* A call that ends, or records that it failed.                            *)
LEMMA EndingKeeps ==
    ASSUME IInv, NEW r \in Runs, NEW where \in Ending, Goto(r, where),
           work'[r] = work[r], where = "failing" => work[r].migrations # {},
           TypeOK', Apart(r), RawSqlOnce', Journaled'
    PROVE  IInv'
  <1>1. at'[r] = where
    BY DEF IInv, TypeOK, Goto
  <1>2. StageAgrees(r)'
    BY <1>1 DEF StageAgrees, Ending, Amid
  <1>3. HolderAgrees(r)'
    BY <1>1 DEF HolderAgrees, Ending, Amid
  <1> QED BY <1>2, <1>3, StepKeeps

LEMMA CaughtEnds ==
    ASSUME IInv, NEW r \in Runs
    PROVE  /\ Caught(r) \in Ending /\ Outwards(r) \in Ending \ {"failing"}
           /\ Caught(r) = "failing" => work[r].migrations # {}
  BY DEF IInv, StageAgrees, Caught, Outwards, Ending, Amid

LEMMA QuietEnd ==
    ASSUME IInv, NEW r \in Runs, Quiet(r), NEW where \in Ending, Goto(r, where),
           where = "failing" => work[r].migrations # {}, UNCHANGED work
    PROVE  IInv'
  <1>1. work[r] \in Notes /\ Note(r, work[r]) /\ where \in Stages
    BY DEF IInv, TypeOK, Note, Ending, Stages
  <1>2. TypeOK' /\ Apart(r) /\ RawSqlOnce' /\ Journaled'
    BY <1>1, QuietTyped
  <1> QED BY <1>2, EndingKeeps

LEMMA ThrowKeeps ==
    ASSUME IInv, NEW r \in Runs, Throw(r)
    PROVE  IInv'
  <1>1. Quiet(r) /\ Goto(r, Caught(r)) /\ UNCHANGED work
    BY DEF IInv, TypeOK, Throw, Quiet, RestTyped, metadata
  <1> QED BY <1>1, CaughtEnds, QuietEnd

LEMMA FaultTyped ==
    ASSUME TypeOK
    PROVE  /\ Fault => faults' \in 0..MaxFaults /\ losses' \in 0..MaxLosses
           /\ Loss => faults' \in 0..MaxFaults /\ losses' \in 0..MaxLosses
  <1>1. MaxFaults \in Nat /\ MaxLosses \in Nat
    BY SchemaAssumption
  <1> QED BY <1>1 DEF TypeOK, Fault, Loss

(* A run that stays outside its migrations.                                *)
Plain(r, where, what) ==
    /\ at[r] \notin Amid \cup Ending
    /\ where \in Stages \ ({"idle", "registry", "begin"} \cup Amid \cup Ending)
    /\ where = "baseline" => Adopts(r)
    /\ what \in Notes
    /\ what.migrations = work[r].migrations /\ what.journal = work[r].journal
    /\ what.actual \in {work[r].actual, tables}
    /\ where \in {"claim", "apply"} =>
          at[r] \in {"claim", "apply"} /\ what.plan \subseteq work[r].plan

LEMMA PlainKeeps ==
    ASSUME IInv, NEW r \in Runs, NEW where, NEW what, Plain(r, where, what),
           Quiet(r), Goto(r, where), Note(r, what)
    PROVE  IInv'
  <1>1. at'[r] = where /\ work'[r] = what
    BY DEF IInv, TypeOK, Goto, Note
  <1>2. StageAgrees(r)'
    BY <1>1 DEF Plain, StageAgrees, Ending, Amid, IInv
  <1>3. ASSUME holder' = r PROVE HolderAgrees(r)'
    <2>1. holder = r /\ tables' = tables /\ ran' = ran
      BY <1>3, SchemaAssumption DEF Quiet
    <2>2. Untouched(r)
      BY <2>1 DEF IInv, HolderAgrees, Plain
    <2>3. Untouched(r)'
      BY <1>1, <2>1, <2>2 DEF Untouched, Plain
    <2>4. \A t \in Tables : work[r].actual[t] # None => tables[t] # None
      BY <2>1 DEF IInv, HolderAgrees, Plain, Altering, Amid
    <2>5. \A t \in Tables : work'[r].actual[t] # None => tables'[t] # None
      BY <1>1, <2>1, <2>4 DEF Plain
    <2>6. at'[r] \in {"claim", "apply"} =>
            \A c \in work'[r].plan : c.feature # None => tables'[c.table] # None
      BY <1>1, <2>1 DEF Plain, IInv, HolderAgrees
    <2> QED BY <1>1, <2>3, <2>5, <2>6 DEF HolderAgrees, Plain
  <1>4. HolderAgrees(r)'
    BY <1>3 DEF HolderAgrees
  <1>5. TypeOK' /\ Apart(r) /\ RawSqlOnce' /\ Journaled'
    BY QuietTyped DEF Plain
  <1> QED BY <1>2, <1>4, <1>5, StepKeeps

LEMMA PlainReads ==
    ASSUME IInv, NEW r \in Runs, NEW where, NEW what, Plain(r, where, what),
           Reads(r, where, what)
    PROVE  IInv'
  <1>1. Quiet(r)
    BY DEF IInv, TypeOK, Reads, Quiet, RestTyped, metadata
  <1> QED BY <1>1, PlainKeeps DEF Reads

(* A metadata statement, answered or not, outside the migrations.          *)
LEMMA PlainAnswered ==
    ASSUME IInv, NEW r \in Runs, NEW where, NEW what, Answered(r, where, what),
           \/ Plain(r, where, what)
           \/ where \in Ending \ {"failing"} /\ what = work[r],
           UNCHANGED <<tables, journal, ran, holder>>,
           owner' \in [Tables -> Resources \cup {None}],
           registry' \in [Resources -> [version : 0..MaxVersion, tables : SUBSET Tables]],
           adoption' \in
             [Resources -> [status : Statuses, baseline : Nat, target : 0..MaxVersion]]
    PROVE  IInv'
  <1>1. Quiet(r)
    BY FaultTyped DEF IInv, TypeOK, Answered, Quiet, RestTyped
  <1>2. CASE Goto(r, where) /\ Note(r, what) /\ Plain(r, where, what)
    BY <1>1, <1>2, PlainKeeps
  <1>3. CASE Goto(r, where) /\ Note(r, what) /\ where \in Ending \ {"failing"} /\ what = work[r]
    <2>1. UNCHANGED work
      BY <1>3 DEF Note, IInv, TypeOK
    <2> QED BY <1>1, <1>3, <2>1, QuietEnd
  <1>4. CASE Goto(r, Caught(r)) /\ UNCHANGED work
    BY <1>1, <1>4, CaughtEnds, QuietEnd
  <1> QED BY <1>2, <1>3, <1>4 DEF Answered

-----------------------------------------------------------------------------
LEMMA ReadRegistryKeeps ==
    ASSUME IInv, NEW r \in Runs, ReadRegistry(r)
    PROVE  IInv'
  <1>1. CASE Throw(r)
    BY <1>1, ThrowKeeps
  <1>2. ASSUME NEW where \in {"adoption", "journal"},
               Reads(r, where, [work[r] EXCEPT !.registry = registry[Resource(r)]])
        PROVE  IInv'
    <2> DEFINE what == [work[r] EXCEPT !.registry = registry[Resource(r)]]
    <2>1. work[r] \in Notes /\ registry[Resource(r)] \in [version : 0..MaxVersion, tables : SUBSET Tables]
      BY JobTyped DEF IInv, TypeOK
    <2>2. what \in Notes /\ what.migrations = work[r].migrations
          /\ what.journal = work[r].journal /\ what.actual = work[r].actual
      BY <2>1 DEF Notes
    <2>3. at[r] = "registry"
      BY DEF ReadRegistry
    <2>4. Plain(r, where, what)
      BY <2>2, <2>3 DEF Plain, Amid, Ending, Stages
    <2> QED BY <1>2, <2>4, PlainReads
  <1> QED BY <1>1, <1>2 DEF ReadRegistry

LEMMA ReadAdoptionKeeps ==
    ASSUME IInv, NEW r \in Runs, ReadAdoption(r)
    PROVE  IInv'
  <1>1. CASE Throw(r)
    BY <1>1, ThrowKeeps
  <1>2. ASSUME NEW b \in BOOLEAN, Reads(r, "introspect", [work[r] EXCEPT !.recorded = b])
        PROVE  IInv'
    <2> DEFINE what == [work[r] EXCEPT !.recorded = b]
    <2>1. work[r] \in Notes
      BY DEF IInv, TypeOK
    <2>2. what \in Notes /\ what.migrations = work[r].migrations
          /\ what.journal = work[r].journal /\ what.actual = work[r].actual
      BY <2>1 DEF Notes
    <2>3. at[r] = "adoption"
      BY DEF ReadAdoption
    <2>4. Plain(r, "introspect", what)
      BY <2>2, <2>3 DEF Plain, Amid, Ending, Stages
    <2> QED BY <1>2, <2>4, PlainReads
  <1> QED BY <1>1, <1>2 DEF ReadAdoption

LEMMA SameNotes ==
    ASSUME IInv, NEW r \in Runs, NEW where \in {"introspect", "baseline", "migrate", "finish"},
           where = "baseline" => Adopts(r),
           at[r] \in Stages \ ({"idle"} \cup Amid \cup Ending)
    PROVE  Plain(r, where, work[r])
  BY DEF IInv, TypeOK, Plain, Amid, Ending, Stages

LEMMA CheckOwnershipKeeps ==
    ASSUME IInv, NEW r \in Runs, CheckOwnership(r)
    PROVE  IInv'
  <1>1. at[r] \in Stages \ ({"idle"} \cup Amid \cup Ending)
    BY DEF CheckOwnership, Stages, Amid, Ending
  <1>2. Throw(r) \/ \E where \in {"baseline", "introspect"} :
                        Reads(r, where, work[r]) /\ (where = "baseline" => Adopts(r))
    BY DEF CheckOwnership
  <1> QED BY <1>1, <1>2, SameNotes, PlainReads, ThrowKeeps

LEMMA RefuseImplicitAdoptionKeeps ==
    ASSUME IInv, NEW r \in Runs, RefuseImplicitAdoption(r)
    PROVE  IInv'
  <1>1. at[r] \in Stages \ ({"idle"} \cup Amid \cup Ending)
    BY DEF RefuseImplicitAdoption, Stages, Amid, Ending
  <1>2. Throw(r) \/ Reads(r, "migrate", work[r])
    BY DEF RefuseImplicitAdoption
  <1> QED BY <1>1, <1>2, SameNotes, PlainReads, ThrowKeeps

LEMMA WriteAdoptionBaselineKeeps ==
    ASSUME IInv, NEW r \in Runs, WriteAdoptionBaseline(r)
    PROVE  IInv'
  <1>1. CASE Throw(r)
    BY <1>1, ThrowKeeps
  <1>2. CASE ~Throw(r)
    <2> DEFINE what == [work[r] EXCEPT !.recorded = TRUE]
    <2>1. work[r] \in Notes /\ at[r] = "baseline"
      BY DEF IInv, TypeOK, WriteAdoptionBaseline
    <2>2. what \in Notes /\ what.migrations = work[r].migrations
          /\ what.journal = work[r].journal /\ what.actual = work[r].actual
      BY <2>1 DEF Notes
    <2>3. Plain(r, "journal", what)
      BY <2>1, <2>2 DEF Plain, Amid, Ending, Stages
    <2>4. /\ UNCHANGED <<tables, owner, registry, journal, holder, ran>>
          /\ Answered(r, "journal", what)
          /\ adoption' = [adoption EXCEPT ![Resource(r)] =
               [status |-> "running", baseline |-> Job[r].baseline, target |-> Job[r].version]]
      BY <1>2 DEF WriteAdoptionBaseline
    <2>5. Job[r].version \in 0..MaxVersion /\ Job[r].baseline \in Nat
      BY <2>1, JobTyped DEF Versions, IInv, StageAgrees
    <2>6. adoption' \in
            [Resources -> [status : Statuses, baseline : Nat, target : 0..MaxVersion]]
      BY <2>4, <2>5 DEF IInv, TypeOK, Statuses
    <2>7. owner' \in [Tables -> Resources \cup {None}]
          /\ registry' \in [Resources -> [version : 0..MaxVersion, tables : SUBSET Tables]]
      BY <2>4 DEF IInv, TypeOK
    <2> QED BY <2>3, <2>4, <2>6, <2>7, PlainAnswered
  <1> QED BY <1>1, <1>2

LEMMA ClaimTableKeeps ==
    ASSUME IInv, NEW r \in Runs, ClaimTable(r)
    PROVE  IInv'
  <1>1. CASE Throw(r)
    BY <1>1, ThrowKeeps
  <1>2. CASE ~Throw(r)
    <2>1. PICK t \in work[r].claims :
             LET left == work[r].claims \ {t} IN
             /\ owner' = [owner EXCEPT ![t] = Resource(r)]
             /\ Answered(r, IF left # {} THEN at[r] ELSE IF at[r] = "claim" THEN "apply" ELSE "register",
                         [work[r] EXCEPT !.claims = left])
             /\ UNCHANGED <<tables, registry, journal, adoption, holder, ran>>
      BY <1>2 DEF ClaimTable
    <2> DEFINE left == work[r].claims \ {t}
               where == IF left # {} THEN at[r] ELSE IF at[r] = "claim" THEN "apply" ELSE "register"
               what == [work[r] EXCEPT !.claims = left]
    <2>2. work[r] \in Notes /\ at[r] \in {"claim", "reclaim"}
      BY DEF IInv, TypeOK, ClaimTable
    <2>3. what \in Notes /\ what.migrations = work[r].migrations /\ what.plan = work[r].plan
          /\ what.journal = work[r].journal /\ what.actual = work[r].actual
      BY <2>2 DEF Notes
    <2>4. Plain(r, where, what)
      BY <2>2, <2>3 DEF Plain, Amid, Ending, Stages
    <2>5. owner' \in [Tables -> Resources \cup {None}]
      BY <2>1, JobTyped DEF IInv, TypeOK
    <2>6. /\ registry' \in [Resources -> [version : 0..MaxVersion, tables : SUBSET Tables]]
          /\ adoption' \in
               [Resources -> [status : Statuses, baseline : Nat, target : 0..MaxVersion]]
      BY <2>1 DEF IInv, TypeOK
    <2> HIDE DEF where, what
    <2> QED BY <2>1, <2>4, <2>5, <2>6, PlainAnswered DEF where, what
  <1> QED BY <1>1, <1>2

LEMMA VerifyKeeps ==
    ASSUME IInv, NEW r \in Runs, Verify(r)
    PROVE  IInv'
  <1>1. CASE Throw(r)
    BY <1>1, ThrowKeeps
  <1>2. ASSUME NEW where \in {"register", "reclaim"},
               Reads(r, where, [work[r] EXCEPT !.claims = DOMAIN Wanted(r)])
        PROVE  IInv'
    <2> DEFINE what == [work[r] EXCEPT !.claims = DOMAIN Wanted(r)]
    <2>1. work[r] \in Notes /\ DOMAIN Wanted(r) \subseteq Tables /\ at[r] = "apply"
      BY JobTyped DEF IInv, TypeOK, Verify
    <2>2. what \in Notes /\ what.migrations = work[r].migrations
          /\ what.journal = work[r].journal /\ what.actual = work[r].actual
      BY <2>1 DEF Notes
    <2>3. Plain(r, where, what)
      BY <2>1, <2>2 DEF Plain, Amid, Ending, Stages
    <2> QED BY <1>2, <2>3, PlainReads
  <1> QED BY <1>1, <1>2 DEF Verify

LEMMA WriteRegistryKeeps ==
    ASSUME IInv, NEW r \in Runs, WriteRegistry(r)
    PROVE  IInv'
  <1>1. at[r] \in Stages \ ({"idle"} \cup Amid \cup Ending)
    BY DEF WriteRegistry, Stages, Amid, Ending
  <1>2. Job[r].version \in 0..MaxVersion /\ DOMAIN Wanted(r) \subseteq Tables
    BY JobTyped DEF Versions
  <1>3. registry' \in [Resources -> [version : 0..MaxVersion, tables : SUBSET Tables]]
    BY <1>2 DEF IInv, TypeOK, WriteRegistry
  <1>4. /\ owner' \in [Tables -> Resources \cup {None}]
        /\ adoption' \in
             [Resources -> [status : Statuses, baseline : Nat, target : 0..MaxVersion]]
        /\ UNCHANGED <<tables, journal, ran, holder>>
    BY DEF WriteRegistry, IInv, TypeOK
  <1>5. CASE Answered(r, "finish", work[r])
    BY <1>1, <1>3, <1>4, <1>5, SameNotes, PlainAnswered
  <1>6. CASE Answered(r, "unlock", work[r])
    BY <1>3, <1>4, <1>6, PlainAnswered DEF Ending
  <1> QED BY <1>5, <1>6 DEF WriteRegistry

LEMMA AdoptionStatusTyped ==
    ASSUME IInv, NEW r \in Runs, NEW status \in Statuses, AdoptionStatus(r, status)
    PROVE  /\ adoption' \in
                [Resources -> [status : Statuses, baseline : Nat, target : 0..MaxVersion]]
           /\ owner' \in [Tables -> Resources \cup {None}]
           /\ registry' \in [Resources -> [version : 0..MaxVersion, tables : SUBSET Tables]]
           /\ UNCHANGED <<tables, journal, ran, holder>>
  <1>1. adoption \in [Resources -> [status : Statuses, baseline : Nat, target : 0..MaxVersion]]
    BY DEF IInv, TypeOK
  <1>2. adoption' = [adoption EXCEPT ![Resource(r)].status = status]
    BY DEF AdoptionStatus
  <1>3. adoption' \in [Resources -> [status : Statuses, baseline : Nat, target : 0..MaxVersion]]
    BY <1>1, <1>2, JobTyped
  <1> QED BY <1>3 DEF IInv, TypeOK, AdoptionStatus

LEMMA FinishAdoptionKeeps ==
    ASSUME IInv, NEW r \in Runs, FinishAdoption(r)
    PROVE  IInv'
  BY AdoptionStatusTyped, PlainAnswered DEF FinishAdoption, Ending, Statuses

LEMMA FailAdoptionKeeps ==
    ASSUME IInv, NEW r \in Runs, FailAdoption(r)
    PROVE  IInv'
  <1>1. Quiet(r)
    <2>1. CASE AdoptionStatus(r, "failed") /\ UNCHANGED <<faults, losses>>
      BY <2>1, AdoptionStatusTyped DEF Quiet, RestTyped, IInv, TypeOK, Statuses
    <2>2. CASE Fault /\ UNCHANGED <<tables, metadata, holder, ran>>
      BY <2>2, FaultTyped DEF Quiet, RestTyped, IInv, TypeOK, metadata
    <2> QED BY <2>1, <2>2 DEF FailAdoption
  <1> QED BY <1>1, QuietEnd DEF FailAdoption, Ending

-----------------------------------------------------------------------------
LEMMA AcquireLockKeeps ==
    ASSUME IInv, NEW r \in Runs, AcquireLock(r)
    PROVE  IInv'
  <1>1. /\ at'[r] = "registry" /\ work'[r] = Blank /\ holder' = r
        /\ UNCHANGED <<tables, owner, registry, journal, adoption, work, ran, faults, losses>>
    BY DEF AcquireLock, Goto, IInv, TypeOK, StageAgrees, metadata
  <1>2. TypeOK'
    BY <1>1 DEF IInv, TypeOK, AcquireLock, Goto, Stages
  <1>3. Apart(r)
    BY <1>1, SchemaAssumption DEF Apart, AcquireLock, Goto, IInv, TypeOK
  <1>4. StageAgrees(r)'
    BY <1>1 DEF StageAgrees, Amid, Blank
  <1>5. HolderAgrees(r)'
    <2>1. Untouched(r)'
      BY <1>1 DEF Untouched, Blank
    <2>2. \A t \in Tables : work'[r].actual[t] = None
      BY <1>1 DEF Blank, Nothing
    <2> QED BY <1>1, <2>1, <2>2 DEF HolderAgrees, Amid
  <1>6. RawSqlOnce' /\ Journaled'
    BY <1>1 DEF IInv, RawSqlOnce, Journaled
  <1> QED BY <1>2, <1>3, <1>4, <1>5, <1>6, StepKeeps

LEMMA PendingTyped ==
    ASSUME NEW r \in Runs, NEW row, row.version \in Nat
    PROVE  Upgrades(r, row) \subseteq Versions
  <1>1. MaxVersion \in Nat /\ Job[r].version \in 1..MaxVersion
    BY JobTyped, SchemaAssumption DEF Versions
  <1>2. ASSUME NEW n \in Nat PROVE Pending(r, n) \subseteq 1..MaxVersion
    BY <1>1 DEF Pending
  <1> QED BY <1>2, JobTyped DEF Upgrades, Versions

LEMMA ReadJournalKeeps ==
    ASSUME IInv, NEW r \in Runs, ReadJournal(r)
    PROVE  IInv'
  <1> DEFINE rows == journal[Resource(r)]
             left == {v \in Upgrades(r, work[r].registry) : rows[v] # "success"}
             what == [work[r] EXCEPT !.journal = rows, !.migrations = left]
  <1>1. CASE Throw(r)
    BY <1>1, ThrowKeeps
  <1>2. ASSUME NEW where \in {"migrate", "ownership"}, Reads(r, where, what)
        PROVE  IInv'
    <2>1. work[r] \in Notes /\ at[r] = "journal" /\ rows \in [Versions -> Statuses]
      BY JobTyped DEF IInv, TypeOK, ReadJournal
    <2>2. left \subseteq Versions
      <3>1. work[r].registry.version \in Nat
        BY <2>1, SchemaAssumption DEF Notes
      <3> QED BY <3>1, PendingTyped
    <2>3. /\ what \in Notes /\ what.migrations = left /\ what.journal = rows
          /\ what.actual = work[r].actual
      BY <2>1, <2>2 DEF Notes
    <2> HIDE DEF what
    <2>4. Quiet(r) /\ at'[r] = where /\ work'[r] = what /\ UNCHANGED <<tables, holder, ran>>
      BY <1>2 DEF Quiet, Reads, RestTyped, metadata, IInv, TypeOK, Goto, Note
    <2>5. TypeOK' /\ Apart(r) /\ RawSqlOnce' /\ Journaled'
      BY <1>2, <2>3, <2>4, QuietTyped DEF Reads, Stages
    <2>6. StageAgrees(r)'
      BY <2>4 DEF StageAgrees, Amid
    <2>7. Untouched(r)'
      <3>1. \A v \in left : v \in Versions /\ (rows[v] = "none" =>
               \A n \in DOMAIN Migration[Resource(r)][v] : ran[Resource(r)][v][n] = 0)
        BY <2>2, JobTyped DEF IInv, Journaled
      <3> QED BY <3>1, <2>3, <2>4 DEF Untouched
    <2>8. HolderAgrees(r)'
      BY <2>1, <2>3, <2>4, <2>7 DEF HolderAgrees, IInv, Altering, Amid, Ending
    <2> QED BY <2>5, <2>6, <2>8, StepKeeps
  <1> QED BY <1>1, <1>2 DEF ReadJournal

LEMMA StartMigrationKeeps ==
    ASSUME IInv, NEW r \in Runs, StartMigration(r)
    PROVE  IInv'
  <1>1. CASE Throw(r)
    BY <1>1, ThrowKeeps
  <1>2. CASE Reads(r, "begin", work[r]) /\ Resumable(r)
    <2>1. work[r] \in Notes /\ at[r] = "migrate" /\ work[r].migrations # {}
      BY DEF IInv, TypeOK, StartMigration
    <2>2. Quiet(r) /\ at'[r] = "begin" /\ work'[r] = work[r] /\ UNCHANGED <<tables, holder, ran>>
      BY <1>2 DEF Quiet, Reads, RestTyped, metadata, IInv, TypeOK, Goto, Note
    <2>3. TypeOK' /\ Apart(r) /\ RawSqlOnce' /\ Journaled'
      BY <1>2, <2>1, <2>2, QuietTyped DEF Reads, Stages
    <2>4. Resumable(r)'
      BY <1>2, <2>2 DEF Resumable, Current
    <2>5. StageAgrees(r)'
      BY <2>1, <2>2, <2>4 DEF StageAgrees, Amid
    <2>6. Untouched(r) => Untouched(r)'
      BY <2>1, <2>2 DEF Untouched, Amid
    <2>7. HolderAgrees(r)'
      BY <2>1, <2>2, <2>6 DEF HolderAgrees, IInv, Altering, Amid, Ending
    <2> QED BY <2>3, <2>5, <2>7, StepKeeps
  <1> QED BY <1>1, <1>2 DEF StartMigration

(* The journal never forgets.                                              *)
LEMMA JournalKept ==
    ASSUME IInv, NEW r \in Runs, NEW status \in Statuses \ {"none"}, Journal(r, status)
    PROVE  /\ journal' \in [Resources -> [Versions -> Statuses]]
           /\ work[r].migrations # {} => journal'[Resource(r)][Current(r)] = status
           /\ \A res \in Resources, v \in Versions :
                 journal[res][v] # "none" => journal'[res][v] # "none"
           /\ UNCHANGED <<tables, owner, registry, adoption, holder, ran>>
           /\ RawSqlOnce' /\ Journaled'
  <1>1. journal \in [Resources -> [Versions -> Statuses]] /\ Resource(r) \in Resources
    BY JobTyped DEF IInv, TypeOK
  <1>2. journal' = [journal EXCEPT ![Resource(r)][Current(r)] = status]
    BY DEF Journal
  <1>3. journal' \in [Resources -> [Versions -> Statuses]]
    BY <1>1, <1>2
  <1>4. work[r].migrations # {} => journal'[Resource(r)][Current(r)] = status
    BY <1>1, <1>2, CurrentTyped DEF IInv
  <1>5. \A res \in Resources, v \in Versions :
           journal[res][v] # "none" => journal'[res][v] # "none"
    BY <1>1, <1>2
  <1>6. RawSqlOnce' /\ Journaled'
    BY <1>5 DEF IInv, RawSqlOnce, Journaled, Journal
  <1> QED BY <1>3, <1>4, <1>5, <1>6 DEF Journal

LEMMA MoveTyped ==
    ASSUME TypeOK, NEW r \in Runs, NEW where \in Stages, NEW what \in Notes,
           Goto(r, where), Note(r, what)
    PROVE  /\ at' \in [Runs -> Stages] /\ work' \in [Runs -> Notes]
           /\ at'[r] = where /\ work'[r] = what
           /\ \A u \in Runs \ {r} : at'[u] = at[u] /\ work'[u] = work[u]
  BY DEF TypeOK, Goto, Note

LEMMA BeginMigrationKeeps ==
    ASSUME IInv, NEW r \in Runs, BeginMigration(r)
    PROVE  IInv'
  <1> DEFINE ops == Migration[Resource(r)][Current(r)]
             what == [work[r] EXCEPT !.operations = ops]
  <1>1. at[r] = "begin" /\ work[r].migrations # {} /\ Resumable(r) /\ work[r] \in Notes
    BY DEF BeginMigration, IInv, StageAgrees, TypeOK
  <1>2. ops \in Seq(Operations) /\ Current(r) \in Versions /\ Current(r) \in work[r].migrations
    BY <1>1, CurrentTyped DEF IInv
  <1>3. /\ what \in Notes /\ what.migrations = work[r].migrations /\ what.operations = ops
        /\ what.journal = work[r].journal /\ what.actual = work[r].actual
    BY <1>1, <1>2 DEF Notes
  <1>4. /\ journal' \in [Resources -> [Versions -> Statuses]]
        /\ journal'[Resource(r)][Current(r)] = "running"
        /\ \A res \in Resources, v \in Versions :
              journal[res][v] # "none" => journal'[res][v] # "none"
        /\ UNCHANGED <<tables, owner, registry, adoption, holder, ran>>
        /\ RawSqlOnce' /\ Journaled'
    BY <1>1, JournalKept DEF BeginMigration, Statuses
  <1>5. Answered(r, "operate", what)
    BY DEF BeginMigration
  <1> HIDE DEF what
  <1>6. CASE Goto(r, Caught(r)) /\ UNCHANGED work /\ Fault
    <2>1. Caught(r) \in Ending /\ Caught(r) \in Stages /\ Note(r, work[r])
      BY <1>6, CaughtEnds DEF Ending, Stages, Note, IInv, TypeOK
    <2>2. at' \in [Runs -> Stages] /\ \A u \in Runs \ {r} : at'[u] = at[u]
      BY <1>1, <1>6, <2>1, MoveTyped DEF IInv
    <2>3. TypeOK'
      BY <1>4, <1>6, <2>2, FaultTyped DEF IInv, TypeOK
    <2>4. Apart(r)
      BY <1>4, <1>6, <2>2 DEF Apart
    <2> QED BY <1>1, <1>4, <1>6, <2>1, <2>3, <2>4, EndingKeeps
  <1>7. CASE Goto(r, "operate") /\ Note(r, what) /\ UNCHANGED <<faults, losses>>
    <2>1. /\ at' \in [Runs -> Stages] /\ work' \in [Runs -> Notes]
          /\ at'[r] = "operate" /\ work'[r] = what
          /\ \A u \in Runs \ {r} : at'[u] = at[u] /\ work'[u] = work[u]
      BY <1>3, <1>7, MoveTyped DEF IInv, Stages
    <2>2. TypeOK'
      BY <1>4, <1>7, <2>1 DEF IInv, TypeOK
    <2>3. Apart(r)
      BY <1>4, <2>1 DEF Apart
    <2>4. Current(r)' = Current(r) /\ Position(r)' = 1
      <3>1. Current(r)' = Current(r)
        BY <1>3, <2>1 DEF Current
      <3> QED BY <1>2, <1>3, <2>1, <3>1 DEF Position
    <2>5. StageAgrees(r)'
      BY <1>1, <1>2, <1>3, <1>4, <2>1, <2>4 DEF StageAgrees, Amid, OperationsAt
    <2>6. ASSUME holder = r PROVE HolderAgrees(r)'
      <3>1. Untouched(r) /\ \A t \in Tables : work[r].actual[t] # None => tables[t] # None
        BY <1>1, <2>6 DEF IInv, HolderAgrees, Altering, Ending
      <3>2. Untouched(r)'
        BY <1>1, <1>3, <1>4, <2>1, <3>1 DEF Untouched, Amid
      <3>3. AheadIsUntouched(r)'
        <4>1. ASSUME NEW op \in OperationsAt(Resource(r), Current(r)), op.type = "sql"
              PROVE  \A n \in DOMAIN ops : ran[Resource(r)][Current(r)][n] = 0
          BY <1>1, <1>2, <3>1, <4>1 DEF Resumable, Untouched, Amid
        <4> QED BY <1>4, <2>4, <4>1 DEF AheadIsUntouched
      <3>4. /\ \A t \in Tables : work'[r].actual[t] # None => tables'[t] # None
            /\ at'[r] \notin {"claim", "apply"}
        BY <1>3, <1>4, <2>1, <3>1
      <3> QED BY <3>2, <3>3, <3>4 DEF HolderAgrees
    <2>7. HolderAgrees(r)'
      BY <1>4, <2>6 DEF HolderAgrees
    <2> QED BY <1>4, <2>2, <2>3, <2>5, <2>7, StepKeeps
  <1> QED BY <1>5, <1>6, <1>7 DEF Answered

-----------------------------------------------------------------------------
(* Everything but where the runs are.                                      *)
DataTyped ==
    /\ tables \in [Tables -> {None} \cup SUBSET Features]
    /\ journal \in [Resources -> [Versions -> Statuses]]
    /\ holder \in Runs \cup {None}
    /\ DOMAIN ran = Resources
    /\ \A res \in Resources : /\ DOMAIN ran[res] = Versions
                              /\ \A v \in Versions : ran[res][v] \in [DOMAIN Migration[res][v] -> 0..2]
    /\ RestTyped
Kept(r) ==
    /\ DataTyped'
    /\ holder' \in {holder, None, r}
    /\ holder # r => /\ ran' = ran
                     /\ \A t \in Tables : tables[t] # None => tables'[t] # None
    /\ \A res \in Resources, v \in Versions :
          journal[res][v] # "none" => journal'[res][v] # "none"
    /\ RawSqlOnce' /\ Journaled'

LEMMA Moves ==
    ASSUME IInv, NEW r \in Runs, NEW where \in Stages, NEW what \in Notes,
           Goto(r, where), Note(r, what), Kept(r), StageAgrees(r)', HolderAgrees(r)'
    PROVE  IInv'
  <1>1. /\ at' \in [Runs -> Stages] /\ work' \in [Runs -> Notes]
        /\ \A u \in Runs \ {r} : at'[u] = at[u] /\ work'[u] = work[u]
    BY MoveTyped DEF IInv
  <1>2. TypeOK'
    BY <1>1 DEF Kept, DataTyped, RestTyped, TypeOK
  <1>3. Apart(r)
    BY <1>1 DEF Kept, Apart
  <1> QED BY <1>2, <1>3, StepKeeps DEF Kept

LEMMA Fails ==
    ASSUME IInv, NEW r \in Runs, NEW where \in Ending, Goto(r, where), UNCHANGED work,
           where = "failing" => work[r].migrations # {}, Kept(r)
    PROVE  IInv'
  <1>1. where \in Stages /\ work[r] \in Notes /\ Note(r, work[r])
    BY DEF Ending, Stages, Note, IInv, TypeOK
  <1>2. at'[r] = where /\ work'[r] = work[r]
    BY DEF IInv, TypeOK, Goto
  <1>3. StageAgrees(r)' /\ HolderAgrees(r)'
    BY <1>2 DEF StageAgrees, HolderAgrees, Ending, Amid
  <1> QED BY <1>1, <1>3, Moves

(* The conjuncts of DataTyped and Kept that most steps leave alone.        *)
LEMMA OnlyOwner ==
    ASSUME IInv, NEW r \in Runs, UNCHANGED <<tables, registry, journal, adoption, holder, ran>>,
           owner' \in [Tables -> Resources \cup {None}],
           faults' \in 0..MaxFaults, losses' \in 0..MaxLosses
    PROVE  Kept(r)
  BY DEF IInv, TypeOK, Kept, DataTyped, RestTyped, RawSqlOnce, Journaled

(* A run that goes on with the same operations.                            *)
LEMMA AmidSame ==
    ASSUME IInv, NEW r \in Runs, at[r] \in Amid, at'[r] \in Amid,
           work'[r].migrations = work[r].migrations, work'[r].journal = work[r].journal,
           work'[r].operations = work[r].operations, ran' = ran, journal' = journal,
           at'[r] = "reconcile" => work[r].operations # <<>>,
           at[r] = "reconcile" => at'[r] = "reconcile"
    PROVE  /\ StageAgrees(r)'
           /\ holder = r => Untouched(r)' /\ AheadIsUntouched(r)'
           /\ Current(r)' = Current(r) /\ Operation(r)' = Operation(r)
  <1>1. /\ Current(r)' = Current(r) /\ Position(r)' = Position(r)
        /\ Operation(r)' = Operation(r)
    BY DEF Current, Position, Operation
  <1>2. StageAgrees(r)'
    BY <1>1 DEF IInv, StageAgrees, Amid
  <1>3. ASSUME holder = r PROVE Untouched(r)' /\ AheadIsUntouched(r)'
    <2>1. Untouched(r) /\ AheadIsUntouched(r)
      BY <1>3 DEF IInv, HolderAgrees, Amid, Ending
    <2>2. Untouched(r)'
      BY <1>1, <2>1 DEF Untouched
    <2>3. AheadIsUntouched(r)'
      BY <1>1, <2>1 DEF AheadIsUntouched
    <2> QED BY <2>2, <2>3
  <1> QED BY <1>1, <1>2, <1>3

LEMMA IntrospectKeeps ==
    ASSUME IInv, NEW r \in Runs, Introspect(r)
    PROVE  IInv'
  <1> DEFINE what == [work[r] EXCEPT !.actual = tables]
  <1>1. work[r] \in Notes /\ tables \in [Tables -> {None} \cup SUBSET Features]
    BY DEF IInv, TypeOK
  <1>2. /\ what \in Notes /\ what.migrations = work[r].migrations
        /\ what.operations = work[r].operations
        /\ what.journal = work[r].journal /\ what.actual = tables
    BY <1>1 DEF Notes
  <1>3. \/ /\ at[r] = "introspect"
           /\ \E where \in {"refuse", "journal", "ownership"} : Reads(r, where, what)
        \/ at[r] = "refresh" /\ Reads(r, "operate", what)
        \/ at[r] = "reread" /\ Reads(r, "migrate", what)
    BY DEF Introspect
  <1> HIDE DEF what
  <1>4. ASSUME at[r] \in {"introspect", "reread"},
               NEW where \in {"refuse", "journal", "ownership", "migrate"}, Reads(r, where, what)
        PROVE  IInv'
    <2>1. Plain(r, where, what)
      BY <1>2, <1>4 DEF Plain, Amid, Ending, Stages
    <2> QED BY <1>4, <2>1, PlainReads
  <1>5. CASE at[r] = "refresh" /\ Reads(r, "operate", what)
    <2>1. /\ at'[r] = "operate" /\ work'[r] = what
          /\ UNCHANGED <<tables, metadata, holder, ran, faults, losses>>
      BY <1>5 DEF Reads, Goto, Note, IInv, TypeOK
    <2>2. StageAgrees(r)' /\ (holder = r => Untouched(r)' /\ AheadIsUntouched(r)')
      BY <1>2, <1>5, <2>1, AmidSame DEF Amid, metadata
    <2>3. HolderAgrees(r)'
      BY <1>2, <2>1, <2>2 DEF HolderAgrees
    <2>4. Kept(r)
      BY <2>1, OnlyOwner DEF metadata, IInv, TypeOK
    <2> QED BY <1>2, <1>5, <2>2, <2>3, <2>4, Moves DEF Reads, Stages
  <1> QED BY <1>3, <1>4, <1>5

LEMMA SkipOperationKeeps ==
    ASSUME IInv, NEW r \in Runs, SkipOperation(r)
    PROVE  IInv'
  <1>1. CASE Throw(r)
    BY <1>1, ThrowKeeps
  <1>2. CASE Reads(r, "reconcile", work[r]) /\ ~Needed(r, Operation(r), work[r].actual)
    <2>1. /\ at'[r] = "reconcile" /\ work'[r] = work[r] /\ work[r] \in Notes
          /\ UNCHANGED <<tables, owner, registry, journal, adoption, holder, ran, faults, losses>>
      BY <1>2 DEF Reads, Goto, Note, IInv, TypeOK, metadata
    <2>2. at[r] = "operate" /\ work[r].operations # <<>>
      BY DEF SkipOperation, Operating
    <2>3. /\ StageAgrees(r)' /\ (holder = r => Untouched(r)' /\ AheadIsUntouched(r)')
          /\ Operation(r)' = Operation(r)
      BY <2>1, <2>2, AmidSame DEF Amid
    <2>4. HolderAgrees(r)'
      <3>1. holder = r => \A t \in Tables : work[r].actual[t] # None => tables[t] # None
        BY <2>2 DEF IInv, HolderAgrees, Altering, Ending
      <3> QED BY <2>1, <2>3, <3>1 DEF HolderAgrees
    <2>5. Kept(r)
      BY <2>1, OnlyOwner DEF IInv, TypeOK
    <2> QED BY <1>2, <2>1, <2>3, <2>4, <2>5, Moves DEF Reads, Stages
  <1> QED BY <1>1, <1>2 DEF SkipOperation

LEMMA ReleaseTableKeeps ==
    ASSUME IInv, NEW r \in Runs, ReleaseTable(r)
    PROVE  IInv'
  <1>1. /\ at[r] = "operate" /\ work[r].operations # <<>> /\ work[r] \in Notes
        /\ Operation(r).type = "releaseTable"
        /\ UNCHANGED <<tables, registry, journal, adoption, holder, ran>>
    BY DEF ReleaseTable, Operating, IInv, TypeOK
  <1>2. owner' \in [Tables -> Resources \cup {None}]
    BY DEF ReleaseTable, IInv, TypeOK
  <1>3. Kept(r)
    BY <1>1, <1>2, OnlyOwner, FaultTyped DEF ReleaseTable, Answered, IInv, TypeOK
  <1>4. CASE Goto(r, "reconcile") /\ Note(r, work[r])
    <2>1. at'[r] = "reconcile" /\ work'[r] = work[r]
      BY <1>4 DEF Goto, Note, IInv, TypeOK
    <2>2. /\ StageAgrees(r)' /\ (holder = r => Untouched(r)' /\ AheadIsUntouched(r)')
          /\ Operation(r)' = Operation(r)
      BY <1>1, <2>1, AmidSame DEF Amid
    <2>3. holder = r => \A t \in Tables : work[r].actual[t] # None => tables[t] # None
      BY <1>1 DEF IInv, HolderAgrees, Altering, Ending
    <2>4. HolderAgrees(r)'
      BY <1>1, <2>1, <2>2, <2>3 DEF HolderAgrees
    <2> QED BY <1>1, <1>3, <1>4, <2>2, <2>4, Moves DEF Stages
  <1>5. CASE Goto(r, Caught(r)) /\ UNCHANGED work
    BY <1>3, <1>5, CaughtEnds, Fails
  <1> QED BY <1>4, <1>5 DEF ReleaseTable, Answered

LEMMA ReconcileOwnershipKeeps ==
    ASSUME IInv, NEW r \in Runs, ReconcileOwnership(r)
    PROVE  IInv'
  <1> DEFINE op == Operation(r)
             ops == Tail(work[r].operations)
             what == [work[r] EXCEPT !.operations = Tail(@)]
  <1>1. CASE Throw(r)
    BY <1>1, ThrowKeeps
  <1>2. CASE ~Throw(r)
    <2>1. /\ at[r] = "reconcile" /\ work[r].operations # <<>> /\ work[r].migrations # {}
          /\ work[r] \in Notes
      BY DEF ReconcileOwnership, IInv, StageAgrees, Amid, TypeOK
    <2>2. PICK where \in {"refresh", "operate"} :
            /\ where = "operate" => ~Altering(r)
            /\ Answered(r, where, what)
      BY <1>2, <2>1 DEF ReconcileOwnership, Altering
    <2>3. /\ op \in Operations /\ ops \in Seq(Operations)
          /\ Len(ops) = Len(work[r].operations) - 1
          /\ Range(ops) \subseteq Range(work[r].operations)
      BY <2>1, HeadTyped DEF IInv
    <2>4. /\ what \in Notes /\ what.operations = ops /\ what.migrations = work[r].migrations
          /\ what.journal = work[r].journal /\ what.actual = work[r].actual
      BY <2>1, <2>3 DEF Notes
    <2>5. Kept(r)
      <3>1. owner \in [Tables -> Resources \cup {None}] /\ Resource(r) \in Resources
        BY JobTyped DEF IInv, TypeOK
      <3>2. owner' = CASE op.type = "renameTable" -> Renamed(r, op.from, op.to)
                       [] op.type = "dropTable" -> Disowned(r, op.table)
                       [] OTHER -> owner
        BY <1>2 DEF ReconcileOwnership
      <3>3. owner' \in [Tables -> Resources \cup {None}]
        BY <2>3, <3>1, <3>2, OperationTyped DEF Renamed, Disowned
      <3>4. UNCHANGED <<tables, registry, journal, adoption, holder, ran>>
        BY <1>2 DEF ReconcileOwnership
      <3> QED BY <2>2, <3>3, <3>4, OnlyOwner, FaultTyped DEF Answered, IInv, TypeOK
    <2>6. UNCHANGED <<tables, journal, holder, ran>>
      BY <1>2 DEF ReconcileOwnership
    <2> HIDE DEF what
    <2>7. CASE Goto(r, where) /\ Note(r, what)
      <3>1. at'[r] = where /\ work'[r] = what
        BY <2>7 DEF Goto, Note, IInv, TypeOK
      <3>2. Current(r)' = Current(r)
        BY <2>4, <3>1 DEF Current
      <3>3. Migration[Resource(r)][Current(r)] \in Seq(Operations)
        BY <2>1, CurrentTyped DEF IInv
      <3>4. /\ Len(work[r].operations) \in Nat /\ Len(ops) \in Nat
            /\ Len(Migration[Resource(r)][Current(r)]) \in Nat
        BY <2>1, <2>3, <3>3 DEF Notes
      <3>5. Position(r)' = Position(r) + 1 /\ Position(r) \in Int
        <4>1. Position(r)' = Len(Migration[Resource(r)][Current(r)]) - Len(ops) + 1
          BY <2>4, <3>1, <3>2 DEF Position
        <4>2. Position(r) = Len(Migration[Resource(r)][Current(r)]) - Len(work[r].operations) + 1
          BY DEF Position
        <4> HIDE DEF ops
        <4> QED BY <2>3, <3>4, <4>1, <4>2
      <3>6. StageAgrees(r)'
        <4>1. /\ journal[Resource(r)][Current(r)] # "none"
              /\ Len(ops) <= Len(Migration[Resource(r)][Current(r)])
              /\ Range(ops) \subseteq OperationsAt(Resource(r), Current(r))
          BY <2>1, <2>3, <3>4 DEF IInv, StageAgrees, Amid
        <4> QED BY <2>1, <2>4, <2>6, <3>1, <3>2, <4>1 DEF StageAgrees, Amid
      <3>7. ASSUME holder = r PROVE HolderAgrees(r)'
        <4>1. Untouched(r) /\ AheadIsUntouched(r)
          BY <2>1, <3>7 DEF IInv, HolderAgrees, Amid, Ending
        <4>2. Untouched(r)'
          BY <2>1, <2>4, <2>6, <3>1, <3>2, <4>1 DEF Untouched, Amid
        <4>3. AheadIsUntouched(r)'
          <5>1. DOMAIN Migration[Resource(r)][Current(r)] \subseteq Int
            BY <3>3
          <5>2. \A n \in Int : n > Position(r)' \/ n = Position(r)' => n > Position(r)
            BY <3>5
          <5> QED BY <2>6, <3>2, <4>1, <5>1, <5>2 DEF AheadIsUntouched
        <4>4. ~Altering(r)' => \A t \in Tables : work[r].actual[t] # None => tables[t] # None
          BY <2>1, <2>2, <3>1, <3>7 DEF IInv, HolderAgrees, Altering, Ending
        <4> QED BY <2>4, <2>6, <3>1, <4>2, <4>3, <4>4 DEF HolderAgrees
      <3>8. HolderAgrees(r)'
        BY <2>6, <3>7 DEF HolderAgrees
      <3> QED BY <2>4, <2>5, <2>7, <3>6, <3>8, Moves DEF Stages
    <2>8. CASE Goto(r, Caught(r)) /\ UNCHANGED work
      BY <2>5, <2>8, CaughtEnds, Fails
    <2> QED BY <2>2, <2>7, <2>8 DEF Answered
  <1> QED BY <1>1, <1>2

LEMMA AlteredTyped ==
    ASSUME IInv, NEW r \in Runs, holder = r, Operating(r),
           Operation(r).type \notin {"releaseTable", "addForeignKey"},
           ~Impossible(Operation(r), work[r].actual), Needed(r, Operation(r), work[r].actual)
    PROVE  Altered(Operation(r)) \in [Tables -> {None} \cup SUBSET Features]
  <1> DEFINE op == Operation(r)
  <1>1. tables \in [Tables -> {None} \cup SUBSET Features] /\ op \in Operations
    BY HeadTyped DEF IInv, TypeOK, Operating
  <1>2. \A t \in Tables : work[r].actual[t] # None => tables[t] # None
    BY DEF IInv, HolderAgrees, Operating, Altering, Ending
  <1> HIDE DEF op
  <1>3. CASE op.type = "renameTable"
    BY <1>1, <1>3, OperationTyped DEF Altered, op
  <1>4. CASE op.type = "dropTable"
    BY <1>1, <1>4 DEF Altered, op
  <1>5. CASE op.type = "addFeature"
    <2>1. op.table \in Tables /\ op.feature \in Features /\ tables[op.table] # None
      BY <1>1, <1>2, <1>5, OperationTyped DEF Impossible, op
    <2> QED BY <1>1, <1>5, <2>1 DEF Altered, op
  <1>6. CASE op.type = "dropFeature"
    <2>1. op.table \in Tables /\ tables[op.table] # None
      BY <1>1, <1>2, <1>6, OperationTyped DEF Needed, op
    <2> QED BY <1>1, <1>6, <2>1 DEF Altered, op
  <1>7. CASE op.type = "renameColumn"
    <2>1. op.table \in Tables /\ op.to \in Features /\ tables[op.table] # None
      BY <1>1, <1>2, <1>7, OperationTyped DEF Impossible, op
    <2> QED BY <1>1, <1>7, <2>1 DEF Altered, op
  <1>8. CASE op.type = "sql"
    BY <1>1, <1>8 DEF Altered, op
  <1> QED BY <1>1, <1>3, <1>4, <1>5, <1>6, <1>7, <1>8, OperationTyped DEF op

(* The statement a run is at: where it stands in the migration, and that   *)
(* it has not run if it is raw SQL.                                        *)
LEMMA StatementIsNew ==
    ASSUME IInv, NEW r \in Runs, holder = r, Operating(r), Operation(r).type = "sql"
    PROVE  /\ Position(r) \in DOMAIN Migration[Resource(r)][Current(r)]
           /\ ran[Resource(r)][Current(r)][Position(r)] = 0
           /\ journal[Resource(r)][Current(r)] # "none"
           /\ Current(r) \in Versions
  <1>1. at[r] = "operate" /\ work[r].migrations # {} /\ work[r].operations # <<>>
    BY DEF Operating, IInv, StageAgrees, Amid
  <1>2. /\ Migration[Resource(r)][Current(r)] \in Seq(Operations) /\ Current(r) \in Versions
        /\ Operation(r) \in Range(work[r].operations) /\ Len(work[r].operations) >= 1
    BY <1>1, CurrentTyped, HeadTyped DEF IInv
  <1>3. /\ journal[Resource(r)][Current(r)] # "none"
        /\ Len(work[r].operations) <= Len(Migration[Resource(r)][Current(r)])
        /\ Operation(r) \in OperationsAt(Resource(r), Current(r))
    BY <1>1, <1>2 DEF IInv, StageAgrees, Amid
  <1>4. Position(r) \in DOMAIN Migration[Resource(r)][Current(r)]
    <2>1. work[r].operations \in Seq(Operations)
      BY DEF IInv, TypeOK, Notes
    <2>2. Len(work[r].operations) \in Nat /\ Len(Migration[Resource(r)][Current(r)]) \in Nat
      BY <1>2, <2>1
    <2> DEFINE given == Len(Migration[Resource(r)][Current(r)])
               left == Len(work[r].operations)
    <2>3. /\ Position(r) = given - left + 1 /\ given \in Nat /\ left \in Nat
          /\ 1 <= left /\ left <= given
      BY <1>2, <1>3, <2>2 DEF Position
    <2> HIDE DEF given, left
    <2>4. Position(r) \in 1..given
      BY <2>3
    <2> QED BY <1>2, <2>4 DEF given
  <1>5. AheadIsUntouched(r)
    BY <1>1 DEF IInv, HolderAgrees, Amid
  <1> QED BY <1>1, <1>2, <1>3, <1>4, <1>5 DEF AheadIsUntouched

(* What a statement of a migration leaves of the invariant.                *)
LEMMA StatementKept ==
    ASSUME IInv, NEW r \in Runs, holder = r, Operating(r),
           Operation(r).type \notin {"releaseTable", "addForeignKey"},
           ~Impossible(Operation(r), work[r].actual), Needed(r, Operation(r), work[r].actual),
           tables' = Altered(Operation(r)),
           ran' = IF Operation(r).type # "sql" THEN ran
                  ELSE [ran EXCEPT ![Resource(r)][Current(r)][Position(r)] = IF @ = 0 THEN 1 ELSE 2],
           UNCHANGED metadata, holder' \in {holder, None},
           faults' \in 0..MaxFaults, losses' \in 0..MaxLosses
    PROVE  /\ Kept(r)
           /\ \A v \in Versions : v # Current(r) => ran'[Resource(r)][v] = ran[Resource(r)][v]
           /\ \A n : n # Position(r) => ran'[Resource(r)][Current(r)][n]
                                          = ran[Resource(r)][Current(r)][n]
  <1> DEFINE res == Resource(r)  v == Current(r)  n == Position(r)
  <1>1. tables' \in [Tables -> {None} \cup SUBSET Features]
    BY AlteredTyped
  <1>2. /\ DOMAIN ran = Resources /\ res \in Resources
        /\ \A x \in Resources : DOMAIN ran[x] = Versions
        /\ \A x \in Resources, y \in Versions : ran[x][y] \in [DOMAIN Migration[x][y] -> 0..2]
    BY JobTyped DEF IInv, TypeOK
  <1>3. \/ ran' = ran
        \/ /\ n \in DOMAIN Migration[res][v] /\ v \in Versions
           /\ ran[res][v][n] = 0 /\ journal[res][v] # "none"
           /\ ran' = [ran EXCEPT ![res][v][n] = 1]
    BY <1>2, StatementIsNew
  <1> HIDE DEF res, v, n
  <1>4. /\ DOMAIN ran' = Resources
        /\ \A x \in Resources : DOMAIN ran'[x] = Versions
        /\ \A x \in Resources, y \in Versions : ran'[x][y] \in [DOMAIN Migration[x][y] -> 0..2]
    <2>1. CASE ran' = ran
      BY <1>2, <2>1
    <2>2. CASE ran' = [ran EXCEPT ![res][v][n] = 1]
      <3>1. DOMAIN ran' = Resources /\ \A x \in Resources : DOMAIN ran'[x] = Versions
        BY <1>2, <2>2
      <3>2. ASSUME NEW x \in Resources, NEW y \in Versions
            PROVE  ran'[x][y] \in [DOMAIN Migration[x][y] -> 0..2]
        <4>1. ran'[x][y] = ran[x][y] \/ ran'[x][y] = [ran[x][y] EXCEPT ![n] = 1]
          BY <1>2, <2>2
        <4> DEFINE D == DOMAIN Migration[x][y]  S == 0..2  f == ran[x][y]
        <4>2. f \in [D -> S] /\ 1 \in S
          BY <1>2
        <4> HIDE DEF D, S, f
        <4>3. [f EXCEPT ![n] = 1] \in [D -> S]
          BY <4>2
        <4> QED BY <4>1, <4>2, <4>3 DEF D, S, f
      <3> QED BY <3>1, <3>2
    <2> QED BY <1>3, <2>1, <2>2
  <1>5. \A x \in Resources, y \in Versions : \A i \in DOMAIN Migration[x][y] :
           \/ ran'[x][y][i] = ran[x][y][i]
           \/ x = res /\ y = v /\ i = n /\ ran'[x][y][i] = 1 /\ journal[x][y] # "none"
    BY <1>2, <1>3
  <1>6. RawSqlOnce'
    BY <1>5 DEF IInv, RawSqlOnce
  <1>7. Journaled'
    BY <1>5 DEF IInv, Journaled, metadata
  <1>8. DataTyped'
    BY <1>1, <1>4 DEF DataTyped, RestTyped, IInv, TypeOK, metadata
  <1>9. Kept(r)
    BY <1>6, <1>7, <1>8 DEF Kept, metadata
  <1>10. /\ \A y \in Versions : y # v => ran'[res][y] = ran[res][y]
         /\ \A i : i # n => ran'[res][v][i] = ran[res][v][i]
    BY <1>2, <1>3
  <1> QED BY <1>9, <1>10 DEF res, v, n

LEMMA AlterTableKeeps ==
    ASSUME IInv, NEW r \in Runs, AlterTable(r)
    PROVE  IInv'
  <1>1. CASE Throw(r)
    BY <1>1, ThrowKeeps
  <1>2. CASE ~Throw(r)
    <2>1. /\ Operating(r) /\ holder = r /\ at[r] = "operate" /\ work[r].operations # <<>>
          /\ work[r] \in Notes /\ work[r].migrations # {}
          /\ Operation(r).type # "releaseTable" /\ Needed(r, Operation(r), work[r].actual)
          /\ DdlAnswered(r, "reconcile", work[r]) /\ UNCHANGED metadata
      BY <1>2 DEF AlterTable, Operating, IInv, TypeOK, StageAgrees, Amid
    <2>2. /\ holder' \in {holder, None} /\ faults' \in 0..MaxFaults /\ losses' \in 0..MaxLosses
      BY <2>1, FaultTyped DEF DdlAnswered, IInv, TypeOK
    <2>3. /\ Kept(r)
          /\ \A v \in Versions : v # Current(r) => ran'[Resource(r)][v] = ran[Resource(r)][v]
          /\ \A n : n # Position(r) => ran'[Resource(r)][Current(r)][n]
                                         = ran[Resource(r)][Current(r)][n]
      BY <1>2, <2>1, <2>2, StatementKept DEF AlterTable
    <2>4. CASE Goto(r, "reconcile") /\ Note(r, work[r]) /\ holder' = holder
      <3>1. at'[r] = "reconcile" /\ work'[r] = work[r] /\ journal' = journal /\ owner' = owner
        BY <2>1, <2>4 DEF Goto, Note, IInv, TypeOK, metadata
      <3>2. /\ Current(r)' = Current(r) /\ Position(r)' = Position(r)
            /\ Operation(r)' = Operation(r)
        BY <3>1 DEF Current, Position, Operation
      <3>3. StageAgrees(r)'
        BY <2>1, <3>1, <3>2 DEF IInv, StageAgrees, Amid
      <3>4. Untouched(r) /\ AheadIsUntouched(r)
        BY <2>1 DEF IInv, HolderAgrees, Amid, Ending
      <3>5. Untouched(r)'
        <4>1. work[r].migrations \subseteq Versions
          BY <2>1 DEF Notes
        <4> QED BY <2>1, <2>3, <3>1, <3>2, <3>4, <4>1 DEF Untouched, Amid
      <3>6. AheadIsUntouched(r)'
        <4>1. Position(r) \in Int
          <5>1. Len(work[r].operations) \in Nat
            BY <2>1 DEF Notes
          <5>2. Len(Migration[Resource(r)][Current(r)]) \in Nat
            BY <2>1, CurrentTyped DEF IInv
          <5> QED BY <5>1, <5>2 DEF Position
        <4>2. DOMAIN Migration[Resource(r)][Current(r)] \subseteq Int
          BY <2>1, CurrentTyped DEF IInv
        <4>3. \A n \in Int : n > Position(r) => n # Position(r)
          BY <4>1
        <4> QED BY <2>1, <2>3, <3>1, <3>2, <3>4, <4>2, <4>3 DEF AheadIsUntouched
      <3>7. Altering(r)'
        <4>1. Needed(r, Operation(r), work[r].actual)' <=> Needed(r, Operation(r), work[r].actual)
          BY <3>1, <3>2 DEF Needed
        <4> QED BY <2>1, <3>1, <3>2, <4>1 DEF Altering
      <3>8. HolderAgrees(r)'
        BY <3>1, <3>5, <3>6, <3>7 DEF HolderAgrees
      <3> QED BY <2>1, <2>3, <2>4, <3>3, <3>8, Moves DEF Stages
    <2>5. CASE Goto(r, Caught(r)) /\ UNCHANGED work
      BY <2>3, <2>5, CaughtEnds, Fails
    <2> QED BY <2>1, <2>4, <2>5 DEF DdlAnswered
  <1> QED BY <1>1, <1>2

LEMMA AddOnlineForeignKeyKeeps ==
    ASSUME IInv, NEW r \in Runs, AddOnlineForeignKey(r)
    PROVE  IInv'
  <1> DEFINE op == Operation(r)
  <1>1. CASE Throw(r)
    BY <1>1, ThrowKeeps
  <1>2. CASE ~Throw(r)
    <2>1. /\ at[r] = "operate" /\ work[r].operations # <<>> /\ work[r] \in Notes
          /\ op.type = "addForeignKey" /\ Needed(r, op, work[r].actual)
          /\ tables[op.table] # None /\ tables' = Altered(op)
          /\ Answered(r, "reconcile", work[r])
          /\ UNCHANGED <<owner, registry, journal, adoption, holder, ran>>
      BY <1>2 DEF AddOnlineForeignKey, Operating, IInv, TypeOK, metadata
    <2>2. op.table \in Tables /\ op.feature \in Features
      BY <2>1, HeadTyped, OperationTyped DEF IInv
    <2>3. tables' = [tables EXCEPT ![op.table] = @ \cup {op.feature}]
      BY <2>1 DEF Altered
    <2>4. tables \in [Tables -> {None} \cup SUBSET Features]
      BY DEF IInv, TypeOK
    <2> HIDE DEF op
    <2>5. tables' \in [Tables -> {None} \cup SUBSET Features]
      BY <2>1, <2>2, <2>3, <2>4
    <2>6. \A t \in Tables : tables[t] # None => tables'[t] # None
      <3>1. \A fs \in SUBSET Features : fs # None
        BY SchemaAssumption
      <3> QED BY <2>1, <2>2, <2>3, <2>4, <3>1
    <2>7. Kept(r)
      BY <2>1, <2>5, <2>6, FaultTyped
        DEF Answered, IInv, TypeOK, Kept, DataTyped, RestTyped, RawSqlOnce, Journaled
    <2>8. CASE Goto(r, "reconcile") /\ Note(r, work[r])
      <3>1. at'[r] = "reconcile" /\ work'[r] = work[r]
        BY <2>8 DEF Goto, Note, IInv, TypeOK
      <3>2. /\ StageAgrees(r)' /\ (holder = r => Untouched(r)' /\ AheadIsUntouched(r)')
            /\ Operation(r)' = Operation(r)
        BY <2>1, <3>1, AmidSame DEF Amid
      <3>3. holder = r => \A t \in Tables : work[r].actual[t] # None => tables[t] # None
        BY <2>1 DEF IInv, HolderAgrees, Altering, Ending
      <3>4. HolderAgrees(r)'
        BY <2>1, <2>6, <3>1, <3>2, <3>3 DEF HolderAgrees
      <3> QED BY <2>1, <2>7, <2>8, <3>2, <3>4, Moves DEF Stages
    <2>9. CASE Goto(r, Caught(r)) /\ UNCHANGED work
      BY <2>7, <2>9, CaughtEnds, Fails
    <2> QED BY <2>1, <2>8, <2>9 DEF Answered
  <1> QED BY <1>1, <1>2

LEMMA JournalOnly ==
    ASSUME IInv, NEW r \in Runs, NEW status \in Statuses \ {"none"}, Journal(r, status),
           faults' \in 0..MaxFaults, losses' \in 0..MaxLosses
    PROVE  Kept(r) /\ UNCHANGED <<tables, ran, holder>>
  BY JournalKept DEF IInv, TypeOK, Kept, DataTyped, RestTyped

LEMMA CompleteMigrationKeeps ==
    ASSUME IInv, NEW r \in Runs, CompleteMigration(r)
    PROVE  IInv'
  <1> DEFINE what == [work[r] EXCEPT !.migrations = @ \ {Current(r)}]
  <1>1. /\ at[r] = "operate" /\ work[r] \in Notes
        /\ Journal(r, "success") /\ Answered(r, "reread", what)
    BY DEF CompleteMigration, IInv, TypeOK
  <1>2. /\ what \in Notes /\ what.migrations = work[r].migrations \ {Current(r)}
        /\ what.journal = work[r].journal /\ what.actual = work[r].actual
    BY <1>1 DEF Notes
  <1>3. Kept(r) /\ UNCHANGED <<tables, ran, holder>>
    BY <1>1, JournalOnly, FaultTyped DEF Answered, Statuses, IInv, TypeOK
  <1> HIDE DEF what
  <1>4. CASE Goto(r, "reread") /\ Note(r, what)
    <2>1. at'[r] = "reread" /\ work'[r] = what
      BY <1>4 DEF Goto, Note, IInv, TypeOK
    <2>2. StageAgrees(r)'
      BY <2>1 DEF StageAgrees, Amid
    <2>3. holder = r => Untouched(r) /\ \A t \in Tables : work[r].actual[t] # None => tables[t] # None
      BY <1>1 DEF IInv, HolderAgrees, Altering, Ending
    <2>4. Untouched(r) => Untouched(r)'
      BY <1>1, <1>2, <1>3, <2>1 DEF Untouched, Amid
    <2>5. HolderAgrees(r)'
      BY <1>2, <1>3, <2>1, <2>3, <2>4 DEF HolderAgrees, Amid
    <2> QED BY <1>2, <1>3, <1>4, <2>2, <2>5, Moves DEF Stages
  <1>5. CASE Goto(r, Caught(r)) /\ UNCHANGED work
    BY <1>3, <1>5, CaughtEnds, Fails
  <1> QED BY <1>1, <1>4, <1>5 DEF Answered

LEMMA FailMigrationKeeps ==
    ASSUME IInv, NEW r \in Runs, FailMigration(r)
    PROVE  IInv'
  <1>1. Goto(r, Outwards(r)) /\ UNCHANGED work
    BY DEF FailMigration
  <1>2. CASE Journal(r, "failed") /\ UNCHANGED <<faults, losses>>
    <2>1. Kept(r)
      BY <1>2, JournalOnly DEF Statuses, IInv, TypeOK
    <2> QED BY <1>1, <2>1, CaughtEnds, Fails
  <1>3. CASE Fault /\ UNCHANGED <<tables, metadata, holder, ran>>
    <2>1. Quiet(r)
      BY <1>3, FaultTyped DEF Quiet, RestTyped, IInv, TypeOK, metadata
    <2> QED BY <1>1, <2>1, CaughtEnds, QuietEnd
  <1> QED BY <1>2, <1>3 DEF FailMigration

LEMMA ChangesTyped ==
    ASSUME NEW r \in Runs, NEW actual \in [Tables -> {None} \cup SUBSET Features],
           NEW c \in Changes(r, actual)
    PROVE  /\ c \in [table : Tables, feature : Features \cup {None}]
           /\ c.table \in DOMAIN Wanted(r)
           /\ c.feature # None => actual[c.table] # None
  <1>1. DOMAIN Wanted(r) \subseteq Tables /\ \A t \in DOMAIN Wanted(r) : Wanted(r)[t] \subseteq Features
    BY JobTyped
  <1>2. CASE \E t \in DOMAIN Wanted(r) : c = [table |-> t, feature |-> None]
    BY <1>1, <1>2
  <1>3. CASE \E t \in DOMAIN Wanted(r) : /\ actual[t] # None
                /\ \E f \in Wanted(r)[t] : c = [table |-> t, feature |-> f]
    BY <1>1, <1>3
  <1> QED BY <1>2, <1>3 DEF Changes

LEMMA PlanChangesKeeps ==
    ASSUME IInv, NEW r \in Runs, PlanChanges(r)
    PROVE  IInv'
  <1> DEFINE plan == Changes(r, work[r].actual)
             what == [work[r] EXCEPT !.plan = plan, !.claims = Created(plan)]
  <1>1. CASE Throw(r)
    BY <1>1, ThrowKeeps
  <1>2. ASSUME NEW where \in {"claim", "apply"}, Reads(r, where, what)
        PROVE  IInv'
    <2>1. work[r] \in Notes /\ at[r] = "migrate"
      BY DEF IInv, TypeOK, PlanChanges
    <2>2. \A c \in plan : /\ c \in [table : Tables, feature : Features \cup {None}]
                          /\ c.table \in DOMAIN Wanted(r)
                          /\ c.feature # None => work[r].actual[c.table] # None
      BY <2>1, ChangesTyped DEF Notes
    <2> HIDE DEF plan
    <2>3. Created(plan) \subseteq Tables
      BY <2>2 DEF Created
    <2>4. /\ what \in Notes /\ what.migrations = work[r].migrations /\ what.plan = plan
          /\ what.journal = work[r].journal /\ what.actual = work[r].actual
      BY <2>1, <2>2, <2>3 DEF Notes
    <2> HIDE DEF what
    <2>5. /\ at'[r] = where /\ work'[r] = what
          /\ UNCHANGED <<tables, owner, registry, journal, adoption, holder, ran, faults, losses>>
      BY <1>2 DEF Reads, Goto, Note, IInv, TypeOK, metadata
    <2>6. Kept(r)
      BY <2>5, OnlyOwner DEF IInv, TypeOK
    <2>7. StageAgrees(r)'
      BY <2>2, <2>4, <2>5 DEF StageAgrees, Amid
    <2>8. ASSUME holder = r PROVE HolderAgrees(r)'
      <3>1. Untouched(r) /\ \A t \in Tables : work[r].actual[t] # None => tables[t] # None
        BY <2>1, <2>8 DEF IInv, HolderAgrees, Altering, Ending
      <3>2. Untouched(r)'
        BY <2>1, <2>4, <2>5, <3>1 DEF Untouched, Amid
      <3>3. \A t \in Tables : work'[r].actual[t] # None => tables'[t] # None
        BY <2>4, <2>5, <3>1
      <3>4. \A c \in work'[r].plan : c.feature # None => tables'[c.table] # None
        BY <2>2, <2>4, <2>5, <3>1
      <3> QED BY <2>5, <3>2, <3>3, <3>4 DEF HolderAgrees, Amid
    <2>9. HolderAgrees(r)'
      BY <2>5, <2>8 DEF HolderAgrees
    <2> QED BY <1>2, <2>4, <2>6, <2>7, <2>9, Moves DEF Reads, Stages
  <1>3. Throw(r) \/ \E where \in {"claim", "apply"} : Reads(r, where, what)
    BY DEF PlanChanges, ClaimFirst
  <1> QED BY <1>1, <1>2, <1>3

LEMMA ApplyChangeKeeps ==
    ASSUME IInv, NEW r \in Runs, ApplyChange(r)
    PROVE  IInv'
  <1>1. CASE Throw(r)
    BY <1>1, ThrowKeeps
  <1>2. CASE ~Throw(r)
    <2>1. PICK c \in work[r].plan :
             /\ holder = r
             /\ tables' = [tables EXCEPT ![c.table] =
                              IF c.feature = None THEN Wanted(r)[c.table] ELSE @ \cup {c.feature}]
             /\ DdlAnswered(r, "apply", [work[r] EXCEPT !.plan = @ \ {c}])
             /\ UNCHANGED <<metadata, ran>>
      BY <1>2 DEF ApplyChange
    <2> DEFINE what == [work[r] EXCEPT !.plan = @ \ {c}]
    <2>2. /\ at[r] = "apply" /\ work[r] \in Notes
          /\ tables \in [Tables -> {None} \cup SUBSET Features]
      BY DEF ApplyChange, IInv, TypeOK
    <2>3. /\ what \in Notes /\ what.migrations = work[r].migrations
          /\ what.plan = work[r].plan \ {c}
          /\ what.journal = work[r].journal /\ what.actual = work[r].actual
      BY <2>2 DEF Notes
    <2>4. /\ c.table \in Tables /\ c.feature \in Features \cup {None}
          /\ c.table \in DOMAIN Wanted(r) /\ (c.feature # None => tables[c.table] # None)
      BY <2>1, <2>2 DEF Notes, IInv, StageAgrees, HolderAgrees
    <2>5. Wanted(r)[c.table] \in SUBSET Features
      BY <2>4, JobTyped
    <2> HIDE DEF what
    <2>6. tables' \in [Tables -> {None} \cup SUBSET Features]
      BY <2>1, <2>2, <2>4, <2>5
    <2>7. \A t \in Tables : tables[t] # None => tables'[t] # None
      <3>1. \A fs \in SUBSET Features : fs # None
        BY SchemaAssumption
      <3> QED BY <2>1, <2>2, <2>4, <2>5, <3>1
    <2>8. /\ holder' \in {holder, None} /\ faults' \in 0..MaxFaults /\ losses' \in 0..MaxLosses
      BY <2>1, FaultTyped DEF DdlAnswered, IInv, TypeOK
    <2>9. Kept(r)
      BY <2>1, <2>6, <2>7, <2>8
        DEF IInv, TypeOK, Kept, DataTyped, RestTyped, RawSqlOnce, Journaled, metadata
    <2>10. CASE Goto(r, "apply") /\ Note(r, what) /\ holder' = holder
      <3>1. at'[r] = "apply" /\ work'[r] = what /\ ran' = ran
        BY <2>1, <2>10 DEF Goto, Note, IInv, TypeOK
      <3>2. StageAgrees(r)'
        BY <2>2, <2>3, <3>1 DEF IInv, StageAgrees, Amid
      <3>3. /\ Untouched(r) /\ \A t \in Tables : work[r].actual[t] # None => tables[t] # None
            /\ \A d \in work[r].plan : d.feature # None => tables[d.table] # None
        BY <2>1, <2>2 DEF IInv, HolderAgrees, Altering, Ending
      <3>4. Untouched(r)'
        BY <2>2, <2>3, <3>1, <3>3 DEF Untouched, Amid
      <3>5. \A t \in Tables : work'[r].actual[t] # None => tables'[t] # None
        BY <2>3, <2>7, <3>1, <3>3
      <3>6. \A d \in work'[r].plan : d.feature # None => tables'[d.table] # None
        <4>1. \A d \in work[r].plan : d.table \in Tables
          BY <2>2 DEF Notes
        <4> QED BY <2>3, <2>7, <3>1, <3>3, <4>1
      <3>7. HolderAgrees(r)'
        BY <3>1, <3>4, <3>5, <3>6 DEF HolderAgrees, Amid
      <3> QED BY <2>3, <2>9, <2>10, <3>2, <3>7, Moves DEF Stages
    <2>11. CASE Goto(r, Caught(r)) /\ UNCHANGED work
      BY <2>9, <2>11, CaughtEnds, Fails
    <2> QED BY <2>1, <2>10, <2>11 DEF DdlAnswered, what
  <1> QED BY <1>1, <1>2

(* A call that is over: the lock is given back, or died with the process.  *)
LEMMA OverKeeps ==
    ASSUME IInv, NEW r \in Runs, holder' = Freed(r), Goto(r, "idle"), Note(r, Blank),
           UNCHANGED <<tables, metadata, ran>>,
           faults' \in 0..MaxFaults, losses' \in 0..MaxLosses
    PROVE  IInv'
  <1>1. Blank \in Notes
    BY SchemaAssumption DEF Blank, Notes, Nothing, Fresh, Statuses
  <1>2. at'[r] = "idle" /\ work'[r] = Blank /\ holder' # r /\ holder' \in {holder, None}
    BY SchemaAssumption DEF Goto, Note, IInv, TypeOK, Freed
  <1>3. Kept(r)
    BY <1>2 DEF IInv, TypeOK, Kept, DataTyped, RestTyped, RawSqlOnce, Journaled, metadata
  <1>4. StageAgrees(r)' /\ HolderAgrees(r)'
    BY <1>2 DEF StageAgrees, HolderAgrees, Amid, Blank, Fresh, Nothing
  <1> QED BY <1>1, <1>3, <1>4, Moves DEF Stages

LEMMA ReleaseLockKeeps ==
    ASSUME IInv, NEW r \in Runs, ReleaseLock(r)
    PROVE  IInv'
  BY OverKeeps DEF ReleaseLock, IInv, TypeOK

LEMMA CrashKeeps ==
    ASSUME IInv, NEW r \in Runs, Crash(r)
    PROVE  IInv'
  BY OverKeeps, FaultTyped DEF Crash, IInv

LEMMA RefusedKeeps ==
    ASSUME IInv, NEW r \in Runs, Refused(r)
    PROVE  IInv'
  <1>1. Quiet(r)
    BY FaultTyped DEF Refused, Quiet, RestTyped, IInv, TypeOK, metadata
  <1> QED BY <1>1, CaughtEnds, QuietEnd DEF Refused

LEMMA LoseSessionKeeps ==
    ASSUME IInv, NEW r \in Runs, LoseSession(r)
    PROVE  IInv'
  <1>1. /\ holder' = None /\ r # None
        /\ UNCHANGED <<tables, owner, registry, journal, adoption, at, work, ran>>
    BY SchemaAssumption DEF LoseSession, metadata
  <1>2. at[r] \in Stages /\ work[r] \in Notes /\ Goto(r, at[r]) /\ Note(r, work[r])
    BY <1>1 DEF IInv, TypeOK, Goto, Note
  <1>3. Kept(r)
    BY <1>1, FaultTyped
      DEF LoseSession, IInv, TypeOK, Kept, DataTyped, RestTyped, RawSqlOnce, Journaled
  <1>4. HolderAgrees(r)'
    BY <1>1 DEF HolderAgrees
  <1>5. StageAgrees(r)'
    <2>1. StageAgrees(r) /\ Current(r)' = Current(r)
      BY <1>1 DEF IInv, Current
    <2> QED BY <1>1, <2>1 DEF StageAgrees, Resumable, Amid, Blank
  <1> QED BY <1>2, <1>3, <1>4, <1>5, Moves

-----------------------------------------------------------------------------
LEMMA InitInvariant == Init => IInv
  <1> SUFFICES ASSUME Init PROVE IInv
    OBVIOUS
  <1>1. /\ MaxVersion \in Nat /\ MaxFaults \in Nat /\ MaxLosses \in Nat
        /\ 0 \in 0..MaxVersion
    BY SchemaAssumption
  <1>2. Fresh \in [Versions -> Statuses] /\ Nothing \in [Tables -> {None} \cup SUBSET Features]
    BY DEF Fresh, Statuses, Nothing
  <1>3. Blank \in Notes /\ Unadopted \in [status : Statuses, baseline : Nat, target : 0..MaxVersion]
    BY <1>1, <1>2 DEF Blank, Notes, Unadopted, Statuses
  <1>4. tables \in [Tables -> {None} \cup SUBSET Features]
    BY SchemaAssumption DEF Init
  <1>5. Blank.registry \in [version : 0..MaxVersion, tables : SUBSET Tables]
    BY <1>1 DEF Blank
  <1>6. /\ DOMAIN ran = Resources
        /\ \A res \in Resources : /\ DOMAIN ran[res] = Versions
                                  /\ \A v \in Versions :
                                        /\ ran[res][v] \in [DOMAIN Migration[res][v] -> 0..2]
                                        /\ \A n \in DOMAIN Migration[res][v] : ran[res][v][n] = 0
    BY DEF Init
  <1>7. TypeOK
    BY <1>1, <1>2, <1>3, <1>4, <1>5, <1>6 DEF TypeOK, Init, Nothing, Stages
  <1>8. RawSqlOnce /\ Journaled
    BY <1>6 DEF RawSqlOnce, Journaled
  <1>9. ASSUME NEW r \in Runs PROVE StageAgrees(r) /\ HolderAgrees(r)
    <2>1. at[r] = "idle" /\ work[r] = Blank /\ holder # r
      BY SchemaAssumption DEF Init
    <2> QED BY <2>1 DEF StageAgrees, HolderAgrees, Amid
  <1> QED BY <1>7, <1>8, <1>9 DEF IInv

LEMMA StutterKeeps ==
    ASSUME IInv, UNCHANGED vars
    PROVE  IInv'
  <1>1. UNCHANGED <<tables, owner, registry, journal, adoption, holder, at, work, ran,
                    faults, losses>>
    BY DEF vars, metadata
  <1>2. TypeOK' /\ RawSqlOnce' /\ Journaled'
    BY <1>1 DEF IInv, TypeOK, RawSqlOnce, Journaled
  <1>3. ASSUME NEW r \in Runs PROVE StageAgrees(r)' /\ HolderAgrees(r)'
    <2>1. StageAgrees(r) /\ HolderAgrees(r)
      BY DEF IInv
    <2>2. /\ Current(r)' = Current(r) /\ Position(r)' = Position(r)
          /\ Operation(r)' = Operation(r)
      BY <1>1 DEF Current, Position, Operation
    <2>3. StageAgrees(r)'
      BY <1>1, <2>1, <2>2 DEF StageAgrees, Resumable
    <2>4. /\ Untouched(r)' <=> Untouched(r)
          /\ AheadIsUntouched(r)' <=> AheadIsUntouched(r)
      BY <1>1, <2>2 DEF Untouched, AheadIsUntouched
    <2>5. Altering(r)' <=> Altering(r)
      BY <1>1, <2>2 DEF Altering, Needed
    <2> QED BY <1>1, <2>1, <2>3, <2>4, <2>5 DEF HolderAgrees
  <1> QED BY <1>2, <1>3 DEF IInv

LEMMA NextInvariant == IInv /\ [Next]_vars => IInv'
  <1>1. ASSUME IInv, NEW r \in Runs, Step(r) PROVE IInv'
    BY <1>1, ReadRegistryKeeps, ReadAdoptionKeeps, ReadJournalKeeps,
       CheckOwnershipKeeps, IntrospectKeeps, RefuseImplicitAdoptionKeeps,
       WriteAdoptionBaselineKeeps, StartMigrationKeeps, BeginMigrationKeeps,
       SkipOperationKeeps, AlterTableKeeps, AddOnlineForeignKeyKeeps, ReleaseTableKeeps,
       ReconcileOwnershipKeeps, CompleteMigrationKeeps, FailMigrationKeeps,
       PlanChangesKeeps, ClaimTableKeeps, ApplyChangeKeeps, VerifyKeeps,
       WriteRegistryKeeps, FinishAdoptionKeeps, FailAdoptionKeeps, ReleaseLockKeeps
    DEF Step
  <1>2. ASSUME IInv, Next PROVE IInv'
    BY <1>1, <1>2, AcquireLockKeeps, RefusedKeeps, LoseSessionKeeps, CrashKeeps DEF Next
  <1> QED BY <1>2, StutterKeeps

(* The invariant that the two theorems below follow from: what has run is  *)
(* journaled, and what the holder of the lock has read stays true of the   *)
(* statements it has still to run.                                         *)
THEOREM Inductive == Spec => []IInv
  BY InitInvariant, NextInvariant, PTL DEF Spec

(* Every variable keeps its type.                                          *)
THEOREM TypeCorrect == Spec => []TypeOK
  <1>1. IInv => TypeOK
    BY DEF IInv
  <1> QED BY <1>1, Inductive, PTL

(* No raw SQL statement of a migration takes effect twice: applyMigration()*)
(* journals the migration before its first statement, and a later attempt  *)
(* that finds the row refuses to go on.  This needs the lock only until    *)
(* the statement: whoever lost it is stopped by runOn().                   *)
THEOREM RawSqlRunsOnce == Spec => []RawSqlOnce
  <1>1. IInv => RawSqlOnce
    BY DEF IInv
  <1> QED BY <1>1, Inductive, PTL


-----------------------------------------------------------------------------
(* A step of r other than the one that takes the lock and the one that     *)
(* writes the registry row.                                                *)
Onward(r, where) ==
    /\ Goto(r, where) /\ UNCHANGED registry
    /\ losses' = 0 => losses = 0 /\ holder' \in {holder, Freed(r)}
    /\ losses' = 0 /\ where # "idle" => holder' = holder
    /\ where \in {"idle"} \cup Ending
         \/ at[r] \notin {"idle", "registry"} \cup Ending
         \/ registry[Resource(r)].version <= Job[r].version
    /\ at[r] = "idle" => where = "idle"

LEMMA OnwardForward ==
    ASSUME TypeOK, ForwardInv, NEW r \in Runs, NEW where, Onward(r, where)
    PROVE  ForwardInv'
  <1> SUFFICES ASSUME losses' = 0, NEW u \in Runs
               PROVE  /\ at'[u] # "idle" => holder' = u
                      /\ at'[u] \notin {"idle", "registry"} \cup Ending =>
                            registry'[Resource(u)].version <= Job[u].version
    BY DEF ForwardInv, Resource
  <1>1. losses = 0 /\ registry' = registry
    BY DEF Onward
  <1>2. at'[r] = where /\ \A n \in Runs \ {r} : at'[n] = at[n]
    BY DEF Onward, Goto, TypeOK
  <1>3. CASE u = r
    BY <1>1, <1>2, <1>3 DEF Onward, ForwardInv
  <1>4. CASE u # r
    <2>1. at'[u] # "idle" => holder' = u
      BY <1>1, <1>2, <1>4 DEF Onward, ForwardInv, Freed
    <2> QED BY <1>1, <1>2, <1>4, <2>1 DEF ForwardInv
  <1> QED BY <1>3, <1>4

(* The forms a step takes, for a run that has read the registry row.       *)
Under(r) == at[r] \notin {"idle", "registry"} \cup Ending

LEMMA Counted ==
    ASSUME TypeOK
    PROVE  /\ Loss => losses' # 0
           /\ Fault \/ UNCHANGED <<faults, losses>> => losses' = losses
  <1>1. losses \in Nat
    BY SchemaAssumption DEF TypeOK
  <1> QED BY <1>1 DEF Loss, Fault

LEMMA EndOnward ==
    ASSUME TypeOK, NEW r \in Runs, NEW where \in Ending, Goto(r, where), at[r] # "idle",
           UNCHANGED <<registry, holder>>, losses' = losses
    PROVE  Onward(r, where)
  BY DEF Onward

LEMMA ThrowOnward ==
    ASSUME TypeOK, NEW r \in Runs, at[r] # "idle", Throw(r)
    PROVE  \E where : Onward(r, where)
  <1>1. Caught(r) \in Ending
    BY DEF Caught, Outwards, Ending
  <1> QED BY <1>1, EndOnward DEF Throw, metadata

LEMMA ReadsOnward ==
    ASSUME NEW r \in Runs, NEW where, NEW what, Reads(r, where, what), Under(r)
    PROVE  Onward(r, where)
  BY DEF Reads, Onward, Under, metadata

LEMMA AnsweredOnward ==
    ASSUME TypeOK, NEW r \in Runs, NEW where, NEW what, Answered(r, where, what), Under(r),
           UNCHANGED <<registry, holder>>
    PROVE  \E there : Onward(r, there)
  <1>1. losses' = losses
    BY Counted DEF Answered
  <1>2. PICK there : Goto(r, there)
    BY DEF Answered
  <1>3. Onward(r, there)
    BY <1>1, <1>2 DEF Onward, Under
  <1> QED BY <1>3

LEMMA DdlAnsweredOnward ==
    ASSUME TypeOK, NEW r \in Runs, NEW where, NEW what, DdlAnswered(r, where, what), Under(r),
           UNCHANGED registry
    PROVE  losses' # 0 \/ \E there : Onward(r, there)
  BY Counted DEF DdlAnswered, Onward, Under

LEMMA StepOnward ==
    ASSUME TypeOK, NEW r \in Runs, Step(r), ~WriteRegistry(r)
    PROVE  losses' # 0 \/ \E where : Onward(r, where)
  <1>1. CASE ReadRegistry(r)
    <2> DEFINE where == IF Adopts(r) THEN "adoption" ELSE "journal"
               what == [work[r] EXCEPT !.registry = registry[Resource(r)]]
    <2>1. CASE Throw(r)
      BY <1>1, <2>1, ThrowOnward DEF ReadRegistry
    <2>2. CASE /\ Reads(r, where, what)
               /\ IF Adopts(r) THEN registry[Resource(r)].version = 0
                  ELSE ~(registry[Resource(r)].version > Job[r].version)
      <3>1. registry[Resource(r)].version <= Job[r].version
        <4>1. Job[r].version \in Nat /\ registry[Resource(r)].version \in Nat
          BY JobTyped DEF TypeOK, Versions
        <4> QED BY <2>2, <4>1
      <3>2. at[r] = "registry" /\ where \notin {"idle"} \cup Ending
        BY <1>1 DEF ReadRegistry, Ending
      <3> HIDE DEF what
      <3>3. Onward(r, where)
        BY <2>2, <3>1, <3>2 DEF Reads, Onward, metadata
      <3> QED BY <3>3
    <2> QED BY <1>1, <2>1, <2>2 DEF ReadRegistry
  <1>2. CASE ReadAdoption(r)
    BY <1>2, ThrowOnward, ReadsOnward DEF ReadAdoption, Under, Ending
  <1>3. CASE ReadJournal(r)
    BY <1>3, ThrowOnward, ReadsOnward DEF ReadJournal, Under, Ending
  <1>4. CASE CheckOwnership(r)
    BY <1>4, ThrowOnward, ReadsOnward DEF CheckOwnership, Under, Ending
  <1>5. CASE Introspect(r)
    BY <1>5, ReadsOnward DEF Introspect, Under, Ending
  <1>6. CASE RefuseImplicitAdoption(r)
    BY <1>6, ThrowOnward, ReadsOnward DEF RefuseImplicitAdoption, Under, Ending
  <1>7. CASE WriteAdoptionBaseline(r)
    BY <1>7, ThrowOnward, AnsweredOnward DEF WriteAdoptionBaseline, Under, Ending
  <1>8. CASE StartMigration(r)
    BY <1>8, ThrowOnward, ReadsOnward DEF StartMigration, Under, Ending
  <1>9. CASE BeginMigration(r)
    BY <1>9, AnsweredOnward DEF BeginMigration, Journal, Under, Ending
  <1>10. CASE SkipOperation(r)
    BY <1>10, ThrowOnward, ReadsOnward DEF SkipOperation, Operating, Under, Ending
  <1>11. CASE AlterTable(r)
    BY <1>11, ThrowOnward, DdlAnsweredOnward
      DEF AlterTable, Operating, Under, Ending, metadata
  <1>12. CASE AddOnlineForeignKey(r)
    BY <1>12, ThrowOnward, AnsweredOnward
      DEF AddOnlineForeignKey, Operating, Under, Ending, metadata
  <1>13. CASE ReleaseTable(r)
    BY <1>13, AnsweredOnward DEF ReleaseTable, Operating, Under, Ending
  <1>14. CASE ReconcileOwnership(r)
    BY <1>14, ThrowOnward, AnsweredOnward DEF ReconcileOwnership, Under, Ending
  <1>15. CASE CompleteMigration(r)
    BY <1>15, AnsweredOnward DEF CompleteMigration, Journal, Under, Ending
  <1>16. CASE FailMigration(r)
    <2>1. Outwards(r) \in Ending /\ at[r] # "idle" /\ UNCHANGED <<registry, holder>>
      BY <1>16 DEF FailMigration, Outwards, Ending, Journal, metadata
    <2>2. losses' = losses
      BY <1>16, Counted DEF FailMigration
    <2> QED BY <1>16, <2>1, <2>2, EndOnward DEF FailMigration
  <1>17. CASE PlanChanges(r)
    BY <1>17, ThrowOnward, ReadsOnward DEF PlanChanges, Under, Ending
  <1>18. CASE ClaimTable(r)
    BY <1>18, ThrowOnward, AnsweredOnward DEF ClaimTable, Under, Ending
  <1>19. CASE ApplyChange(r)
    BY <1>19, ThrowOnward, DdlAnsweredOnward DEF ApplyChange, Under, Ending, metadata
  <1>20. CASE Verify(r)
    BY <1>20, ThrowOnward, ReadsOnward DEF Verify, Under, Ending
  <1>21. CASE FinishAdoption(r)
    BY <1>21, AnsweredOnward DEF FinishAdoption, AdoptionStatus, Under, Ending
  <1>22. CASE FailAdoption(r)
    <2>1. UNCHANGED <<registry, holder>> /\ at[r] # "idle"
      BY <1>22 DEF FailAdoption, AdoptionStatus, metadata
    <2>2. losses' = losses
      BY <1>22, Counted DEF FailAdoption
    <2> QED BY <1>22, <2>1, <2>2, EndOnward DEF FailAdoption, Ending
  <1>23. CASE ReleaseLock(r)
    BY <1>23 DEF ReleaseLock, Onward, metadata
  <1> QED BY <1>1, <1>2, <1>3, <1>4, <1>5, <1>6, <1>7, <1>8, <1>9, <1>10, <1>11, <1>12,
             <1>13, <1>14, <1>15, <1>16, <1>17, <1>18, <1>19, <1>20, <1>21, <1>22, <1>23
         DEF Step

(* The two steps that are not of this kind.                                *)
LEMMA AcquireLockForward ==
    ASSUME TypeOK, ForwardInv, NEW r \in Runs, AcquireLock(r)
    PROVE  ForwardInv'
  <1>1. /\ holder = None /\ r # None /\ losses' = losses /\ registry' = registry
        /\ holder' = r /\ at'[r] = "registry" /\ \A n \in Runs \ {r} : at'[n] = at[n]
    BY SchemaAssumption DEF AcquireLock, Goto, TypeOK, metadata
  <1>2. losses = 0 => \A n \in Runs : at[n] = "idle"
    BY <1>1, SchemaAssumption DEF ForwardInv
  <1> QED BY <1>1, <1>2 DEF ForwardInv

LEMMA WriteRegistryForward ==
    ASSUME TypeOK, ForwardInv, NEW r \in Runs, WriteRegistry(r)
    PROVE  ForwardInv' /\ (losses' = 0 =>
              \A res \in Resources : registry'[res].version >= registry[res].version)
  <1>1. losses' = losses /\ holder' = holder /\ at[r] = "register"
    BY Counted DEF WriteRegistry, Answered
  <1>2. at' = [at EXCEPT ![r] = at'[r]]
    BY DEF WriteRegistry, Answered, Goto, TypeOK
  <1>3. /\ Resource(r) \in Resources /\ Job[r].version \in Nat
        /\ \A res \in Resources : registry[res].version \in Nat
        /\ registry' = [registry EXCEPT ![Resource(r)] =
              [version |-> Job[r].version, tables |-> DOMAIN Wanted(r)]]
        /\ DOMAIN registry = Resources
    BY JobTyped DEF WriteRegistry, TypeOK, Versions
  <1>4. registry'[Resource(r)].version = Job[r].version
    BY <1>3
  <1>5. ASSUME losses' = 0, NEW u \in Runs
        PROVE  /\ at'[u] # "idle" => holder' = u
               /\ at'[u] \notin {"idle", "registry"} \cup Ending =>
                     registry'[Resource(u)].version <= Job[u].version
    <2>1. holder = r /\ (u # r => at'[u] = "idle")
      BY <1>1, <1>2, <1>5 DEF ForwardInv, TypeOK
    <2> QED BY <1>1, <1>3, <1>4, <2>1
  <1>6. ASSUME losses' = 0, NEW res \in Resources
        PROVE  registry'[res].version >= registry[res].version
    <2>1. registry[Resource(r)].version <= Job[r].version
      BY <1>1, <1>6 DEF ForwardInv, Ending
    <2> QED BY <1>3, <1>4, <2>1
  <1> QED BY <1>5, <1>6 DEF ForwardInv

(* What a step does to the registry and to ForwardInv.                     *)
LEMMA NextForward ==
    ASSUME TypeOK, ForwardInv, [Next]_vars
    PROVE  ForwardInv' /\ (losses' = 0 =>
              \A res \in Resources : registry'[res].version >= registry[res].version)
  <1>1. \A res \in Resources : registry[res].version >= registry[res].version
    BY SchemaAssumption DEF TypeOK
  <1>2. ASSUME NEW r \in Runs, NEW where, Onward(r, where) PROVE ForwardInv' /\ registry' = registry
    BY <1>2, OnwardForward DEF Onward
  <1>3. ASSUME losses' # 0 PROVE ForwardInv'
    BY <1>3 DEF ForwardInv
  <1>4. ASSUME NEW r \in Runs, Step(r), ~WriteRegistry(r)
        PROVE  ForwardInv' /\ (losses' = 0 => registry' = registry)
    BY <1>2, <1>3, <1>4, StepOnward
  <1>5. ASSUME NEW r \in Runs, Refused(r) PROVE Onward(r, Caught(r))
    <2>1. Caught(r) \in Ending
      BY DEF Caught, Outwards, Ending
    <2> QED BY <1>5, <2>1, Counted, EndOnward DEF Refused, metadata
  <1>6. ASSUME NEW r \in Runs, Crash(r) PROVE Onward(r, "idle")
    BY <1>6, Counted DEF Crash, Onward, metadata
  <1>7. ASSUME NEW r \in Runs, LoseSession(r) PROVE losses' # 0
    BY <1>7, Counted DEF LoseSession
  <1>8. ASSUME NEW r \in Runs, AcquireLock(r) PROVE ForwardInv' /\ registry' = registry
    BY <1>8, AcquireLockForward DEF AcquireLock, metadata
  <1>9. CASE UNCHANGED vars
    <2>1. UNCHANGED <<losses, at, holder, registry>>
      BY <1>9 DEF vars, metadata
    <2> QED BY <1>1, <2>1 DEF ForwardInv, Resource
  <1>10. CASE Next
    BY <1>1, <1>2, <1>3, <1>4, <1>5, <1>6, <1>7, <1>8, <1>10, WriteRegistryForward DEF Next
  <1> QED BY <1>9, <1>10

(* As long as no lock session is lost, the registered version of a         *)
(* resource never goes down: ensure() compares it with the declared one    *)
(* (manager.ts:276) and writes the row much later, under the same lock.    *)
THEOREM VersionsOnlyRise == Spec => VersionsMoveForward
  <1>1. Init => ForwardInv
    BY DEF Init, ForwardInv
  <1>2. TypeOK /\ ForwardInv /\ [Next]_vars => ForwardInv'
    BY NextForward
  <1>3. TypeOK /\ ForwardInv /\ [Next]_vars =>
          [losses' = 0 =>
             \A res \in Resources : registry'[res].version >= registry[res].version]_vars
    BY NextForward
  <1> QED BY <1>1, <1>2, <1>3, TypeCorrect, PTL DEF Spec, VersionsMoveForward

=============================================================================
