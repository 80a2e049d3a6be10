------------------------- MODULE MySqlInstallProofs -------------------------
(***************************************************************************)
(* What ensure() and adopt() leave behind, for any resources, declarations,*)
(* migrations and servers: a created table is owned, a run alters what is  *)
(* its own, and what is registered stands.  While no lock session is lost  *)
(* one call runs at a time, and what it has read stays true; once one is   *)
(* lost, only what no migration mentions and no two resources declare is   *)
(* safe, because nothing is ever taken from it.                            *)
(***************************************************************************)
EXTENDS MySqlSchemaProofs

(* The tables of the operations that a run may come to.                    *)
OperationTables(r) ==
    UNION {Mentioned(op) : op \in OperationsOf(r, 1 .. Job[r].version)}

(* What depends on where a run is and on what it has read, and not on the  *)
(* tables and their owners.                                                *)
LEMMA Derived ==
    ASSUME NEW r \in Runs, at'[r] = at[r], work'[r] = work[r]
    PROVE  /\ Operation(r)' = Operation(r) /\ Relevant(r)' = Relevant(r)
           /\ Upgrades(r, work[r].registry)' = Upgrades(r, work[r].registry)
           /\ (Altering(r)' <=> Altering(r)) /\ (Sighted(r)' <=> Sighted(r))
           /\ (Renaming(r)' <=> Renaming(r))
  <1>1. Operation(r)' = Operation(r)
    BY DEF Operation
  <1>2. Upgrades(r, work[r].registry)' = Upgrades(r, work[r].registry)
    BY DEF Upgrades, Pending, Resource, Adopts
  <1>3. Relevant(r)' = Relevant(r)
    BY DEF Relevant, Upgrades, Pending, OperationsOf, Resource, Adopts, Wanted
  <1>4. Altering(r)' <=> Altering(r)
    BY <1>1 DEF Altering, Needed
  <1> QED BY <1>1, <1>2, <1>3, <1>4 DEF Sighted, Renaming, Adopts

(* A run that is over, or has only just taken the lock, has nothing to     *)
(* agree with.                                                             *)
LEMMA OffStage ==
    ASSUME NEW r \in Runs, at'[r] \in {"idle", "registry", "finish"} \cup Ending, WorkAgrees(r)'
    PROVE  RunAgrees(r)'
  <1>1. ~Sighted(r)' /\ ~Renaming(r)' /\ at'[r] # "reconcile" /\ at'[r] \notin Busy
    BY DEF Sighted, Renaming, Busy, Amid, Ending
  <1>2. at'[r] \notin {"introspect", "refuse", "claim", "apply", "reclaim", "register"} \cup Acting
    BY DEF Acting, Amid, Ending
  <1> QED BY <1>1, <1>2
        DEF RunAgrees, SightAgrees, ClaimAgrees, VerifiedAgrees, RowAgrees, OwnAgrees

(* What may not own, and what is disturbed, only grows.                    *)
LEMMA LossesOnly ==
    ASSUME losses' = 0 => losses = 0
    PROVE  /\ \A t : MayBeBare(t) => MayBeBare(t)'
           /\ \A res, t : Undisturbed(res, t)' => Undisturbed(res, t)
  <1>1. \A t : MayBeBare(t) => MayBeBare(t)'
    BY DEF MayBeBare, RenameTargets, Released, Departing, Renames
  <1>2. \A res, t : Rivals(res, t)' = Rivals(res, t)
    BY DEF Rivals, MentionedBy, Resource, Wanted, OperationsOf
  <1>3. \A res, t : Undisturbed(res, t)' => Undisturbed(res, t)
    BY <1>2 DEF Undisturbed
  <1> QED BY <1>1, <1>3

-----------------------------------------------------------------------------
(* What a step of r leaves alone: the other runs, which are at rest while  *)
(* no session is lost ...                                                  *)
Aside(r) ==
    /\ \A u \in Runs \ {r} : at'[u] = at[u] /\ work'[u] = work[u]
    /\ holder' \in {holder, None, r}
    /\ losses' = 0 => losses = 0 /\ \A u \in Runs \ {r} : at[u] = "idle"
(* ... what does not concern r, and what nobody takes away.                *)
Spared(r) ==
    /\ \A res \in Resources \ {Resource(r)} : registry'[res] = registry[res]
    /\ holder # r => \A t \in Tables : tables'[t] = None <=> tables[t] = None
    /\ \A t \in Tables :
          /\ owner'[t] # owner[t] => t \in MentionedBy(r) /\ owner'[t] \in {None, Resource(r)}
          /\ tables[t] # None /\ t \notin OperationTables(r) =>
                tables'[t] # None /\ tables[t] \subseteq tables'[t]
          /\ owner[t] # None /\ t \notin OperationTables(r) \cap (Departing \cup Released) =>
                owner'[t] = owner[t]
          /\ tables'[t] # None /\ owner'[t] = None =>
                (tables[t] # None /\ owner[t] = None) \/ MayBeBare(t)'
    /\ \A res \in Resources : \A t \in Standing(res) :
          Undisturbed(res, t)' =>
             owner'[t] = owner[t] /\ tables'[t] # None /\ tables[t] \subseteq tables'[t]

LEMMA UndisturbedApart ==
    ASSUME NEW r \in Runs, NEW res \in Resources, NEW t, losses' # 0, Undisturbed(res, t)'
    PROVE  t \notin OperationTables(r)
  <1>1. CASE Resource(r) = res
    <2>1. 1 .. Job[r].version \subseteq Versions
      BY JobTyped, SchemaAssumption DEF Versions
    <2> QED BY <1>1, <2>1 DEF Undisturbed, OperationTables, OperationsOf
  <1>2. CASE Resource(r) # res
    BY <1>2 DEF Undisturbed, Rivals, MentionedBy, OperationTables, OperationsOf, Resource, Wanted
  <1> QED BY <1>1, <1>2

(* A run that the step is not of.                                          *)
LEMMA OthersRun ==
    ASSUME InstallInv, NEW r \in Runs, Aside(r), Spared(r), NEW u \in Runs \ {r}
    PROVE  RunAgrees(u)'
  <1>1. /\ RunAgrees(u) /\ at'[u] = at[u] /\ work'[u] = work[u] /\ IInv /\ TypeOK
        /\ Resource(u) \in Resources /\ Resource(u)' = Resource(u)
        /\ Wanted(u)' = Wanted(u) /\ DOMAIN Wanted(u) \subseteq Tables
    BY JobTyped DEF InstallInv, IInv, Aside, Resource, Wanted
  <1>2. WorkAgrees(u)'
    BY <1>1, Derived DEF RunAgrees, WorkAgrees, Adopts
  <1>3. CASE losses' = 0
    BY <1>1, <1>2, <1>3, OffStage DEF Aside
  <1>4. CASE losses' # 0
    <2>1. RowAgrees(u)' /\ OwnAgrees(u)'
      BY <1>4 DEF RowAgrees, OwnAgrees
    <2>2. ClaimAgrees(u)'
      <3>1. ASSUME NEW c \in work[u].plan, at[u] \in {"claim", "apply"}, c.feature = None,
                   c.table \notin Departing \cup Released
            PROVE  owner'[c.table] = Resource(u) \/ (at[u] = "claim" /\ c.table \in work[u].claims)
        <4>1. owner[c.table] = Resource(u) \/ (at[u] = "claim" /\ c.table \in work[u].claims)
          BY <1>1, <3>1 DEF RunAgrees, ClaimAgrees
        <4>2. c.table \in Tables /\ Resource(u) # None
          <5>1. work[u].plan \in SUBSET [table : Tables, feature : Features \cup {None}]
            BY <1>1 DEF TypeOK, Notes
          <5> QED BY <1>1, <3>1, <5>1, SchemaAssumption
        <4> QED BY <3>1, <4>1, <4>2 DEF Spared
      <3> QED BY <1>1, <1>4, <3>1 DEF ClaimAgrees, Departing, Released, Renames
    <2>3. VerifiedAgrees(u)'
      <3>1. ASSUME NEW t \in DOMAIN Wanted(u), at[u] \in {"reclaim", "register"},
                   Undisturbed(Resource(u), t)'
            PROVE  /\ tables'[t] # None /\ Wanted(u)[t] \subseteq tables'[t]
                   /\ owner'[t] = Resource(u) \/ (at[u] = "reclaim" /\ t \in work[u].claims)
        <4>1. Undisturbed(Resource(u), t)
          BY <3>1, LossesOnly DEF Aside
        <4>2. /\ tables[t] # None /\ Wanted(u)[t] \subseteq tables[t]
              /\ owner[t] = Resource(u) \/ (at[u] = "reclaim" /\ t \in work[u].claims)
          BY <1>1, <3>1, <4>1 DEF RunAgrees, VerifiedAgrees
        <4>3. t \notin OperationTables(r)
          BY <1>1, <1>4, <3>1, UndisturbedApart DEF Undisturbed, Rivals, Resource, MentionedBy, Wanted, OperationsOf
        <4>4. t \in Tables /\ Resource(u) # None
          BY <1>1, SchemaAssumption
        <4> QED BY <4>2, <4>3, <4>4 DEF Spared
      <3> QED BY <1>1, <3>1 DEF VerifiedAgrees
    <2>4. SightAgrees(u)'
      <3> SUFFICES ASSUME holder' = u PROVE SightAgrees(u)'
        BY DEF SightAgrees
      <3>1. holder = u /\ holder # r
        BY SchemaAssumption DEF Aside
      <3>2. \A t \in Tables : tables'[t] = None <=> tables[t] = None
        BY <3>1 DEF Spared
      <3>3. SightAgrees(u)
        BY <1>1 DEF RunAgrees
      <3>4. Operation(u)' = Operation(u) /\ (Altering(u)' <=> Altering(u))
            /\ (Sighted(u)' <=> Sighted(u)) /\ (Renaming(u)' <=> Renaming(u))
        BY <1>1, Derived
      <3>5. at[u] = "reconcile" => Operation(u) \in Operations
        BY <1>1, HeadTyped DEF IInv, StageAgrees
      <3>6. \A c \in work[u].plan : c.table \in Tables
        BY <1>1 DEF TypeOK, Notes
      <3>7. Renaming(u) => Operation(u).from \in Tables
        BY <3>5, OperationTyped DEF Renaming
      <3>8. at[u] = "reconcile" /\ Operation(u).type = "dropTable" => Operation(u).table \in Tables
        BY <3>5, OperationTyped
      <3> QED BY <1>1, <3>1, <3>2, <3>3, <3>4, <3>6, <3>7, <3>8 DEF SightAgrees
    <2> QED BY <1>2, <2>1, <2>2, <2>3, <2>4 DEF RunAgrees
  <1> QED BY <1>3, <1>4

-----------------------------------------------------------------------------
(* What is left to show of a step of run r.                                *)
LEMMA StandsKept ==
    ASSUME InstallInv, NEW r \in Runs, Aside(r), Spared(r), registry' = registry
    PROVE  InstalledStands'
  <1> SUFFICES ASSUME NEW res \in Resources, NEW t \in Standing(res)'
               PROVE  /\ owner'[t] = res /\ tables'[t] # None
                      /\ Declared[res][registry'[res].version][t] \subseteq tables'[t]
    BY DEF InstalledStands
  <1>1. Undisturbed(res, t)' /\ Undisturbed(res, t)
    BY LossesOnly DEF Standing, Aside
  <1>2. t \in Standing(res)
    BY <1>1 DEF Standing, Rivals, MentionedBy, Adopts, Resource, Wanted, OperationsOf, OperationsAt
  <1>3. /\ owner[t] = res /\ tables[t] # None
        /\ Declared[res][registry[res].version][t] \subseteq tables[t]
    BY <1>2 DEF InstallInv, InstalledStands
  <1> QED BY <1>1, <1>2, <1>3 DEF Spared

LEMMA InstallKeeps ==
    ASSUME InstallInv, IInv', ForwardInv', NEW r \in Runs, Aside(r), Spared(r), InstalledStands',
           RunAgrees(r)'
    PROVE  InstallInv'
  <1>1. \A u \in Runs : RunAgrees(u)'
    BY OthersRun
  <1>2. OwnersMention'
    <2> SUFFICES ASSUME NEW t \in Tables, owner'[t] # None
                 PROVE  \E u \in Runs : Resource(u) = owner'[t] /\ t \in MentionedBy(u)
      BY DEF OwnersMention, Resource, MentionedBy, Wanted, OperationsOf
    <2>1. CASE owner'[t] = owner[t]
      BY <2>1 DEF InstallInv, OwnersMention
    <2>2. CASE owner'[t] # owner[t]
      BY <2>2 DEF Spared
    <2> QED BY <2>1, <2>2
  <1>3. CreatedMeansOwned'
    <2> SUFFICES ASSUME NEW t \in Tables, tables'[t] # None, owner'[t] = None
                 PROVE  MayBeBare(t)'
      BY DEF CreatedMeansOwned
    <2> QED BY LossesOnly DEF Spared, Aside, InstallInv, CreatedMeansOwned
  <1> QED BY <1>1, <1>2, <1>3 DEF InstallInv

LEMMA QuietSpares ==
    ASSUME InstallInv, NEW r \in Runs, UNCHANGED <<tables, owner, registry>>
    PROVE  Spared(r)
  BY DEF Spared, InstallInv, InstalledStands

(* A step that touches neither a table, nor an owner, nor the registry.    *)
LEMMA QuietKeeps ==
    ASSUME InstallInv, IInv', ForwardInv', NEW r \in Runs, Aside(r),
           UNCHANGED <<tables, owner, registry>>, RunAgrees(r)'
    PROVE  InstallInv'
  BY QuietSpares, StandsKept, InstallKeeps

(* The forms of a step.                                                    *)
LEMMA AsideOf ==
    ASSUME InstallInv, NEW r \in Runs, NEW where, NEW what, Goto(r, where), Note(r, what),
           holder' \in {holder, None, r}, losses' = losses \/ losses' # 0,
           at[r] # "idle" \/ holder = None
    PROVE  Aside(r) /\ at'[r] = where /\ work'[r] = what
  <1>1. TypeOK
    BY DEF InstallInv, IInv
  <1>2. /\ at' = [at EXCEPT ![r] = where] /\ work' = [work EXCEPT ![r] = what]
        /\ at \in [Runs -> Stages] /\ work \in [Runs -> Notes]
    BY <1>1 DEF Goto, Note, TypeOK
  <1>3. ASSUME losses' = 0, NEW u \in Runs \ {r} PROVE losses = 0 /\ at[u] = "idle"
    <2>1. losses = 0 /\ (at[u] # "idle" => holder = u) /\ (at[r] # "idle" => holder = r)
      BY <1>3 DEF InstallInv, ForwardInv
    <2> QED BY <2>1, SchemaAssumption
  <1> QED BY <1>2, <1>3 DEF Aside

LEMMA EndsRun ==
    ASSUME InstallInv, NEW r \in Runs, at'[r] \in Ending, work'[r] = work[r]
    PROVE  RunAgrees(r)'
  <1>1. WorkAgrees(r)'
    BY DEF InstallInv, RunAgrees, WorkAgrees, Ending, Upgrades, Pending, Adopts, Resource
  <1> QED BY <1>1, OffStage

LEMMA CaughtEnding ==
    ASSUME NEW r \in Runs
    PROVE  Caught(r) \in Ending /\ Outwards(r) \in Ending
  BY DEF Caught, Outwards, Ending

(* A step that ends in an error.                                           *)
LEMMA FailsAside ==
    ASSUME InstallInv, NEW r \in Runs, NEW where \in Ending, Goto(r, where), UNCHANGED work,
           holder' \in {holder, None, r}, losses' = losses \/ losses' # 0, at[r] # "idle"
    PROVE  Aside(r) /\ RunAgrees(r)'
  <1>1. Note(r, work[r])
    BY DEF Note, InstallInv, IInv, TypeOK
  <1>2. Aside(r) /\ at'[r] = where /\ work'[r] = work[r]
    BY <1>1, AsideOf
  <1> QED BY <1>2, EndsRun

LEMMA ThrowInstalls ==
    ASSUME InstallInv, IInv', ForwardInv', NEW r \in Runs, Throw(r), at[r] # "idle"
    PROVE  InstallInv'
  <1>1. Aside(r) /\ RunAgrees(r)'
    BY CaughtEnding, FailsAside DEF Throw
  <1> QED BY <1>1, QuietKeeps DEF Throw, metadata

LEMMA ReadsAside ==
    ASSUME InstallInv, NEW r \in Runs, NEW where, NEW what, Reads(r, where, what), at[r] # "idle"
    PROVE  /\ Aside(r) /\ at'[r] = where /\ work'[r] = what
           /\ UNCHANGED <<tables, owner, registry, journal, adoption, holder, losses>>
  BY AsideOf DEF Reads, metadata

(* An answer, or its loss.                                                 *)
LEMMA AnsweredAside ==
    ASSUME InstallInv, NEW r \in Runs, NEW where, NEW what, Answered(r, where, what),
           UNCHANGED holder, at[r] # "idle"
    PROVE  /\ Aside(r) /\ losses' = losses
           /\ \/ at'[r] = where /\ work'[r] = what
              \/ RunAgrees(r)'
  <1>1. losses' = losses
    BY Counted DEF Answered, InstallInv, IInv
  <1>2. CASE Goto(r, where) /\ Note(r, what)
    BY <1>1, <1>2, AsideOf
  <1>3. CASE Goto(r, Caught(r)) /\ UNCHANGED work
    BY <1>1, <1>3, CaughtEnding, FailsAside
  <1> QED BY <1>1, <1>2, <1>3 DEF Answered

LEMMA DdlAnsweredAside ==
    ASSUME InstallInv, NEW r \in Runs, NEW where, NEW what, DdlAnswered(r, where, what),
           at[r] # "idle"
    PROVE  /\ Aside(r)
           /\ \/ at'[r] = where /\ work'[r] = what /\ UNCHANGED <<holder, losses>>
              \/ RunAgrees(r)'
  <1>1. CASE Goto(r, where) /\ Note(r, what) /\ UNCHANGED <<holder, faults, losses>>
    BY <1>1, AsideOf
  <1>2. CASE Goto(r, Caught(r)) /\ UNCHANGED work /\ holder' = None /\ Loss
    <2>1. losses' # 0
      BY <1>2, Counted DEF InstallInv, IInv
    <2> QED BY <1>2, <2>1, CaughtEnding, FailsAside
  <1> QED BY <1>1, <1>2 DEF DdlAnswered

-----------------------------------------------------------------------------
(* The steps that only read, or write the journal or the adoption: what a  *)
(* run agrees with is carried along.                                       *)
Carries(r) ==
    /\ UNCHANGED <<tables, owner, registry, losses>> /\ holder' = holder
    /\ at[r] \in Busy
    /\ work'[r].registry = work[r].registry
    /\ work'[r].migrations \subseteq work[r].migrations
    /\ at'[r] \notin {"adoption", "claim", "apply", "reclaim", "register"}
    /\ Sighted(r)' =>
          \/ work'[r].actual = tables
          \/ Sighted(r) /\ ~Altering(r) /\ work'[r].actual = work[r].actual
    /\ at'[r] = "reconcile" => ~Altering(r)'

LEMMA RelevantSame ==
    ASSUME NEW r \in Runs, work'[r].registry = work[r].registry
    PROVE  /\ Relevant(r)' = Relevant(r)
           /\ Upgrades(r, work[r].registry)' = Upgrades(r, work[r].registry)
  BY DEF Relevant, Upgrades, Pending, OperationsOf, Resource, Adopts, Wanted

LEMMA CarriesRuns ==
    ASSUME InstallInv, NEW r \in Runs, Carries(r), OwnAgrees(r)'
    PROVE  RunAgrees(r)'
  <1>1. RunAgrees(r) /\ TypeOK
    BY DEF InstallInv, IInv
  <1>2. WorkAgrees(r)'
    BY <1>1, RelevantSame DEF RunAgrees, WorkAgrees, Carries
  <1>3. SightAgrees(r)'
    <2>1. ~Renaming(r)'
      BY DEF Renaming, Carries
    <2>2. ASSUME holder' = r, Sighted(r)', NEW t \in Tables, work'[r].actual[t] = None
          PROVE  tables'[t] = None
      BY <1>1, <2>2 DEF Carries, RunAgrees, SightAgrees
    <2> QED BY <2>1, <2>2 DEF SightAgrees, Carries
  <1>4. ClaimAgrees(r)' /\ VerifiedAgrees(r)'
    BY DEF ClaimAgrees, VerifiedAgrees, Carries
  <1>5. RowAgrees(r)'
    BY <1>1 DEF RunAgrees, RowAgrees, Carries, Resource, Adopts
  <1> QED BY <1>2, <1>3, <1>4, <1>5 DEF RunAgrees

(* ... and what ensure() has found to be its own, until it renames it.     *)
LEMMA OwnCarries ==
    ASSUME InstallInv, NEW r \in Runs, UNCHANGED <<tables, owner, losses>>,
           work'[r].registry = work[r].registry, ~Renaming(r), ~Renaming(r)',
           \/ at[r] \in Acting
           \/ Adopts(r)
           \/ at'[r] \notin {"introspect", "refuse"} \cup Acting
           \/ at[r] = "introspect" /\ at'[r] = "refuse"
    PROVE  OwnAgrees(r)'
  <1>1. OwnAgrees(r) /\ Relevant(r)' = Relevant(r)
    BY RelevantSame DEF InstallInv, RunAgrees
  <1>2. GivenAway(r)' = GivenAway(r) /\ Resource(r)' = Resource(r)
    BY DEF GivenAway, OperationsOf, Resource
  <1>3. "refuse" \notin Acting /\ "introspect" \notin Acting
    BY DEF Acting, Amid
  <1> QED BY <1>1, <1>2, <1>3 DEF OwnAgrees, Adopts

(* Together, for the steps that neither name a table nor alter one.        *)
LEMMA CarriesOn ==
    ASSUME InstallInv, IInv', ForwardInv', NEW r \in Runs, Aside(r), UNCHANGED <<tables, owner, registry>>,
           RunAgrees(r)' \/ (Carries(r) /\ OwnAgrees(r)')
    PROVE  InstallInv'
  BY CarriesRuns, QuietKeeps

LEMMA ReadRegistryInstalls ==
    ASSUME InstallInv, IInv', ForwardInv', NEW r \in Runs, ReadRegistry(r)
    PROVE  InstallInv'
  <1>1. at[r] = "registry" /\ TypeOK /\ work[r] = Blank
    BY DEF ReadRegistry, InstallInv, IInv, StageAgrees
  <1>2. CASE Throw(r)
    BY <1>1, <1>2, ThrowInstalls
  <1>3. CASE ~Throw(r)
    <2> DEFINE where == IF Adopts(r) THEN "adoption" ELSE "journal"
               what == [work[r] EXCEPT !.registry = registry[Resource(r)]]
    <2>1. Reads(r, where, what) /\ (Adopts(r) => registry[Resource(r)].version = 0)
      BY <1>3 DEF ReadRegistry
    <2>2. what.registry = registry[Resource(r)] /\ what.migrations = {}
      BY <1>1 DEF Blank
    <2> HIDE DEF what
    <2>3. /\ Aside(r) /\ at'[r] = where /\ work'[r] = what
          /\ UNCHANGED <<tables, owner, registry, holder, losses>>
      BY <1>1, <2>1, ReadsAside
    <2>4. where \in {"adoption", "journal"} /\ (where = "adoption" <=> Adopts(r))
      OBVIOUS
    <2> HIDE DEF where
    <2>5. ~Sighted(r)' /\ ~Renaming(r)'
      BY <2>3, <2>4 DEF Sighted, Renaming, Amid, Adopts
    <2>6. SightAgrees(r)' /\ ClaimAgrees(r)' /\ VerifiedAgrees(r)' /\ OwnAgrees(r)'
      BY <2>3, <2>4, <2>5 DEF SightAgrees, ClaimAgrees, VerifiedAgrees, OwnAgrees, Acting, Amid
    <2>7. WorkAgrees(r)' /\ RowAgrees(r)'
      BY <2>1, <2>2, <2>3, <2>4 DEF WorkAgrees, RowAgrees, Adopts, Resource
    <2>8. RunAgrees(r)'
      BY <2>6, <2>7 DEF RunAgrees
    <2> QED BY <2>3, <2>8, QuietKeeps
  <1> QED BY <1>2, <1>3

LEMMA ReadAdoptionInstalls ==
    ASSUME InstallInv, IInv', ForwardInv', NEW r \in Runs, ReadAdoption(r)
    PROVE  InstallInv'
  <1> DEFINE what == [work[r] EXCEPT !.recorded = adoption[Resource(r)].status # "none"]
  <1>1. at[r] = "adoption" /\ Adopts(r) /\ work[r] \in Notes
    BY DEF ReadAdoption, InstallInv, IInv, RunAgrees, WorkAgrees, TypeOK
  <1>2. CASE Throw(r)
    BY <1>1, <1>2, ThrowInstalls
  <1>3. CASE Reads(r, "introspect", what)
    <2>1. what.registry = work[r].registry /\ what.migrations = work[r].migrations
      BY <1>1 DEF Notes
    <2> HIDE DEF what
    <2>2. /\ Aside(r) /\ at'[r] = "introspect" /\ work'[r] = what
          /\ UNCHANGED <<tables, owner, registry, holder, losses>>
      BY <1>1, <1>3, ReadsAside
    <2>3. ~Sighted(r)' /\ ~Renaming(r) /\ ~Renaming(r)'
      BY <1>1, <2>2 DEF Sighted, Renaming, Amid
    <2>4. Carries(r)
      BY <1>1, <2>1, <2>2, <2>3 DEF Carries, Busy, Stages, Ending
    <2>5. OwnAgrees(r)'
      BY <1>1, <2>1, <2>2, <2>3, OwnCarries
    <2> QED BY <2>2, <2>4, <2>5, CarriesOn
  <1> QED BY <1>2, <1>3 DEF ReadAdoption

LEMMA ReadJournalInstalls ==
    ASSUME InstallInv, IInv', ForwardInv', NEW r \in Runs, ReadJournal(r)
    PROVE  InstallInv'
  <1> DEFINE where == IF Adopts(r) THEN "migrate" ELSE "ownership"
             what == [work[r] EXCEPT !.journal = journal[Resource(r)],
                        !.migrations = {v \in Upgrades(r, work[r].registry) :
                                          journal[Resource(r)][v] # "success"}]
  <1>1. at[r] = "journal" /\ work[r] \in Notes /\ RunAgrees(r)
    BY DEF ReadJournal, InstallInv, IInv, TypeOK
  <1>2. CASE Throw(r)
    BY <1>1, <1>2, ThrowInstalls
  <1>3. CASE Reads(r, where, what)
    <2>1. /\ what.registry = work[r].registry /\ what.actual = work[r].actual
          /\ what.migrations \subseteq Upgrades(r, work[r].registry)
      BY <1>1 DEF Notes
    <2> HIDE DEF what
    <2>2. /\ Aside(r) /\ at'[r] = where /\ work'[r] = what
          /\ UNCHANGED <<tables, owner, registry, holder, losses>>
      BY <1>1, <1>3, ReadsAside
    <2>3. where \in {"migrate", "ownership"} /\ (where = "migrate" <=> Adopts(r))
      OBVIOUS
    <2> HIDE DEF where
    <2>4. /\ Sighted(r)' => Sighted(r) /\ ~Altering(r)
          /\ ~Renaming(r) /\ ~Renaming(r)'
      BY <1>1, <2>2, <2>3 DEF Sighted, Renaming, Amid, Altering, Adopts
    <2>5. OwnAgrees(r)'
      BY <1>1, <2>1, <2>2, <2>3, <2>4, OwnCarries DEF Acting, Amid
    <2>6. WorkAgrees(r)'
      BY <2>1, <2>2, <2>3, RelevantSame DEF WorkAgrees
    <2>7. SightAgrees(r)'
      BY <1>1, <2>1, <2>2, <2>3, <2>4 DEF RunAgrees, SightAgrees
    <2>8. ClaimAgrees(r)' /\ VerifiedAgrees(r)'
      BY <2>2, <2>3 DEF ClaimAgrees, VerifiedAgrees
    <2>9. RowAgrees(r)'
      BY <1>1, <2>1, <2>2 DEF RunAgrees, RowAgrees, Busy, Stages, Ending, Adopts, Resource
    <2>10. RunAgrees(r)'
      BY <2>5, <2>6, <2>7, <2>8, <2>9 DEF RunAgrees
    <2> QED BY <2>2, <2>10, QuietKeeps
  <1> QED BY <1>2, <1>3 DEF ReadJournal

(* The tables of a run are tables, and those it looks at it mentions.      *)
LEMMA RelevantTables ==
    ASSUME NEW r \in Runs, TypeOK
    PROVE  /\ MentionedBy(r) \subseteq Tables /\ Relevant(r) \subseteq MentionedBy(r)
           /\ \A v \in Upgrades(r, work[r].registry) :
                 v \in 1 .. Job[r].version /\ v \in Versions
  <1>1. \A v \in Upgrades(r, work[r].registry) : v \in 1 .. Job[r].version /\ v \in Versions
    <2>1. /\ Job[r].version \in 1 .. MaxVersion /\ MaxVersion \in Nat
          /\ work[r].registry.version \in Nat /\ (Adopts(r) => Job[r].baseline \in Nat)
      BY JobTyped, SchemaAssumption DEF Versions, TypeOK, Notes
    <2> QED BY <2>1 DEF Upgrades, Pending, Versions
  <1>2. Relevant(r) \subseteq MentionedBy(r)
    BY <1>1 DEF Relevant, MentionedBy, OperationsOf
  <1>3. ASSUME NEW v \in 1 .. Job[r].version, NEW op \in OperationsAt(Resource(r), v)
        PROVE  Mentioned(op) \subseteq Tables
    <2>1. v \in Versions /\ Resource(r) \in Resources
      BY JobTyped, SchemaAssumption DEF Versions
    <2>2. op \in Operations
      BY <2>1, <1>3, SchemaAssumption DEF OperationsAt, Range
    <2> QED BY <2>2, OperationTyped DEF Mentioned
  <1>4. MentionedBy(r) \subseteq Tables
    BY <1>3, JobTyped DEF MentionedBy, OperationsOf
  <1> QED BY <1>1, <1>2, <1>4

LEMMA CheckOwnershipInstalls ==
    ASSUME InstallInv, IInv', ForwardInv', NEW r \in Runs, CheckOwnership(r)
    PROVE  InstallInv'
  <1> DEFINE where == IF Adopts(r) THEN "baseline" ELSE "introspect"
  <1>1. at[r] = "ownership" /\ work[r] \in Notes
    BY DEF CheckOwnership, InstallInv, IInv, TypeOK
  <1>2. CASE Throw(r)
    BY <1>1, <1>2, ThrowInstalls
  <1>3. CASE ~Throw(r)
    <2>1. /\ Reads(r, where, work[r])
          /\ \A t \in Relevant(r) : owner[t] = None \/ (~Adopts(r) /\ owner[t] = Resource(r))
      BY <1>3 DEF CheckOwnership
    <2>2. /\ Aside(r) /\ at'[r] = where /\ work'[r] = work[r]
          /\ UNCHANGED <<tables, owner, registry, holder, losses>>
      BY <1>1, <2>1, ReadsAside
    <2>3. where \in {"baseline", "introspect"} /\ (where = "baseline" <=> Adopts(r))
      OBVIOUS
    <2> HIDE DEF where
    <2>4. /\ Sighted(r)' => Sighted(r) /\ ~Altering(r)
          /\ ~Renaming(r) /\ ~Renaming(r)'
      BY <1>1, <2>2, <2>3 DEF Sighted, Renaming, Amid, Altering, Adopts
    <2>5. Carries(r)
      BY <1>1, <2>2, <2>3, <2>4 DEF Carries, Busy, Stages, Ending
    <2>6. OwnAgrees(r)'
      BY <2>1, <2>2, <2>3, <2>4, RelevantSame DEF OwnAgrees, Acting, Amid, Resource, Adopts
    <2> QED BY <2>2, <2>5, <2>6, CarriesOn
  <1> QED BY <1>2, <1>3

LEMMA IntrospectInstalls ==
    ASSUME InstallInv, IInv', ForwardInv', NEW r \in Runs, Introspect(r)
    PROVE  InstallInv'
  <1> DEFINE what == [work[r] EXCEPT !.actual = tables]
  <1>1. work[r] \in Notes
    BY DEF InstallInv, IInv, TypeOK
  <1>2. /\ what.registry = work[r].registry /\ what.migrations = work[r].migrations
        /\ what.actual = tables
    BY <1>1 DEF Notes
  <1>3. PICK where :
           /\ Reads(r, where, what)
           /\ \/ at[r] = "introspect" /\ where = "refuse"
              \/ at[r] = "introspect" /\ where \in {"journal", "ownership"} /\ Adopts(r)
              \/ at[r] = "refresh" /\ where = "operate"
              \/ at[r] = "reread" /\ where = "migrate"
    BY DEF Introspect
  <1> HIDE DEF what
  <1>4. /\ Aside(r) /\ at'[r] = where /\ work'[r] = what
        /\ UNCHANGED <<tables, owner, registry, holder, losses>>
    BY <1>3, ReadsAside
  <1>5. ~Renaming(r) /\ ~Renaming(r)'
    BY <1>3, <1>4 DEF Renaming
  <1>6. Carries(r)
    BY <1>2, <1>3, <1>4 DEF Carries, Busy, Stages, Ending
  <1>7. OwnAgrees(r)'
    BY <1>2, <1>3, <1>4, <1>5, OwnCarries DEF Acting, Amid
  <1> QED BY <1>4, <1>6, <1>7, CarriesOn

LEMMA RefuseInstalls ==
    ASSUME InstallInv, IInv', ForwardInv', NEW r \in Runs, RefuseImplicitAdoption(r)
    PROVE  InstallInv'
  <1>1. at[r] = "refuse" /\ TypeOK /\ RunAgrees(r)
    BY DEF RefuseImplicitAdoption, InstallInv, IInv
  <1>2. CASE Throw(r)
    BY <1>1, <1>2, ThrowInstalls
  <1>3. CASE Unmanaged(r) = {} /\ Reads(r, "migrate", work[r])
    <2>1. /\ Aside(r) /\ at'[r] = "migrate" /\ work'[r] = work[r]
          /\ UNCHANGED <<tables, owner, registry, holder, losses>>
      BY <1>1, <1>3, ReadsAside
    <2>2. Sighted(r) /\ ~Altering(r) /\ ~Renaming(r) /\ ~Renaming(r)'
      BY <1>1, <2>1 DEF Sighted, Altering, Renaming
    <2>3. Carries(r)
      BY <1>1, <2>1, <2>2 DEF Carries, Busy, Stages, Ending
    <2>4. ASSUME losses = 0, ~Adopts(r), NEW t \in Relevant(r)
          PROVE  owner[t] \in {None, Resource(r)} /\ (tables[t] # None => owner[t] = Resource(r))
      <3>1. holder = r
        BY <1>1, <2>4 DEF InstallInv, ForwardInv
      <3>2. owner[t] \in {None, Resource(r)}
        BY <1>1, <2>4 DEF RunAgrees, OwnAgrees
      <3>3. t \in Tables => (work[r].actual[t] = None => tables[t] = None)
        BY <1>1, <2>2, <3>1 DEF RunAgrees, SightAgrees
      <3>4. t \in Tables
        BY <1>1, <2>4, RelevantTables
      <3> QED BY <1>3, <2>4, <3>2, <3>3, <3>4 DEF Unmanaged
    <2>5. OwnAgrees(r)'
      BY <2>1, <2>2, <2>4, RelevantSame DEF OwnAgrees, Resource, Adopts
    <2> QED BY <2>1, <2>3, <2>5, CarriesOn
  <1> QED BY <1>2, <1>3 DEF RefuseImplicitAdoption

LEMMA WriteAdoptionBaselineInstalls ==
    ASSUME InstallInv, IInv', ForwardInv', NEW r \in Runs, WriteAdoptionBaseline(r)
    PROVE  InstallInv'
  <1> DEFINE what == [work[r] EXCEPT !.recorded = TRUE]
  <1>1. at[r] = "baseline" /\ work[r] \in Notes /\ Adopts(r)
    BY DEF WriteAdoptionBaseline, InstallInv, IInv, TypeOK, StageAgrees
  <1>2. CASE Throw(r)
    BY <1>1, <1>2, ThrowInstalls
  <1>3. CASE ~Throw(r)
    <2>1. Answered(r, "journal", what) /\ UNCHANGED <<tables, owner, registry, holder>>
      BY <1>3 DEF WriteAdoptionBaseline
    <2>2. /\ what.registry = work[r].registry /\ what.migrations = work[r].migrations
          /\ what.actual = work[r].actual
      BY <1>1 DEF Notes
    <2> HIDE DEF what
    <2>3. /\ Aside(r) /\ losses' = losses
          /\ (at'[r] = "journal" /\ work'[r] = what) \/ RunAgrees(r)'
      BY <1>1, <2>1, AnsweredAside
    <2>4. ASSUME at'[r] = "journal", work'[r] = what PROVE Carries(r) /\ OwnAgrees(r)'
      <3>1. Sighted(r) /\ ~Altering(r) /\ ~Renaming(r) /\ ~Renaming(r)'
        BY <1>1, <2>4 DEF Sighted, Altering, Renaming
      <3>2. Carries(r)
        BY <1>1, <2>1, <2>2, <2>3, <2>4, <3>1 DEF Carries, Busy, Stages, Ending
      <3> QED BY <1>1, <2>1, <2>2, <2>3, <2>4, <3>1, <3>2, OwnCarries
    <2> QED BY <2>1, <2>3, <2>4, CarriesOn
  <1> QED BY <1>2, <1>3

LEMMA StartMigrationInstalls ==
    ASSUME InstallInv, IInv', ForwardInv', NEW r \in Runs, StartMigration(r)
    PROVE  InstallInv'
  <1>1. at[r] = "migrate"
    BY DEF StartMigration
  <1>2. CASE Throw(r)
    BY <1>1, <1>2, ThrowInstalls
  <1>3. CASE Reads(r, "begin", work[r])
    <2>1. /\ Aside(r) /\ at'[r] = "begin" /\ work'[r] = work[r]
          /\ UNCHANGED <<tables, owner, registry, holder, losses>>
      BY <1>1, <1>3, ReadsAside
    <2>2. Sighted(r) /\ ~Altering(r) /\ ~Renaming(r) /\ ~Renaming(r)'
      BY <1>1, <2>1 DEF Sighted, Altering, Renaming
    <2>3. Carries(r)
      BY <1>1, <2>1, <2>2 DEF Carries, Busy, Stages, Ending
    <2>4. OwnAgrees(r)'
      BY <1>1, <2>1, <2>2, OwnCarries DEF Acting
    <2> QED BY <2>1, <2>3, <2>4, CarriesOn
  <1> QED BY <1>2, <1>3 DEF StartMigration

LEMMA BeginMigrationInstalls ==
    ASSUME InstallInv, IInv', ForwardInv', NEW r \in Runs, BeginMigration(r)
    PROVE  InstallInv'
  <1> DEFINE what == [work[r] EXCEPT !.operations = Migration[Resource(r)][Current(r)]]
  <1>1. at[r] = "begin" /\ work[r] \in Notes
    BY DEF BeginMigration, InstallInv, IInv, TypeOK
  <1>2. Answered(r, "operate", what) /\ UNCHANGED <<tables, owner, registry, holder>>
    BY DEF BeginMigration, Journal
  <1>3. /\ what.registry = work[r].registry /\ what.migrations = work[r].migrations
        /\ what.actual = work[r].actual
    BY <1>1 DEF Notes
  <1> HIDE DEF what
  <1>4. /\ Aside(r) /\ losses' = losses
        /\ (at'[r] = "operate" /\ work'[r] = what) \/ RunAgrees(r)'
    BY <1>1, <1>2, AnsweredAside
  <1>5. ASSUME at'[r] = "operate", work'[r] = what PROVE Carries(r) /\ OwnAgrees(r)'
    <2>1. Sighted(r) /\ ~Altering(r) /\ ~Renaming(r) /\ ~Renaming(r)'
      BY <1>1, <1>5 DEF Sighted, Altering, Renaming
    <2>2. Carries(r)
      BY <1>1, <1>2, <1>3, <1>4, <1>5, <2>1 DEF Carries, Busy, Stages, Ending
    <2> QED BY <1>1, <1>2, <1>3, <1>4, <1>5, <2>1, <2>2, OwnCarries DEF Acting
  <1> QED BY <1>2, <1>4, <1>5, CarriesOn

LEMMA SkipOperationInstalls ==
    ASSUME InstallInv, IInv', ForwardInv', NEW r \in Runs, SkipOperation(r)
    PROVE  InstallInv'
  <1>1. at[r] = "operate"
    BY DEF SkipOperation, Operating
  <1>2. CASE Throw(r)
    BY <1>1, <1>2, ThrowInstalls
  <1>3. CASE ~Needed(r, Operation(r), work[r].actual) /\ Reads(r, "reconcile", work[r])
    <2>1. /\ Aside(r) /\ at'[r] = "reconcile" /\ work'[r] = work[r]
          /\ UNCHANGED <<tables, owner, registry, holder, losses>>
      BY <1>1, <1>3, ReadsAside
    <2>2. ~Altering(r)'
      <3>1. Operation(r)' = Operation(r)
        BY <2>1 DEF Operation
      <3> QED BY <1>3, <2>1, <3>1 DEF Altering, Needed
    <2>3. Sighted(r) /\ ~Altering(r) /\ ~Renaming(r) /\ ~Renaming(r)'
      BY <1>1, <2>1, <2>2 DEF Sighted, Altering, Renaming, Amid
    <2>4. Carries(r)
      BY <1>1, <2>1, <2>2, <2>3 DEF Carries, Busy, Stages, Ending
    <2>5. OwnAgrees(r)'
      BY <1>1, <2>1, <2>3, OwnCarries DEF Acting, Amid
    <2> QED BY <2>1, <2>4, <2>5, CarriesOn
  <1> QED BY <1>2, <1>3 DEF SkipOperation

LEMMA CompleteMigrationInstalls ==
    ASSUME InstallInv, IInv', ForwardInv', NEW r \in Runs, CompleteMigration(r)
    PROVE  InstallInv'
  <1> DEFINE what == [work[r] EXCEPT !.migrations = @ \ {Current(r)}]
  <1>1. at[r] = "operate" /\ work[r] \in Notes
    BY DEF CompleteMigration, InstallInv, IInv, TypeOK
  <1>2. Answered(r, "reread", what) /\ UNCHANGED <<tables, owner, registry, holder>>
    BY DEF CompleteMigration, Journal
  <1>3. /\ what.registry = work[r].registry /\ what.migrations \subseteq work[r].migrations
        /\ what.actual = work[r].actual
    BY <1>1 DEF Notes
  <1> HIDE DEF what
  <1>4. /\ Aside(r) /\ losses' = losses
        /\ (at'[r] = "reread" /\ work'[r] = what) \/ RunAgrees(r)'
    BY <1>1, <1>2, AnsweredAside
  <1>5. ASSUME at'[r] = "reread", work'[r] = what PROVE Carries(r) /\ OwnAgrees(r)'
    <2>1. Sighted(r) /\ ~Altering(r) /\ ~Renaming(r) /\ ~Renaming(r)'
      BY <1>1, <1>5 DEF Sighted, Altering, Renaming, Amid
    <2>2. Carries(r)
      BY <1>1, <1>2, <1>3, <1>4, <1>5, <2>1 DEF Carries, Busy, Stages, Ending
    <2> QED BY <1>1, <1>2, <1>3, <1>4, <1>5, <2>1, <2>2, OwnCarries DEF Acting, Amid
  <1> QED BY <1>2, <1>4, <1>5, CarriesOn

-----------------------------------------------------------------------------
(* A call that ends, begins, or goes on without the lock.                  *)
LEMMA FailMigrationInstalls ==
    ASSUME InstallInv, IInv', ForwardInv', NEW r \in Runs, FailMigration(r)
    PROVE  InstallInv'
  <1>1. /\ at[r] = "failing" /\ Goto(r, Outwards(r)) /\ UNCHANGED work
        /\ UNCHANGED <<tables, owner, registry, holder>> /\ losses' = losses
    BY DEF FailMigration, Journal, Fault, metadata
  <1>2. Aside(r) /\ RunAgrees(r)'
    BY <1>1, CaughtEnding, FailsAside
  <1> QED BY <1>1, <1>2, QuietKeeps

LEMMA FinishAdoptionInstalls ==
    ASSUME InstallInv, IInv', ForwardInv', NEW r \in Runs, FinishAdoption(r)
    PROVE  InstallInv'
  <1>1. /\ at[r] = "finish" /\ Answered(r, "unlock", work[r])
        /\ UNCHANGED <<tables, owner, registry, holder>>
    BY DEF FinishAdoption, AdoptionStatus
  <1>2. Aside(r) /\ ((at'[r] = "unlock" /\ work'[r] = work[r]) \/ RunAgrees(r)')
    BY <1>1, AnsweredAside
  <1>3. RunAgrees(r)'
    BY <1>2, EndsRun DEF Ending
  <1> QED BY <1>1, <1>2, <1>3, QuietKeeps

LEMMA FailAdoptionInstalls ==
    ASSUME InstallInv, IInv', ForwardInv', NEW r \in Runs, FailAdoption(r)
    PROVE  InstallInv'
  <1>1. /\ at[r] = "failAdoption" /\ Goto(r, "unlock") /\ UNCHANGED work
        /\ UNCHANGED <<tables, owner, registry, holder>> /\ losses' = losses
    BY DEF FailAdoption, AdoptionStatus, Fault, metadata
  <1>2. Aside(r) /\ RunAgrees(r)'
    BY <1>1, FailsAside DEF Ending
  <1> QED BY <1>1, <1>2, QuietKeeps

LEMMA OverInstalls ==
    ASSUME InstallInv, IInv', ForwardInv', NEW r \in Runs, at[r] # "idle", holder' = Freed(r),
           Goto(r, "idle"), Note(r, Blank), UNCHANGED <<tables, metadata>>, losses' = losses
    PROVE  InstallInv'
  <1>1. Aside(r) /\ at'[r] = "idle" /\ work'[r] = Blank
    BY AsideOf DEF Freed
  <1>2. WorkAgrees(r)'
    BY <1>1 DEF WorkAgrees, Blank
  <1>3. RunAgrees(r)'
    BY <1>1, <1>2, OffStage
  <1> QED BY <1>1, <1>3, QuietKeeps DEF metadata

LEMMA ReleaseLockInstalls ==
    ASSUME InstallInv, IInv', ForwardInv', NEW r \in Runs, ReleaseLock(r)
    PROVE  InstallInv'
  BY OverInstalls DEF ReleaseLock

LEMMA CrashInstalls ==
    ASSUME InstallInv, IInv', ForwardInv', NEW r \in Runs, Crash(r)
    PROVE  InstallInv'
  BY OverInstalls DEF Crash, Fault

LEMMA RefusedInstalls ==
    ASSUME InstallInv, IInv', ForwardInv', NEW r \in Runs, Refused(r)
    PROVE  InstallInv'
  <1>1. Aside(r) /\ RunAgrees(r)'
    BY CaughtEnding, FailsAside DEF Refused, Fault
  <1> QED BY <1>1, QuietKeeps DEF Refused, metadata

LEMMA AcquireLockInstalls ==
    ASSUME InstallInv, IInv', ForwardInv', NEW r \in Runs, AcquireLock(r)
    PROVE  InstallInv'
  <1>1. Note(r, work[r])
    BY DEF AcquireLock, Note, InstallInv, IInv, TypeOK
  <1>2. Aside(r) /\ at'[r] = "registry" /\ work'[r] = work[r]
    BY <1>1, AsideOf DEF AcquireLock
  <1>3. WorkAgrees(r)'
    BY <1>2, RelevantSame DEF InstallInv, RunAgrees, WorkAgrees
  <1>4. RunAgrees(r)'
    BY <1>2, <1>3, OffStage
  <1> QED BY <1>2, <1>4, QuietKeeps DEF AcquireLock, metadata

LEMMA LoseSessionInstalls ==
    ASSUME InstallInv, IInv', ForwardInv', NEW r \in Runs, LoseSession(r)
    PROVE  InstallInv'
  <1>1. /\ UNCHANGED <<tables, owner, registry, at, work>> /\ holder' = None /\ losses' # 0
        /\ RunAgrees(r)
    BY Counted DEF LoseSession, metadata, InstallInv, IInv
  <1>2. Aside(r)
    BY <1>1 DEF Aside
  <1>3. SightAgrees(r)' /\ RowAgrees(r)' /\ OwnAgrees(r)'
    BY <1>1, SchemaAssumption DEF SightAgrees, RowAgrees, OwnAgrees
  <1>4. WorkAgrees(r)' /\ ClaimAgrees(r)'
    BY <1>1, RelevantSame DEF RunAgrees, WorkAgrees, ClaimAgrees, Resource, Departing, Released, Renames
  <1>5. \A t : Undisturbed(Resource(r), t)' => Undisturbed(Resource(r), t)
    BY <1>1, LossesOnly
  <1>6. VerifiedAgrees(r)'
    <2> SUFFICES ASSUME at[r] \in {"reclaim", "register"}, NEW t \in DOMAIN Wanted(r),
                        Undisturbed(Resource(r), t)'
                 PROVE  /\ tables[t] # None /\ Wanted(r)[t] \subseteq tables[t]
                        /\ owner[t] = Resource(r) \/ (at[r] = "reclaim" /\ t \in work[r].claims)
      BY <1>1 DEF VerifiedAgrees, Resource, Wanted, Undisturbed, Rivals
    <2> QED BY <1>1, <1>5 DEF RunAgrees, VerifiedAgrees
  <1>7. RunAgrees(r)'
    BY <1>3, <1>4, <1>6 DEF RunAgrees
  <1> QED BY <1>1, <1>2, <1>7, QuietKeeps

LEMMA StutterInstalls ==
    ASSUME InstallInv, IInv', ForwardInv', UNCHANGED vars
    PROVE  InstallInv'
  <1>1. UNCHANGED <<tables, owner, registry, holder, at, work, losses>>
    BY DEF vars, metadata
  <1>2. OwnersMention' /\ CreatedMeansOwned' /\ InstalledStands'
    BY <1>1 DEF InstallInv, OwnersMention, CreatedMeansOwned, InstalledStands, MayBeBare, Renames,
       RenameTargets, Released, Departing, Standing, Undisturbed, Rivals, MentionedBy, Resource,
       Wanted, OperationsOf, Adopts
  <1>3. ASSUME NEW r \in Runs PROVE RunAgrees(r)'
    <2>1. /\ Operation(r)' = Operation(r) /\ Relevant(r)' = Relevant(r)
          /\ Upgrades(r, work[r].registry)' = Upgrades(r, work[r].registry)
          /\ (Altering(r)' <=> Altering(r)) /\ (Sighted(r)' <=> Sighted(r))
          /\ (Renaming(r)' <=> Renaming(r))
      BY <1>1, Derived
    <2>2. RunAgrees(r)
      BY DEF InstallInv
    <2>3. WorkAgrees(r)' /\ SightAgrees(r)' /\ ClaimAgrees(r)' /\ VerifiedAgrees(r)'
      BY <1>1, <2>1, <2>2 DEF RunAgrees, WorkAgrees, SightAgrees, ClaimAgrees, VerifiedAgrees,
         Undisturbed, Rivals, MentionedBy, Resource, Wanted, OperationsOf, Adopts, Departing,
         Released, Renames
    <2>4. RowAgrees(r)' /\ OwnAgrees(r)'
      BY <1>1, <2>1, <2>2 DEF RunAgrees, RowAgrees, OwnAgrees, Resource, Adopts, GivenAway, OperationsOf
    <2> QED BY <2>3, <2>4 DEF RunAgrees
  <1> QED BY <1>2, <1>3 DEF InstallInv

-----------------------------------------------------------------------------
(* The plan, and the check that it has been carried out.                   *)
LEMMA PlanChangesInstalls ==
    ASSUME InstallInv, IInv', ForwardInv', NEW r \in Runs, PlanChanges(r)
    PROVE  InstallInv'
  <1> DEFINE plan == Changes(r, work[r].actual)
             what == [work[r] EXCEPT !.plan = plan, !.claims = Created(plan)]
  <1>1. at[r] = "migrate" /\ work[r] \in Notes /\ RunAgrees(r) /\ TypeOK
    BY DEF PlanChanges, InstallInv, IInv, TypeOK
  <1>2. CASE Throw(r)
    BY <1>1, <1>2, ThrowInstalls
  <1>3. ASSUME NEW where \in {"claim", "apply"}, Reads(r, where, what), holder = r,
               where = "apply" => Created(plan) = {}
        PROVE  InstallInv'
    <2>1. /\ what.registry = work[r].registry /\ what.migrations = work[r].migrations
          /\ what.actual = work[r].actual /\ what.plan = plan /\ what.claims = Created(plan)
      BY <1>1 DEF Notes
    <2>2. \A c \in plan : c.table \in DOMAIN Wanted(r)
      BY <1>1, ChangesTyped DEF Notes
    <2>3. \A c \in plan : c.feature = None => work[r].actual[c.table] = None /\ c.table \in Created(plan)
      <3>1. ASSUME NEW c \in plan, c.feature = None PROVE work[r].actual[c.table] = None
        <4>1. CASE \E t \in {u \in DOMAIN Wanted(r) : work[r].actual[u] = None} :
                      c = [table |-> t, feature |-> None]
          BY <4>1
        <4>2. CASE \E t \in DOMAIN Wanted(r) : \E f \in Wanted(r)[t] : c = [table |-> t, feature |-> f]
          BY <3>1, <4>2, JobTyped, SchemaAssumption
        <4> QED BY <4>1, <4>2 DEF Changes
      <3> QED BY <3>1 DEF Created
    <2>4. \A t \in Created(plan) : t \in DOMAIN Wanted(r)
      BY <2>2 DEF Created
    <2> HIDE DEF plan, what
    <2>5. /\ Aside(r) /\ at'[r] = where /\ work'[r] = what
          /\ UNCHANGED <<tables, owner, registry, holder, losses>>
      BY <1>1, <1>3, ReadsAside
    <2>6. WorkAgrees(r)' /\ RowAgrees(r)'
      BY <1>1, <2>1, <2>4, <2>5, RelevantSame
        DEF RunAgrees, WorkAgrees, RowAgrees, Busy, Stages, Ending, Resource, Adopts, Wanted
    <2>7. ~Renaming(r) /\ ~Renaming(r)' /\ ~Sighted(r)' /\ Sighted(r) /\ ~Altering(r)
      BY <1>1, <2>5 DEF Renaming, Sighted, Altering, Amid
    <2>8. OwnAgrees(r)'
      BY <1>1, <2>1, <2>5, <2>7, OwnCarries DEF Acting
    <2>9. SightAgrees(r)'
      <3>1. \A t \in Tables : work[r].actual[t] = None => tables[t] = None
        BY <1>1, <1>3, <2>7 DEF RunAgrees, SightAgrees
      <3> QED BY <2>1, <2>2, <2>3, <2>5, <2>7, <3>1, JobTyped DEF SightAgrees
    <2>10. ClaimAgrees(r)' /\ VerifiedAgrees(r)'
      BY <1>3, <2>1, <2>3, <2>5 DEF ClaimAgrees, VerifiedAgrees
    <2>11. RunAgrees(r)'
      BY <2>6, <2>8, <2>9, <2>10 DEF RunAgrees
    <2> QED BY <2>5, <2>11, QuietKeeps
  <1>4. \/ Throw(r)
        \/ /\ holder = r
           /\ \E where \in {"claim", "apply"} :
                 Reads(r, where, what) /\ (where = "apply" => Created(plan) = {})
    BY DEF PlanChanges, ClaimFirst
  <1> QED BY <1>2, <1>3, <1>4

(* Nothing is left to change when all is there.                            *)
LEMMA NothingToChange ==
    ASSUME NEW r, NEW actual, Changes(r, actual) = {}, NEW t \in DOMAIN Wanted(r)
    PROVE  actual[t] # None /\ Wanted(r)[t] \subseteq actual[t]
  <1>1. CASE actual[t] = None
    <2>1. [table |-> t, feature |-> None] \in Changes(r, actual)
      BY <1>1 DEF Changes
    <2> QED BY <2>1
  <1>2. CASE actual[t] # None
    <2> SUFFICES ASSUME NEW f \in Wanted(r)[t], f \notin actual[t] PROVE FALSE
      BY <1>2
    <2>1. [table |-> t, feature |-> f] \in Changes(r, actual)
      BY <1>2 DEF Changes
    <2> QED BY <2>1
  <1> QED BY <1>1, <1>2

LEMMA VerifyInstalls ==
    ASSUME InstallInv, IInv', ForwardInv', NEW r \in Runs, Verify(r)
    PROVE  InstallInv'
  <1> DEFINE what == [work[r] EXCEPT !.claims = DOMAIN Wanted(r)]
  <1>1. at[r] = "apply" /\ work[r] \in Notes /\ RunAgrees(r)
    BY DEF Verify, InstallInv, IInv, TypeOK
  <1>2. CASE Throw(r)
    BY <1>1, <1>2, ThrowInstalls
  <1>3. ASSUME NEW where \in {"register", "reclaim"}, Reads(r, where, what),
               Changes(r, tables) = {}, where = "register" => DOMAIN Wanted(r) = {}
        PROVE  InstallInv'
    <2>1. /\ what.registry = work[r].registry /\ what.migrations = work[r].migrations
          /\ what.claims = DOMAIN Wanted(r)
      BY <1>1, JobTyped DEF Notes
    <2>2. \A t \in DOMAIN Wanted(r) : tables[t] # None /\ Wanted(r)[t] \subseteq tables[t]
      BY <1>3, NothingToChange
    <2> HIDE DEF what
    <2>3. /\ Aside(r) /\ at'[r] = where /\ work'[r] = what
          /\ UNCHANGED <<tables, owner, registry, holder, losses>>
      BY <1>1, <1>3, ReadsAside
    <2>4. WorkAgrees(r)' /\ RowAgrees(r)'
      BY <1>1, <2>1, <2>3, RelevantSame
        DEF RunAgrees, WorkAgrees, RowAgrees, Busy, Stages, Ending, Resource, Adopts, Wanted
    <2>5. ~Renaming(r)' /\ ~Sighted(r)'
      BY <2>3 DEF Renaming, Sighted, Amid
    <2>6. SightAgrees(r)' /\ ClaimAgrees(r)' /\ OwnAgrees(r)'
      BY <2>3, <2>5 DEF SightAgrees, ClaimAgrees, OwnAgrees, Acting, Amid
    <2>7. VerifiedAgrees(r)'
      BY <1>3, <2>1, <2>2, <2>3 DEF VerifiedAgrees, Wanted, Resource
    <2>8. RunAgrees(r)'
      BY <2>4, <2>6, <2>7 DEF RunAgrees
    <2> QED BY <2>3, <2>8, QuietKeeps
  <1>4. \/ Throw(r)
        \/ /\ Changes(r, tables) = {}
           /\ \E where \in {"register", "reclaim"} :
                 Reads(r, where, what) /\ (where = "register" => DOMAIN Wanted(r) = {})
    BY DEF Verify
  <1> QED BY <1>2, <1>3, <1>4

-----------------------------------------------------------------------------
(* The operation a run has come to: one of its resource's migrations, after*)
(* the version that the run has read.                                      *)
LEMMA OperationHere ==
    ASSUME InstallInv, NEW r \in Runs, at[r] \in Amid, work[r].operations # <<>>
    PROVE  /\ Operation(r) \in Operations
           /\ Current(r) \in Upgrades(r, work[r].registry) /\ Current(r) \in 1 .. Job[r].version
           /\ Operation(r) \in OperationsAt(Resource(r), Current(r))
           /\ Operation(r) \in OperationsOf(r, 1 .. Job[r].version)
           /\ Operation(r) \in AllOperations
           /\ Mentioned(Operation(r)) \subseteq Relevant(r)
           /\ Mentioned(Operation(r)) \subseteq OperationTables(r)
           /\ Mentioned(Operation(r)) \subseteq MentionedBy(r)
           /\ Mentioned(Operation(r)) \subseteq Tables
  <1>1. /\ TypeOK /\ work[r].migrations # {} /\ WorkAgrees(r)
        /\ Range(work[r].operations) \subseteq OperationsAt(Resource(r), Current(r))
    BY DEF InstallInv, IInv, StageAgrees, RunAgrees
  <1>2. /\ Operation(r) \in Operations /\ Operation(r) \in OperationsAt(Resource(r), Current(r))
        /\ Current(r) \in Upgrades(r, work[r].registry) /\ Current(r) \in 1 .. Job[r].version
        /\ Current(r) \in Versions /\ Resource(r) \in Resources
    BY <1>1, HeadTyped, CurrentTyped, RelevantTables, JobTyped DEF WorkAgrees
  <1>3. /\ Operation(r) \in OperationsOf(r, 1 .. Job[r].version)
        /\ Operation(r) \in OperationsOf(r, Upgrades(r, work[r].registry))
        /\ Operation(r) \in AllOperations
    BY <1>2 DEF OperationsOf, AllOperations
  <1>4. /\ Mentioned(Operation(r)) \subseteq Relevant(r)
        /\ Mentioned(Operation(r)) \subseteq OperationTables(r)
        /\ Mentioned(Operation(r)) \subseteq MentionedBy(r)
    BY <1>3 DEF Relevant, OperationTables, MentionedBy
  <1>5. MentionedBy(r) \subseteq Tables
    BY <1>1, RelevantTables
  <1> QED BY <1>2, <1>3, <1>4, <1>5

(* What a resource gives away is closed under its renames.                 *)
LEMMA GiftsFollowRenames ==
    ASSUME NEW r \in Runs, NEW op \in OperationsOf(r, 1 .. Job[r].version)
    PROVE  /\ op.type = "releaseTable" /\ op.table \in Tables => op.table \in GivenAway(r)
           /\ op.type = "renameTable" /\ op.to \in Tables =>
                 (op.from \in GivenAway(r) => op.to \in GivenAway(r))
  BY DEF GivenAway

LEMMA GiftsMayBeBare == \A t \in RenameTargets \cup Released : MayBeBare(t)'
  BY DEF MayBeBare, RenameTargets, Released, Renames

(* No operation of a run that holds the lock, and none at all once a       *)
(* session is lost, mentions a table that stands.                          *)
LEMMA OperationSpares ==
    ASSUME InstallInv, NEW r \in Runs, Aside(r), at[r] \in Amid, work[r].operations # <<>>,
           NEW res \in Resources, NEW t \in Standing(res), Undisturbed(res, t)'
    PROVE  t \notin Mentioned(Operation(r))
  <1>1. CASE losses' # 0
    BY <1>1, UndisturbedApart, OperationHere
  <1>2. CASE losses' = 0
    <2>1. /\ losses = 0 /\ RunAgrees(r) /\ at[r] \in Busy /\ at[r] \in Acting
          /\ owner[t] = res
      BY <1>2 DEF Aside, InstallInv, InstalledStands, Busy, Stages, Acting, Amid, Ending
    <2>2. work[r].registry = registry[Resource(r)] /\ (Adopts(r) => registry[Resource(r)].version = 0)
      BY <2>1 DEF RunAgrees, RowAgrees
    <2>3. CASE res = Resource(r)
      <3>1. ~Adopts(r) /\ registry[res].version # 0
        BY <2>2, <2>3 DEF Standing
      <3>2. Current(r) \in registry[res].version + 1 .. Job[r].version
        BY <2>2, <2>3, <3>1, OperationHere DEF Upgrades, Pending
      <3>3. /\ Job[r].version \in 1..MaxVersion /\ MaxVersion \in Nat
            /\ registry[res].version \in Nat
        BY JobTyped, SchemaAssumption DEF Versions, InstallInv, IInv, TypeOK
      <3>4. Current(r) \in registry[res].version + 1 .. MaxVersion
        BY <3>2, <3>3
      <3> QED BY <2>3, <3>1, <3>4, OperationHere DEF Standing
    <2>4. CASE res # Resource(r) /\ Adopts(r)
      <3>1. r \notin Rivals(res, t)
        BY <2>4 DEF Standing
      <3> QED BY <2>4, <3>1, OperationHere DEF Rivals
    <2>5. CASE res # Resource(r) /\ ~Adopts(r)
      <3>1. \A u \in Relevant(r) : owner[u] \in {None, Resource(r)}
        BY <2>1, <2>5 DEF RunAgrees, OwnAgrees
      <3> QED BY <2>1, <2>5, <3>1, OperationHere, SchemaAssumption
    <2> QED BY <2>3, <2>4, <2>5
  <1> QED BY <1>1, <1>2

(* A step that names no table and touches those of one operation only.     *)
LEMMA StatementSpares ==
    ASSUME InstallInv, NEW r \in Runs, Aside(r), at[r] \in Amid, work[r].operations # <<>>,
           UNCHANGED registry,
           holder # r => \A t \in Tables : tables'[t] = None <=> tables[t] = None,
           \A t \in Tables :
              /\ t \notin Mentioned(Operation(r)) => tables'[t] = tables[t] /\ owner'[t] = owner[t]
              /\ owner'[t] # owner[t] => owner'[t] \in {None, Resource(r)}
              /\ owner[t] # None /\ t \notin Departing \cup Released => owner'[t] = owner[t]
              /\ tables'[t] # None /\ owner'[t] = None =>
                    (tables[t] # None /\ owner[t] = None) \/ MayBeBare(t)'
    PROVE  Spared(r)
  <1>1. \A t \in Mentioned(Operation(r)) : t \in OperationTables(r) /\ t \in MentionedBy(r)
    BY OperationHere
  <1>2. ASSUME NEW res \in Resources, NEW t \in Standing(res), Undisturbed(res, t)'
        PROVE  owner'[t] = owner[t] /\ tables'[t] # None /\ tables[t] \subseteq tables'[t]
    <2>1. t \notin Mentioned(Operation(r))
      BY <1>2, OperationSpares
    <2>2. tables[t] # None
      BY <1>2 DEF InstallInv, InstalledStands
    <2>3. t \in Tables
      <3>1. registry[res].version \in Versions
        BY <1>2, SchemaAssumption DEF Standing, Versions, InstallInv, IInv, TypeOK
      <3> QED BY <1>2, <3>1, SchemaAssumption DEF Standing
    <2> QED BY <2>1, <2>2, <2>3
  <1> QED BY <1>1, <1>2 DEF Spared

-----------------------------------------------------------------------------
(* The statements of a migration.                                          *)
LEMMA AlteredWhere ==
    ASSUME InstallInv, NEW r \in Runs, holder = r, Operating(r),
           Operation(r).type \notin {"releaseTable", "addForeignKey"},
           ~Impossible(Operation(r), work[r].actual), Needed(r, Operation(r), work[r].actual),
           tables' = Altered(Operation(r)), NEW t \in Tables
    PROVE  /\ t \notin Mentioned(Operation(r)) => tables'[t] = tables[t]
           /\ Operation(r).type = "renameTable" =>
                 /\ tables'[Operation(r).from] = None /\ tables[Operation(r).from] # None
                 /\ t # Operation(r).to /\ tables'[t] # None => tables[t] # None
           /\ Operation(r).type = "dropTable" => tables'[Operation(r).table] = None
           /\ Operation(r).type # "renameTable" /\ tables'[t] # None => tables[t] # None
  <1> DEFINE op == Operation(r)
  <1>1. tables \in [Tables -> {None} \cup SUBSET Features] /\ op \in Operations
    BY HeadTyped DEF InstallInv, IInv, TypeOK, Operating
  <1>2. \A u \in Tables : work[r].actual[u] # None => tables[u] # None
    BY DEF InstallInv, IInv, HolderAgrees, Operating, Altering, Ending
  <1> HIDE DEF op
  <1>3. CASE op.type = "renameTable"
    <2>1. op.from \in Tables /\ op.to \in Tables /\ tables[op.from] # None
      BY <1>1, <1>2, <1>3, OperationTyped DEF Needed, op
    <2>2. tables' = [tables EXCEPT ![op.to] = tables[op.from], ![op.from] = None]
      BY <1>3 DEF Altered, op
    <2>3. Mentioned(op) = {op.from, op.to}
      BY <1>3 DEF Mentioned
    <2> QED BY <1>1, <1>3, <2>1, <2>2, <2>3 DEF op
  <1>4. CASE op.type \in {"dropTable", "addFeature", "dropFeature", "renameColumn"}
    <2>1. op.table \in Tables /\ Mentioned(op) = {op.table}
      BY <1>1, <1>4, OperationTyped DEF Mentioned
    <2>2. op.type # "dropTable" => tables[op.table] # None
      BY <1>2, <1>4, <2>1 DEF Impossible, Needed, op
    <2>3. \E value : /\ tables' = [tables EXCEPT ![op.table] = value]
                     /\ op.type = "dropTable" => value = None
      BY <1>4 DEF Altered, op
    <2> QED BY <1>1, <1>4, <2>1, <2>2, <2>3 DEF op
  <1>5. CASE op.type = "sql"
    BY <1>1, <1>5 DEF Altered, op
  <1> QED BY <1>1, <1>3, <1>4, <1>5, OperationTyped DEF op

LEMMA AlterTableInstalls ==
    ASSUME InstallInv, IInv', ForwardInv', NEW r \in Runs, AlterTable(r)
    PROVE  InstallInv'
  <1> DEFINE op == Operation(r)
  <1>1. /\ at[r] = "operate" /\ at[r] \in Amid /\ Operating(r) /\ work[r].operations # <<>>
        /\ RunAgrees(r) /\ TypeOK
    BY DEF AlterTable, Operating, Amid, InstallInv, IInv
  <1>2. CASE Throw(r)
    BY <1>1, <1>2, ThrowInstalls
  <1>3. CASE ~Throw(r)
    <2>1. /\ holder = r /\ op.type \notin {"releaseTable", "addForeignKey"}
          /\ ~Impossible(op, work[r].actual) /\ Needed(r, op, work[r].actual)
          /\ tables' = Altered(op) /\ DdlAnswered(r, "reconcile", work[r])
          /\ UNCHANGED <<owner, registry, journal, adoption>>
      BY <1>3 DEF AlterTable, metadata
    <2>2. Aside(r) /\ \/ at'[r] = "reconcile" /\ work'[r] = work[r] /\ UNCHANGED <<holder, losses>>
                      \/ RunAgrees(r)'
      BY <1>1, <2>1, DdlAnsweredAside
    <2>3. op \in Operations /\ op \in AllOperations /\ op \in OperationsOf(r, 1 .. Job[r].version)
      BY <1>1, OperationHere
    <2>4. /\ \A t \in Tables : t \notin Mentioned(op) => tables'[t] = tables[t]
          /\ op.type = "renameTable" =>
                /\ tables'[op.from] = None /\ tables[op.from] # None
                /\ op.from \in Tables /\ op.to \in Tables
                /\ \A t \in Tables : t # op.to /\ tables'[t] # None => tables[t] # None
          /\ op.type = "dropTable" => tables'[op.table] = None
          /\ op.type # "renameTable" => \A t \in Tables : tables'[t] # None => tables[t] # None
      BY <1>1, <2>1, <2>3, AlteredWhere, OperationTyped
    <2>5. op.type = "renameTable" => op.to \in RenameTargets
      BY <2>3 DEF RenameTargets, Renames
    <2> HIDE DEF op
    <2>6. Spared(r)
      <3> DEFINE free == \A t \in Tables : tables'[t] # None /\ owner'[t] = None =>
                             (tables[t] # None /\ owner[t] = None) \/ MayBeBare(t)'
      <3>1. free
        BY <2>1, <2>4, <2>5, GiftsMayBeBare
      <3> HIDE DEF free
      <3> QED BY <1>1, <2>1, <2>2, <2>4, <3>1, StatementSpares DEF op, free
    <2>7. ASSUME at'[r] = "reconcile", work'[r] = work[r], UNCHANGED <<holder, losses>>
          PROVE  RunAgrees(r)'
      <3>1. Operation(r)' = op /\ Relevant(r)' = Relevant(r) /\ GivenAway(r)' = GivenAway(r)
        BY <2>7, RelevantSame DEF Operation, op, GivenAway, OperationsOf, Resource
      <3>2. Altering(r)' /\ ~Renaming(r) /\ (Renaming(r)' <=> op.type = "renameTable")
        BY <1>1, <2>1, <2>7, <3>1 DEF Altering, Needed, Renaming, op
      <3>3. WorkAgrees(r)' /\ RowAgrees(r)'
        BY <1>1, <2>1, <2>7, RelevantSame
          DEF RunAgrees, WorkAgrees, RowAgrees, Busy, Stages, Ending, Resource, Adopts
      <3>4. SightAgrees(r)'
        BY <2>4, <2>7, <3>1, <3>2 DEF SightAgrees
      <3>5. ClaimAgrees(r)' /\ VerifiedAgrees(r)'
        BY <2>7 DEF ClaimAgrees, VerifiedAgrees
      <3>6. ASSUME losses = 0, ~Adopts(r) PROVE OwnAgrees(r)'
        <4>1. \A t \in Relevant(r) :
                 /\ owner[t] \in {None, Resource(r)} /\ t \in Tables
                 /\ tables[t] # None => owner[t] = Resource(r) \/ t \in GivenAway(r)
          BY <1>1, <3>2, <3>6, RelevantTables DEF RunAgrees, OwnAgrees, Acting
        <4>2. op.type = "renameTable" => op.from \in Relevant(r)
          BY <1>1, OperationHere DEF Mentioned, op
        <4>3. op.type = "renameTable" => owner[op.from] = Resource(r) \/ op.to \in GivenAway(r)
          BY <2>3, <2>4, <4>1, <4>2, GiftsFollowRenames
        <4>4. \A t \in Relevant(r) : tables'[t] # None =>
                 owner[t] = Resource(r) \/ t \in GivenAway(r) \/ (op.type = "renameTable" /\ t = op.to)
          BY <2>4, <4>1
        <4> QED BY <2>1, <3>1, <3>2, <4>1, <4>3, <4>4 DEF OwnAgrees, Resource
      <3>7. OwnAgrees(r)'
        BY <2>7, <3>6 DEF OwnAgrees, Adopts
      <3> QED BY <3>3, <3>4, <3>5, <3>7 DEF RunAgrees
    <2> QED BY <2>1, <2>2, <2>6, <2>7, StandsKept, InstallKeeps
  <1> QED BY <1>2, <1>3

LEMMA AddOnlineForeignKeyInstalls ==
    ASSUME InstallInv, IInv', ForwardInv', NEW r \in Runs, AddOnlineForeignKey(r)
    PROVE  InstallInv'
  <1> DEFINE op == Operation(r)
  <1>1. /\ at[r] = "operate" /\ at[r] \in Amid /\ work[r].operations # <<>>
        /\ RunAgrees(r) /\ TypeOK
    BY DEF AddOnlineForeignKey, Operating, Amid, InstallInv, IInv
  <1>2. CASE Throw(r)
    BY <1>1, <1>2, ThrowInstalls
  <1>3. CASE ~Throw(r)
    <2>1. /\ op.type = "addForeignKey" /\ Needed(r, op, work[r].actual)
          /\ tables[op.table] # None /\ tables' = Altered(op)
          /\ Answered(r, "reconcile", work[r])
          /\ UNCHANGED <<owner, registry, journal, adoption, holder>>
      BY <1>3 DEF AddOnlineForeignKey, metadata
    <2>2. Aside(r) /\ losses' = losses
          /\ ((at'[r] = "reconcile" /\ work'[r] = work[r]) \/ RunAgrees(r)')
      BY <1>1, <2>1, AnsweredAside
    <2>3. op \in Operations /\ op.table \in Tables /\ op.feature \in Features
      BY <1>1, <2>1, OperationHere, OperationTyped
    <2>4. /\ tables' = [tables EXCEPT ![op.table] = @ \cup {op.feature}]
          /\ Mentioned(op) = {op.table}
      BY <2>1 DEF Altered, Mentioned
    <2> HIDE DEF op
    <2>5. \A t \in Tables : /\ t \notin Mentioned(op) => tables'[t] = tables[t]
                            /\ tables'[t] = None <=> tables[t] = None
      <3>1. \A fs \in SUBSET Features : fs # None
        BY SchemaAssumption
      <3>2. tables \in [Tables -> {None} \cup SUBSET Features]
        BY <1>1 DEF TypeOK
      <3> QED BY <2>1, <2>3, <2>4, <3>1, <3>2
    <2>6. Spared(r)
      BY <1>1, <2>1, <2>2, <2>5, StatementSpares DEF op
    <2>7. ASSUME at'[r] = "reconcile", work'[r] = work[r] PROVE RunAgrees(r)'
      <3>1. Operation(r)' = op /\ Relevant(r)' = Relevant(r) /\ GivenAway(r)' = GivenAway(r)
        BY <2>7, RelevantSame DEF Operation, op, GivenAway, OperationsOf, Resource
      <3>2. Altering(r)' /\ ~Renaming(r) /\ ~Renaming(r)'
        BY <1>1, <2>1, <2>7, <3>1 DEF Altering, Needed, Renaming, op
      <3>3. WorkAgrees(r)' /\ RowAgrees(r)'
        BY <1>1, <2>1, <2>2, <2>7, RelevantSame
          DEF RunAgrees, WorkAgrees, RowAgrees, Busy, Stages, Ending, Resource, Adopts
      <3>4. SightAgrees(r)' /\ ClaimAgrees(r)' /\ VerifiedAgrees(r)'
        BY <2>1, <2>7, <3>1, <3>2 DEF SightAgrees, ClaimAgrees, VerifiedAgrees
      <3>5. OwnAgrees(r)'
        BY <1>1, <2>1, <2>2, <2>5, <2>7, <3>1, <3>2, RelevantTables
          DEF RunAgrees, OwnAgrees, Acting, Amid, Resource, Adopts
      <3> QED BY <3>3, <3>4, <3>5 DEF RunAgrees
    <2> QED BY <2>1, <2>2, <2>6, <2>7, StandsKept, InstallKeeps
  <1> QED BY <1>2, <1>3

LEMMA ReleaseTableInstalls ==
    ASSUME InstallInv, IInv', ForwardInv', NEW r \in Runs, ReleaseTable(r)
    PROVE  InstallInv'
  <1> DEFINE op == Operation(r)
  <1>1. /\ at[r] = "operate" /\ at[r] \in Amid /\ work[r].operations # <<>>
        /\ RunAgrees(r) /\ TypeOK /\ op.type = "releaseTable" /\ owner[op.table] = Resource(r)
        /\ owner' = [owner EXCEPT ![op.table] = None]
        /\ Answered(r, "reconcile", work[r])
        /\ UNCHANGED <<tables, registry, journal, adoption, holder>>
    BY DEF ReleaseTable, Needed, Operating, Amid, InstallInv, IInv
  <1>2. Aside(r) /\ losses' = losses
        /\ ((at'[r] = "reconcile" /\ work'[r] = work[r]) \/ RunAgrees(r)')
    BY <1>1, AnsweredAside
  <1>3. /\ op \in Operations /\ op.table \in Tables /\ Mentioned(op) = {op.table}
        /\ op \in OperationsOf(r, 1 .. Job[r].version) /\ op \in AllOperations
    BY <1>1, OperationHere, OperationTyped DEF Mentioned
  <1>4. op.table \in Released /\ op.table \in GivenAway(r)
    BY <1>1, <1>3, GiftsFollowRenames DEF Released
  <1> HIDE DEF op
  <1>5. \A t \in Tables : owner'[t] = IF t = op.table THEN None ELSE owner[t]
    BY <1>1 DEF TypeOK
  <1>6. Spared(r)
    BY <1>1, <1>2, <1>3, <1>4, <1>5, GiftsMayBeBare, StatementSpares DEF op
  <1>7. ASSUME at'[r] = "reconcile", work'[r] = work[r] PROVE RunAgrees(r)'
    <2>1. Operation(r)' = op /\ Relevant(r)' = Relevant(r) /\ GivenAway(r)' = GivenAway(r)
      BY <1>7, RelevantSame DEF Operation, op, GivenAway, OperationsOf, Resource
    <2>2. ~Altering(r)' /\ ~Renaming(r) /\ ~Renaming(r)' /\ ~Altering(r) /\ Sighted(r)
      BY <1>1, <1>7, <2>1 DEF Altering, Renaming, Sighted
    <2>3. WorkAgrees(r)' /\ RowAgrees(r)'
      BY <1>1, <1>2, <1>7, RelevantSame
        DEF RunAgrees, WorkAgrees, RowAgrees, Busy, Stages, Ending, Resource, Adopts
    <2>4. SightAgrees(r)' /\ ClaimAgrees(r)' /\ VerifiedAgrees(r)'
      BY <1>1, <1>7, <2>1, <2>2 DEF RunAgrees, SightAgrees, ClaimAgrees, VerifiedAgrees
    <2>5. OwnAgrees(r)'
      BY <1>1, <1>2, <1>4, <1>5, <1>7, <2>1, <2>2, RelevantTables
        DEF RunAgrees, OwnAgrees, Acting, Amid, Resource, Adopts
    <2> QED BY <2>3, <2>4, <2>5 DEF RunAgrees
  <1> QED BY <1>1, <1>2, <1>6, <1>7, StandsKept, InstallKeeps

-----------------------------------------------------------------------------
(* The rows follow the tables.                                             *)
LEMMA ReconcileOwnershipInstalls ==
    ASSUME InstallInv, IInv', ForwardInv', NEW r \in Runs, ReconcileOwnership(r)
    PROVE  InstallInv'
  <1> DEFINE op == Operation(r)
             what == [work[r] EXCEPT !.operations = Tail(@)]
             where == IF Altering(r) THEN "refresh" ELSE "operate"
  <1>1. /\ at[r] = "reconcile" /\ at[r] \in Amid /\ work[r].operations # <<>> /\ work[r] \in Notes
        /\ RunAgrees(r) /\ TypeOK
    BY DEF ReconcileOwnership, Amid, InstallInv, IInv, StageAgrees, TypeOK
  <1>2. CASE Throw(r)
    BY <1>1, <1>2, ThrowInstalls
  <1>3. CASE ~Throw(r)
    <2>1. /\ ~RenameConflict(r, op)
          /\ owner' = CASE op.type = "renameTable" -> Renamed(r, op.from, op.to)
                        [] op.type = "dropTable" -> Disowned(r, op.table)
                        [] OTHER -> owner
          /\ Answered(r, where, what)
          /\ UNCHANGED <<tables, registry, journal, adoption, holder>>
      BY <1>1, <1>3 DEF ReconcileOwnership, Altering
    <2>2. /\ what.registry = work[r].registry /\ what.migrations = work[r].migrations
          /\ what.actual = work[r].actual
      BY <1>1 DEF Notes
    <2>3. where \in {"refresh", "operate"} /\ (where = "refresh" <=> Altering(r))
      OBVIOUS
    <2> HIDE DEF what, where
    <2>4. Aside(r) /\ losses' = losses /\ ((at'[r] = where /\ work'[r] = what) \/ RunAgrees(r)')
      BY <1>1, <2>1, AnsweredAside
    <2>5. /\ op \in Operations /\ op \in AllOperations
          /\ Mentioned(op) \subseteq Relevant(r) /\ Mentioned(op) \subseteq Tables
      BY <1>1, OperationHere
    <2>6. holder = r =>
             /\ op.type = "renameTable" => tables[op.from] = None
             /\ op.type = "dropTable" => tables[op.table] = None
      <3> SUFFICES ASSUME holder = r
                   PROVE  /\ op.type = "renameTable" => tables[op.from] = None
                          /\ op.type = "dropTable" => tables[op.table] = None
        OBVIOUS
      <3>1. CASE Altering(r)
        BY <1>1, <3>1 DEF RunAgrees, SightAgrees, Renaming
      <3>2. CASE ~Altering(r)
        <4>1. \A t \in Tables : work[r].actual[t] = None => tables[t] = None
          BY <1>1, <3>2 DEF RunAgrees, SightAgrees, Sighted
        <4>2. op.type # "releaseTable" => ~Needed(r, op, work[r].actual)
          BY <1>1, <3>2 DEF Altering
        <4> QED BY <2>5, <4>1, <4>2, OperationTyped DEF Needed
      <3> QED BY <3>1, <3>2
    (* The rows that change: to the resource, or away from it.             *)
    <2>7. \A t \in Tables :
             \/ owner'[t] = owner[t]
             \/ /\ op.type = "renameTable" /\ t = op.to /\ owner[op.from] = Resource(r)
                /\ owner[t] = None /\ owner'[t] = Resource(r)
             \/ /\ \/ op.type = "renameTable" /\ t = op.from
                   \/ op.type = "dropTable" /\ t = op.table
                /\ owner[t] = Resource(r) /\ owner'[t] = None
      <3>1. owner \in [Tables -> Resources \cup {None}] /\ Resource(r) # None
        BY <1>1, JobTyped, SchemaAssumption DEF TypeOK
      <3>2. CASE op.type = "renameTable"
        BY <2>1, <2>5, <3>1, <3>2, OperationTyped DEF Renamed, RenameConflict
      <3>3. CASE op.type = "dropTable"
        BY <2>1, <2>5, <3>1, <3>3, OperationTyped DEF Disowned
      <3>4. CASE op.type \notin {"renameTable", "dropTable"}
        BY <2>1, <3>4
      <3> QED BY <3>2, <3>3, <3>4
    <2>8. op.type = "renameTable" =>
             /\ op.from \in Mentioned(op) /\ op.to \in Mentioned(op)
             /\ owner[op.from] = Resource(r) => owner'[op.to] = Resource(r)
      <3>1. owner \in [Tables -> Resources \cup {None}] /\ Resource(r) # None
        BY <1>1, JobTyped, SchemaAssumption DEF TypeOK
      <3> QED BY <2>1, <2>5, <3>1, OperationTyped DEF Renamed, RenameConflict, Mentioned
    <2>9. op.type = "dropTable" => op.table \in Mentioned(op)
      BY DEF Mentioned
    <2>10. /\ op.type = "renameTable" => op.from \in Departing
           /\ op.type = "dropTable" => op.table \in Departing
      BY <2>5 DEF Departing, Renames
    <2>11. losses' = 0 => holder = r /\ losses = 0
      BY <1>1, <2>4 DEF InstallInv, ForwardInv
    <2> DEFINE MayLose == losses' # 0 => \A t \in Departing : MayBeBare(t)'
    <2>12. MayLose
      BY DEF MayBeBare, Departing, Renames
    <2> HIDE DEF op, MayLose
    <2>13. \A t \in Tables : tables'[t] # None /\ owner'[t] = None =>
              (tables[t] # None /\ owner[t] = None) \/ MayBeBare(t)'
      <3> TAKE t \in Tables
      <3> HAVE tables'[t] # None /\ owner'[t] = None
      <3>1. CASE owner'[t] = owner[t]
        BY <2>1, <3>1
      <3>2. CASE owner'[t] # owner[t]
        <4>1. \/ op.type = "renameTable" /\ t = op.from
              \/ op.type = "dropTable" /\ t = op.table
          BY <2>7, <3>2
        <4>2. losses' # 0
          BY <2>1, <2>6, <2>11, <4>1
        <4> QED BY <2>10, <2>12, <4>1, <4>2 DEF MayLose
      <3> QED BY <3>1, <3>2
    <2>14. Spared(r)
      <3> DEFINE bare == \A t \in Tables : tables'[t] # None /\ owner'[t] = None =>
                            (tables[t] # None /\ owner[t] = None) \/ MayBeBare(t)'
      <3>1. bare
        BY <2>13
      <3>2. \A t \in Tables :
               /\ t \notin Mentioned(op) => tables'[t] = tables[t] /\ owner'[t] = owner[t]
               /\ owner'[t] # owner[t] => owner'[t] \in {None, Resource(r)}
               /\ owner[t] # None /\ t \notin Departing \cup Released => owner'[t] = owner[t]
        BY <2>1, <2>7, <2>8, <2>9, <2>10
      <3> HIDE DEF bare
      <3> QED BY <1>1, <2>1, <2>4, <3>1, <3>2, StatementSpares DEF op, bare
    <2>15. ASSUME at'[r] = where, work'[r] = what PROVE RunAgrees(r)'
      <3>1. Relevant(r)' = Relevant(r) /\ GivenAway(r)' = GivenAway(r)
        BY <2>2, <2>15, RelevantSame DEF GivenAway, OperationsOf, Resource
      <3>2. /\ ~Renaming(r)' /\ at'[r] # "reconcile" /\ Sighted(r)
            /\ Altering(r)' <=> Altering(r)
        BY <1>1, <2>3, <2>15 DEF Altering, Renaming, Sighted
      <3>3. WorkAgrees(r)' /\ RowAgrees(r)'
        BY <1>1, <2>1, <2>2, <2>3, <2>4, <2>15, RelevantSame
          DEF RunAgrees, WorkAgrees, RowAgrees, Busy, Stages, Ending, Resource, Adopts
      <3>4. SightAgrees(r)' /\ ClaimAgrees(r)' /\ VerifiedAgrees(r)'
        BY <1>1, <2>1, <2>2, <2>3, <2>15, <3>2
          DEF RunAgrees, SightAgrees, ClaimAgrees, VerifiedAgrees
      <3>5. ASSUME losses = 0, ~Adopts(r) PROVE OwnAgrees(r)'
        <4>1. holder = r
          BY <2>4, <2>11, <3>5
        <4>2. \A t \in Relevant(r) :
                 /\ owner[t] \in {None, Resource(r)} /\ t \in Tables
                 /\ tables[t] # None =>
                       \/ owner[t] = Resource(r) \/ t \in GivenAway(r)
                       \/ Renaming(r) /\ t = op.to
          BY <1>1, <3>5, RelevantTables DEF RunAgrees, OwnAgrees, Acting, op
        <4>3. Renaming(r) => owner[op.from] = Resource(r) \/ op.to \in GivenAway(r)
          BY <1>1, <3>5 DEF RunAgrees, OwnAgrees, op
        <4>4. \A t \in Relevant(r) : owner'[t] \in {None, Resource(r)}
          BY <2>7, <4>2
        <4>5. ASSUME NEW t \in Relevant(r), tables[t] # None
              PROVE  owner'[t] = Resource(r) \/ t \in GivenAway(r)
          <5>1. owner'[t] = owner[t] \/ owner'[t] = Resource(r)
            BY <2>6, <2>7, <4>1, <4>2, <4>5
          <5>2. CASE Renaming(r) /\ t = op.to
            <6>1. op.type = "renameTable"
              BY <5>2 DEF Renaming, op
            <6> QED BY <2>8, <4>3, <5>2, <6>1
          <5> QED BY <4>2, <4>5, <5>1, <5>2
        <4> QED BY <2>1, <2>15, <3>1, <3>2, <4>4, <4>5 DEF OwnAgrees, Resource
      <3>6. OwnAgrees(r)'
        BY <2>4, <3>5 DEF OwnAgrees, Adopts
      <3> QED BY <3>3, <3>4, <3>6 DEF RunAgrees
    <2> QED BY <2>1, <2>4, <2>14, <2>15, StandsKept, InstallKeeps
  <1> QED BY <1>2, <1>3

-----------------------------------------------------------------------------
(* The claims, the changes of the plan, and the row that registers them.   *)
LEMMA ClaimTableInstalls ==
    ASSUME InstallInv, IInv', ForwardInv', NEW r \in Runs, ClaimTable(r)
    PROVE  InstallInv'
  <1>1. /\ at[r] \in {"claim", "reclaim"} /\ work[r] \in Notes /\ RunAgrees(r) /\ TypeOK
        /\ work[r].claims \subseteq DOMAIN Wanted(r) /\ DOMAIN Wanted(r) \subseteq Tables
        /\ DOMAIN Wanted(r) \subseteq MentionedBy(r)
    BY JobTyped DEF ClaimTable, InstallInv, IInv, TypeOK, RunAgrees, WorkAgrees, MentionedBy
  <1>2. CASE Throw(r)
    BY <1>1, <1>2, ThrowInstalls
  <1>3. CASE ~Throw(r)
    <2>1. PICK t \in work[r].claims :
             /\ owner[t] \in {None, Resource(r)}
             /\ owner' = [owner EXCEPT ![t] = Resource(r)]
             /\ Answered(r, IF work[r].claims \ {t} # {} THEN at[r]
                            ELSE IF at[r] = "claim" THEN "apply" ELSE "register",
                         [work[r] EXCEPT !.claims = work[r].claims \ {t}])
             /\ UNCHANGED <<tables, registry, journal, adoption, holder>>
      BY <1>3 DEF ClaimTable
    <2> DEFINE left == work[r].claims \ {t}
               what == [work[r] EXCEPT !.claims = left]
               where == IF left # {} THEN at[r] ELSE IF at[r] = "claim" THEN "apply" ELSE "register"
    <2>2. /\ what.registry = work[r].registry /\ what.migrations = work[r].migrations
          /\ what.plan = work[r].plan /\ what.claims = left
      BY <1>1 DEF Notes
    <2>3. /\ where \in {"claim", "apply", "reclaim", "register"}
          /\ where = "claim" <=> at[r] = "claim" /\ left # {}
          /\ where = "reclaim" <=> at[r] = "reclaim" /\ left # {}
          /\ where = "apply" => at[r] = "claim"
          /\ where = "register" => at[r] = "reclaim"
      BY <1>1
    <2>4. Answered(r, where, what)
      BY <2>1
    <2> HIDE DEF what, where
    <2>5. Aside(r) /\ losses' = losses /\ ((at'[r] = where /\ work'[r] = what) \/ RunAgrees(r)')
      BY <1>1, <2>1, <2>4, AnsweredAside
    <2>6. /\ t \in Tables /\ t \in DOMAIN Wanted(r) /\ Resource(r) # None
          /\ \A u \in Tables : owner'[u] = IF u = t THEN Resource(r) ELSE owner[u]
      BY <1>1, <2>1, JobTyped, SchemaAssumption DEF TypeOK
    <2>7. ASSUME NEW res \in Resources, NEW u \in Standing(res)
          PROVE  owner'[u] = owner[u] /\ tables[u] # None
      <3>1. owner[u] = res /\ tables[u] # None
        BY DEF InstallInv, InstalledStands
      <3>2. u # t \/ owner[u] = Resource(r)
        BY <2>1, <2>6, <3>1, SchemaAssumption
      <3> QED BY <2>1, <2>6, <3>1, <3>2 DEF InstallInv, IInv, TypeOK
    <2>8. Spared(r)
      BY <1>1, <2>1, <2>6, <2>7 DEF Spared
    <2>9. ASSUME at'[r] = where, work'[r] = what PROVE RunAgrees(r)'
      <3>1. /\ Relevant(r)' = Relevant(r) /\ GivenAway(r)' = GivenAway(r)
            /\ ~Renaming(r) /\ ~Renaming(r)' /\ ~Sighted(r)'
        BY <1>1, <2>2, <2>3, <2>9, RelevantSame
          DEF GivenAway, OperationsOf, Resource, Renaming, Sighted, Amid
      <3>2. WorkAgrees(r)' /\ RowAgrees(r)'
        BY <1>1, <2>1, <2>2, <2>3, <2>5, <2>9, RelevantSame
          DEF RunAgrees, WorkAgrees, RowAgrees, Busy, Stages, Ending, Resource, Adopts, Wanted
      <3>3. SightAgrees(r)'
        BY <1>1, <2>1, <2>2, <2>3, <2>9, <3>1 DEF RunAgrees, SightAgrees
      <3>4. ClaimAgrees(r)'
        <4> SUFFICES ASSUME where \in {"claim", "apply"}, NEW c \in work[r].plan, c.feature = None,
                            losses # 0 => c.table \notin Departing \cup Released
                     PROVE  owner'[c.table] = Resource(r) \/ (where = "claim" /\ c.table \in left)
          BY <2>2, <2>5, <2>9 DEF ClaimAgrees, Departing, Released, Renames, Resource
        <4>1. owner[c.table] = Resource(r) \/ c.table \in work[r].claims
          BY <1>1, <2>3 DEF RunAgrees, ClaimAgrees
        <4>2. c.table \in Tables
          BY <1>1 DEF Notes
        <4> QED BY <1>1, <2>3, <2>6, <4>1, <4>2
      <3>5. VerifiedAgrees(r)'
        <4> SUFFICES ASSUME where \in {"reclaim", "register"}, NEW u \in DOMAIN Wanted(r),
                            Undisturbed(Resource(r), u)'
                     PROVE  /\ tables[u] # None /\ Wanted(r)[u] \subseteq tables[u]
                            /\ owner'[u] = Resource(r) \/ (where = "reclaim" /\ u \in left)
          BY <2>1, <2>2, <2>9 DEF VerifiedAgrees, Wanted, Resource, Undisturbed, Rivals
        <4>1. Undisturbed(Resource(r), u)
          BY <2>5, LossesOnly
        <4>2. /\ tables[u] # None /\ Wanted(r)[u] \subseteq tables[u]
              /\ owner[u] = Resource(r) \/ u \in work[r].claims
          BY <1>1, <2>3, <4>1 DEF RunAgrees, VerifiedAgrees
        <4> QED BY <1>1, <2>3, <2>6, <4>2
      <3>6. OwnAgrees(r)'
        <4> SUFFICES ASSUME losses = 0, ~Adopts(r), at[r] = "claim"
                     PROVE  OwnAgrees(r)'
          BY <1>1, <2>3, <2>5, <2>9, <3>1 DEF OwnAgrees, Acting, Amid, Adopts
        <4>1. \A u \in Relevant(r) :
                 /\ owner[u] \in {None, Resource(r)} /\ u \in Tables
                 /\ tables[u] # None => owner[u] = Resource(r) \/ u \in GivenAway(r)
          BY <1>1, <3>1, RelevantTables DEF RunAgrees, OwnAgrees, Acting
        <4> QED BY <2>1, <2>6, <3>1, <4>1 DEF OwnAgrees, Resource
      <3> QED BY <3>2, <3>3, <3>4, <3>5, <3>6 DEF RunAgrees
    <2> QED BY <2>1, <2>5, <2>8, <2>9, StandsKept, InstallKeeps
  <1> QED BY <1>2, <1>3

LEMMA ApplyChangeInstalls ==
    ASSUME InstallInv, IInv', ForwardInv', NEW r \in Runs, ApplyChange(r)
    PROVE  InstallInv'
  <1>1. at[r] = "apply" /\ work[r] \in Notes /\ RunAgrees(r) /\ TypeOK /\ StageAgrees(r) /\ HolderAgrees(r)
    BY DEF ApplyChange, InstallInv, IInv, TypeOK
  <1>2. CASE Throw(r)
    BY <1>1, <1>2, ThrowInstalls
  <1>3. CASE ~Throw(r)
    <2>1. PICK c \in work[r].plan :
             /\ holder = r
             /\ tables' = [tables EXCEPT ![c.table] =
                              IF c.feature = None THEN Wanted(r)[c.table] ELSE @ \cup {c.feature}]
             /\ DdlAnswered(r, "apply", [work[r] EXCEPT !.plan = work[r].plan \ {c}])
             /\ UNCHANGED <<owner, registry, journal, adoption>>
      BY <1>3 DEF ApplyChange, metadata
    <2> DEFINE what == [work[r] EXCEPT !.plan = work[r].plan \ {c}]
    <2>2. /\ what.registry = work[r].registry /\ what.migrations = work[r].migrations
          /\ what.plan = work[r].plan \ {c}
      BY <1>1 DEF Notes
    <2>3. DdlAnswered(r, "apply", what)
      BY <2>1
    <2> HIDE DEF what
    <2>4. Aside(r) /\ \/ at'[r] = "apply" /\ work'[r] = what /\ UNCHANGED <<holder, losses>>
                      \/ RunAgrees(r)'
      BY <1>1, <2>3, DdlAnsweredAside
    <2>5. \A d \in work[r].plan :
             /\ d \in [table : Tables, feature : Features \cup {None}]
             /\ d.table \in DOMAIN Wanted(r)
             /\ d.feature = None <=> tables[d.table] = None
      BY <1>1, <2>1 DEF Notes, StageAgrees, HolderAgrees, RunAgrees, SightAgrees
    <2>6. \A t \in Tables :
             /\ t # c.table => tables'[t] = tables[t]
             /\ tables[t] # None => tables'[t] # None /\ tables[t] \subseteq tables'[t]
      <3>1. /\ tables \in [Tables -> {None} \cup SUBSET Features]
            /\ \A fs \in SUBSET Features : fs # None
        BY <1>1, SchemaAssumption DEF TypeOK
      <3> QED BY <2>1, <2>5, <3>1
    <2>7. c.feature = None /\ owner[c.table] = None =>
             losses # 0 /\ c.table \in Departing \cup Released
      <3>1. Resource(r) # None
        BY JobTyped, SchemaAssumption
      <3> QED BY <1>1, <3>1 DEF RunAgrees, ClaimAgrees
    <2>8. losses' = 0 => losses = 0
      BY <2>4 DEF Aside
    <2>9. \A t \in Tables : tables'[t] # None /\ owner'[t] = None =>
             (tables[t] # None /\ owner[t] = None) \/ MayBeBare(t)'
      <3> TAKE t \in Tables
      <3> HAVE tables'[t] # None /\ owner'[t] = None
      <3>1. CASE tables[t] # None
        BY <2>1, <3>1
      <3>2. CASE tables[t] = None
        <4>1. t = c.table /\ c.feature = None /\ owner[c.table] = None
          BY <2>1, <2>5, <2>6, <3>2
        <4>2. losses # 0 /\ t \in Departing \cup Released
          BY <2>7, <4>1
        <4>3. MayBeBare(t)
          BY <4>2 DEF MayBeBare
        <4> QED BY <2>8, <4>3, LossesOnly
      <3> QED BY <3>1, <3>2
    <2>10. Spared(r)
      <3> DEFINE bare == \A t \in Tables : tables'[t] # None /\ owner'[t] = None =>
                            (tables[t] # None /\ owner[t] = None) \/ MayBeBare(t)'
      <3>1. bare
        BY <2>9
      <3> HIDE DEF bare
      <3>2. \A res \in Resources : \A t \in Standing(res) :
               owner[t] = res /\ tables[t] # None /\ t \in Tables
        <4> TAKE res \in Resources
        <4> TAKE t \in Standing(res)
        <4>1. registry[res].version \in Versions
          BY <1>1, SchemaAssumption DEF Standing, Versions, TypeOK
        <4> QED BY <4>1, SchemaAssumption DEF InstallInv, InstalledStands, Standing
      <3> QED BY <2>1, <2>6, <3>1, <3>2 DEF Spared, bare
    <2>11. ASSUME at'[r] = "apply", work'[r] = what, UNCHANGED <<holder, losses>>
           PROVE  RunAgrees(r)'
      <3>1. /\ Relevant(r)' = Relevant(r) /\ GivenAway(r)' = GivenAway(r)
            /\ ~Renaming(r) /\ ~Renaming(r)' /\ ~Sighted(r)'
        BY <1>1, <2>2, <2>11, RelevantSame
          DEF GivenAway, OperationsOf, Resource, Renaming, Sighted, Amid
      <3>2. WorkAgrees(r)' /\ RowAgrees(r)'
        BY <1>1, <2>1, <2>2, <2>11, RelevantSame
          DEF RunAgrees, WorkAgrees, RowAgrees, Busy, Stages, Ending, Resource, Adopts
      <3>3. SightAgrees(r)'
        <4>1. ASSUME NEW d \in work[r].plan, d # c, d.feature = None PROVE tables'[d.table] = None
          <5>1. d.table # c.table
            BY <2>5, <4>1
          <5> QED BY <2>5, <2>6, <4>1, <5>1
        <4> QED BY <2>2, <2>11, <3>1, <4>1 DEF SightAgrees
      <3>4. ClaimAgrees(r)' /\ VerifiedAgrees(r)'
        BY <1>1, <2>1, <2>2, <2>11
          DEF RunAgrees, ClaimAgrees, VerifiedAgrees, Resource, Departing, Released, Renames
      <3>5. ASSUME losses = 0, ~Adopts(r) PROVE OwnAgrees(r)'
        <4>1. \A t \in Relevant(r) :
                 /\ owner[t] \in {None, Resource(r)} /\ t \in Tables
                 /\ tables[t] # None => owner[t] = Resource(r) \/ t \in GivenAway(r)
          BY <1>1, <3>1, <3>5, RelevantTables DEF RunAgrees, OwnAgrees, Acting
        <4>2. c.feature = None => owner[c.table] = Resource(r)
          BY <1>1, <3>5 DEF RunAgrees, ClaimAgrees
        <4>3. \A t \in Relevant(r) : tables'[t] # None => owner[t] = Resource(r) \/ t \in GivenAway(r)
          BY <2>5, <2>6, <4>1, <4>2
        <4> QED BY <2>1, <3>1, <4>1, <4>3 DEF OwnAgrees, Resource
      <3>6. OwnAgrees(r)'
        BY <2>11, <3>5 DEF OwnAgrees, Adopts
      <3> QED BY <3>2, <3>3, <3>4, <3>6 DEF RunAgrees
    <2> QED BY <2>1, <2>4, <2>10, <2>11, StandsKept, InstallKeeps
  <1> QED BY <1>2, <1>3

LEMMA WriteRegistryInstalls ==
    ASSUME InstallInv, IInv', ForwardInv', NEW r \in Runs, WriteRegistry(r)
    PROVE  InstallInv'
  <1>1. /\ at[r] = "register" /\ RunAgrees(r) /\ TypeOK
        /\ registry' = [registry EXCEPT ![Resource(r)] =
                           [version |-> Job[r].version, tables |-> DOMAIN Wanted(r)]]
        /\ Answered(r, IF Adopts(r) THEN "finish" ELSE "unlock", work[r])
        /\ UNCHANGED <<tables, owner, journal, adoption, holder>>
    BY DEF WriteRegistry, InstallInv, IInv
  <1>2. /\ Aside(r) /\ losses' = losses
        /\ \/ at'[r] \in {"finish", "unlock"} /\ work'[r] = work[r]
           \/ RunAgrees(r)'
    BY <1>1, AnsweredAside
  <1>3. WorkAgrees(r)' \/ RunAgrees(r)'
    BY <1>1, <1>2, RelevantSame DEF RunAgrees, WorkAgrees
  <1>4. RunAgrees(r)'
    BY <1>2, <1>3, OffStage DEF Ending
  <1>5. Spared(r)
    BY <1>1 DEF Spared, InstallInv, InstalledStands, TypeOK
  <1>6. InstalledStands'
    <2> SUFFICES ASSUME NEW res \in Resources, NEW t \in Standing(res)'
                 PROVE  /\ owner[t] = res /\ tables[t] # None
                        /\ Declared[res][registry'[res].version][t] \subseteq tables[t]
      BY <1>1 DEF InstalledStands
    <2>1. Undisturbed(res, t)
      BY <1>2, LossesOnly DEF Standing
    <2>2. CASE res = Resource(r)
      <3>1. registry'[res].version = Job[r].version
        BY <1>1, <2>2 DEF TypeOK
      <3>2. t \in DOMAIN Wanted(r)
        BY <2>2, <3>1 DEF Standing, Wanted
      <3> QED BY <1>1, <2>1, <2>2, <3>1, <3>2 DEF RunAgrees, VerifiedAgrees, Wanted
    <2>3. CASE res # Resource(r)
      <3>1. registry'[res] = registry[res]
        BY <1>1, <2>3 DEF TypeOK
      <3>2. t \in Standing(res)
        BY <2>1, <3>1 DEF Standing, Rivals, MentionedBy, Adopts, Resource, Wanted, OperationsOf, OperationsAt
      <3> QED BY <3>1, <3>2 DEF InstallInv, InstalledStands
    <2> QED BY <2>2, <2>3
  <1> QED BY <1>2, <1>4, <1>5, <1>6, InstallKeeps

-----------------------------------------------------------------------------
LEMMA InitInstalls == Init => InstallInv
  <1> SUFFICES ASSUME Init PROVE InstallInv
    OBVIOUS
  <1>1. IInv /\ ForwardInv
    BY InitInvariant DEF Init, ForwardInv
  <1>2. OwnersMention /\ CreatedMeansOwned
    BY DEF Init, Nothing, OwnersMention, CreatedMeansOwned, MayBeBare
  <1>3. InstalledStands
    BY DEF Init, Blank, InstalledStands, Standing
  <1>4. ASSUME NEW r \in Runs PROVE RunAgrees(r)
    <2>1. at[r] = "idle" /\ work[r].migrations = {} /\ ~Sighted(r) /\ ~Renaming(r)
      BY DEF Init, Blank, Sighted, Renaming, Amid
    <2> QED BY <2>1 DEF RunAgrees, WorkAgrees, SightAgrees, ClaimAgrees, VerifiedAgrees, RowAgrees,
          OwnAgrees, Busy, Acting, Amid
  <1> QED BY <1>1, <1>2, <1>3, <1>4 DEF InstallInv

LEMMA NextInstalls == InstallInv /\ [Next]_vars => InstallInv'
  <1> SUFFICES ASSUME InstallInv, [Next]_vars PROVE InstallInv'
    OBVIOUS
  <1>1. IInv' /\ ForwardInv'
    BY NextInvariant, NextForward DEF InstallInv, IInv
  <1>2. ASSUME NEW r \in Runs, Step(r) PROVE InstallInv'
    BY <1>1, <1>2, ReadRegistryInstalls, ReadAdoptionInstalls, ReadJournalInstalls,
       CheckOwnershipInstalls, IntrospectInstalls, RefuseInstalls,
       WriteAdoptionBaselineInstalls, StartMigrationInstalls, BeginMigrationInstalls,
       SkipOperationInstalls, AlterTableInstalls, AddOnlineForeignKeyInstalls,
       ReleaseTableInstalls, ReconcileOwnershipInstalls, CompleteMigrationInstalls,
       FailMigrationInstalls, PlanChangesInstalls, ClaimTableInstalls, ApplyChangeInstalls,
       VerifyInstalls, WriteRegistryInstalls, FinishAdoptionInstalls, FailAdoptionInstalls,
       ReleaseLockInstalls
    DEF Step
  <1>3. CASE Next
    BY <1>1, <1>2, <1>3, AcquireLockInstalls, RefusedInstalls, LoseSessionInstalls, CrashInstalls
    DEF Next
  <1> QED BY <1>1, <1>3, StutterInstalls

(* The invariant behind the theorems below: what a run has read of the     *)
(* registry, of the tables and of their owners, and what it may conclude   *)
(* from it while it holds the lock, or once somebody has lost it.          *)
THEOREM InstallInductive == Spec => []InstallInv
  BY InitInstalls, NextInstalls, PTL DEF Spec

(* A table that ensure() or adopt() created has an owner as long as it is  *)
(* there: claimTables() comes before CREATE TABLE (manager.ts:974), and   *)
(* whichever statement is the last one a server lives to make, the next    *)
(* start does not take the table for somebody else's.                      *)
THEOREM CreatedIsOwned == Spec => []CreatedMeansOwned
  <1>1. InstallInv => CreatedMeansOwned
    BY DEF InstallInv
  <1> QED BY <1>1, InstallInductive, PTL

(* What the registry says is installed is there, complete and owned,       *)
(* through later installations, migrations, adoptions, crashes and lost    *)
(* sessions: the row is written only after the tables were verified and    *)
(* claimed, and whoever alters a table has looked for its owner first.     *)
THEOREM InstalledKeepsStanding == Spec => []InstalledStands
  <1>1. InstallInv => InstalledStands
    BY DEF InstallInv
  <1> QED BY <1>1, InstallInductive, PTL

-----------------------------------------------------------------------------
(* Who changes which tables.                                               *)
LEMMA OthersChangeNothing ==
    ASSUME NEW r \in Runs, Step(r) \/ AcquireLock(r) \/ Refused(r) \/ LoseSession(r) \/ Crash(r),
           ~AlterTable(r), ~AddOnlineForeignKey(r), ~ApplyChange(r)
    PROVE  tables' = tables
  <1>1. ASSUME Throw(r) PROVE tables' = tables
    BY <1>1 DEF Throw
  <1>2. ASSUME NEW where, NEW what, Reads(r, where, what) PROVE tables' = tables
    BY <1>2 DEF Reads
  <1>3. ASSUME NEW status, Journal(r, status) \/ AdoptionStatus(r, status) PROVE tables' = tables
    BY <1>3 DEF Journal, AdoptionStatus
  <1>4. CASE ReadRegistry(r) \/ ReadAdoption(r) \/ ReadJournal(r) \/ CheckOwnership(r)
               \/ Introspect(r) \/ RefuseImplicitAdoption(r)
    BY <1>1, <1>2, <1>4
    DEF ReadRegistry, ReadAdoption, ReadJournal, CheckOwnership, Introspect, RefuseImplicitAdoption
  <1>5. CASE WriteAdoptionBaseline(r) \/ StartMigration(r) \/ BeginMigration(r) \/ SkipOperation(r)
               \/ ReleaseTable(r) \/ ReconcileOwnership(r) \/ CompleteMigration(r)
    BY <1>1, <1>2, <1>3, <1>5
    DEF WriteAdoptionBaseline, StartMigration, BeginMigration, SkipOperation, ReleaseTable,
        ReconcileOwnership, CompleteMigration
  <1>6. CASE FailMigration(r) \/ PlanChanges(r) \/ ClaimTable(r) \/ Verify(r)
               \/ WriteRegistry(r) \/ FinishAdoption(r) \/ FailAdoption(r) \/ ReleaseLock(r)
    BY <1>1, <1>2, <1>3, <1>6
    DEF FailMigration, PlanChanges, ClaimTable, Verify, WriteRegistry, FinishAdoption, FailAdoption,
        ReleaseLock
  <1>7. CASE AcquireLock(r) \/ Refused(r) \/ LoseSession(r) \/ Crash(r)
    BY <1>7 DEF AcquireLock, Refused, LoseSession, Crash
  <1> QED BY <1>4, <1>5, <1>6, <1>7 DEF Step

(* A run at work finds its tables its own, given away, or, when it resumes *)
(* an adoption, a rival's.                                                 *)
LEMMA AtWork ==
    ASSUME InstallInv, NEW r \in Runs, at[r] \in {"operate", "apply"}, losses = 0,
           NEW t \in Relevant(r), tables[t] # None
    PROVE  \/ owner[t] = Resource(r)
           \/ owner[t] = None /\ (Adopts(r) \/ t \in GivenAway(r))
           \/ Adopts(r) /\ Rivals(Resource(r), t) # {}
  <1>1. t \in Tables /\ RunAgrees(r)
    BY RelevantTables DEF InstallInv, IInv
  <1>2. CASE Adopts(r)
    BY <1>1, <1>2 DEF InstallInv, OwnersMention, Rivals
  <1>3. CASE ~Adopts(r)
    BY <1>1, <1>3 DEF RunAgrees, OwnAgrees, Acting, Amid, Renaming
  <1> QED BY <1>2, <1>3

LEMMA ChangesOwn ==
    ASSUME InstallInv, Next, losses' = 0, NEW t \in Tables, NEW r \in Runs, ChangedBy(t, r)
    PROVE  \/ owner[t] = Resource(r)
           \/ owner[t] = None /\ (Adopts(r) \/ t \in GivenAway(r))
           \/ Adopts(r) /\ Rivals(Resource(r), t) # {}
  <1>1. PICK u \in Runs : Step(u) \/ AcquireLock(u) \/ Refused(u) \/ LoseSession(u) \/ Crash(u)
    BY DEF Next
  <1>2. tables[t] # None /\ tables'[t] # tables[t] /\ TypeOK
    BY DEF ChangedBy, InstallInv, IInv
  <1>3. AlterTable(u) \/ AddOnlineForeignKey(u) \/ ApplyChange(u)
    BY <1>1, <1>2, OthersChangeNothing
  <1>4. \E where, what : Goto(u, where) /\ Note(u, what)
    <2>1. Note(u, work[u]) <=> UNCHANGED work
      BY <1>2 DEF Note, TypeOK
    <2> QED BY <1>3, <2>1
         DEF AlterTable, AddOnlineForeignKey, ApplyChange, Throw, Answered, DdlAnswered
  <1>5. u = r
    BY <1>2, <1>4 DEF Goto, Note, TypeOK, ChangedBy
  <1>6. losses = 0
    <2>1. losses' = losses \/ losses' # 0
      BY <1>2, <1>3, Counted
      DEF AlterTable, AddOnlineForeignKey, ApplyChange, Throw, Answered, DdlAnswered
    <2> QED BY <2>1
  <1>7. CASE AlterTable(r) \/ AddOnlineForeignKey(r)
    <2>1. at[r] = "operate" /\ at[r] \in Amid /\ work[r].operations # <<>>
      BY <1>7 DEF AlterTable, AddOnlineForeignKey, Operating, Amid
    <2>2. t \in Mentioned(Operation(r))
      <3>1. CASE AlterTable(r)
        BY <1>2, <3>1, AlteredWhere DEF AlterTable, Throw
      <3>2. CASE AddOnlineForeignKey(r)
        <4>1. /\ Operation(r).type = "addForeignKey" /\ tables' = Altered(Operation(r))
          BY <1>2, <3>2 DEF AddOnlineForeignKey, Throw
        <4>2. tables' = [tables EXCEPT ![Operation(r).table] = @ \cup {Operation(r).feature}]
              /\ Mentioned(Operation(r)) = {Operation(r).table}
          BY <4>1 DEF Altered, Mentioned
        <4> QED BY <1>2, <4>2 DEF TypeOK
      <3> QED BY <1>7, <3>1, <3>2
    <2> QED BY <1>2, <1>6, <2>1, <2>2, OperationHere, AtWork
  <1>8. CASE ApplyChange(r)
    <2>1. at[r] = "apply" /\ work[r] \in Notes
      BY <1>2, <1>8 DEF ApplyChange, TypeOK
    <2>2. PICK c \in work[r].plan :
             tables' = [tables EXCEPT ![c.table] =
                           IF c.feature = None THEN Wanted(r)[c.table] ELSE @ \cup {c.feature}]
      BY <1>2, <1>8 DEF ApplyChange, Throw
    <2>3. t = c.table
      BY <1>2, <2>2 DEF TypeOK
    <2>4. t \in Relevant(r)
      BY <2>1, <2>3 DEF InstallInv, IInv, StageAgrees, Relevant
    <2> QED BY <1>2, <1>6, <2>1, <2>4, AtWork
  <1> QED BY <1>3, <1>5, <1>7, <1>8

(* As long as no lock session is lost, ensure() alters only the tables of  *)
(* its own resource, and unowned ones only if the resource has given them  *)
(* away itself; adopt() also alters unowned tables, and tables of another  *)
(* resource only if both declare them (assertOwnership, manager.ts:837,   *)
(* and refuseImplicitAdoption, which every later statement relies on).     *)
THEOREM ChangesOnlyItsOwn == Spec => OnlyOwnTables
  <1>1. InstallInv /\ [Next]_vars =>
          [losses' = 0 =>
             \A t \in Tables, r \in Runs : ChangedBy(t, r) =>
                \/ owner[t] = Resource(r)
                \/ owner[t] = None /\ (Adopts(r) \/ t \in GivenAway(r))
                \/ Adopts(r) /\ Rivals(Resource(r), t) # {}]_vars
    BY ChangesOwn
  <1> QED BY <1>1, InstallInductive, PTL DEF Spec, OnlyOwnTables

=============================================================================
