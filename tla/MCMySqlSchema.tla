--------------------------- MODULE MCMySqlSchema ---------------------------
(* Instances of MySqlSchema for TLC.                                       *)
EXTENDS MySqlSchema, TLC

CONSTANTS a, b, c, t, u, w, x, k, d, a1, a2, b1, c1

Ensure(res, v) == [resource |-> res, version |-> v, baseline |-> None]
Adopt(res, v, base) == [resource |-> res, version |-> v, baseline |-> base]
AddFeature(on, f) == [type |-> "addFeature", table |-> on, feature |-> f]
AddForeignKey(on, f) == [type |-> "addForeignKey", table |-> on, feature |-> f]
DropFeature(on, f) == [type |-> "dropFeature", table |-> on, feature |-> f]
RenameColumn(on, from, to) ==
    [type |-> "renameColumn", table |-> on, from |-> from, to |-> to]
Drop(on) == [type |-> "dropTable", table |-> on]
Rename(from, to) == [type |-> "renameTable", from |-> from, to |-> to]
Release(on) == [type |-> "releaseTable", table |-> on]
RawSql == [type |-> "sql"]

\* Two servers carry versions 1 and 2 of resource a, whose migration adds an
\* online foreign key, runs a raw statement and gives table u away; b adopts
\* the legacy table w under the name x, which c declares as well.
AllJobs == a1 :> Ensure(a, 1) @@ a2 :> Ensure(a, 2) @@ b1 :> Adopt(b, 1, 0) @@ c1 :> Ensure(c, 1)
Jobs == [r \in Runs |-> AllJobs[r]]
Declarations ==
    a :> << t :> {k} @@ u :> {k}, t :> {k, d} >>
    @@ b :> << x :> {k}, x :> {k} >>
    @@ c :> << x :> {k, d}, x :> {k, d} >>
Migrations ==
    a :> << <<>>, <<AddForeignKey(t, d), RawSql, Release(u)>> >>
    @@ b :> << <<Rename(w, x)>>, <<>> >>
    @@ c :> << <<>>, <<>> >>
LegacyTables == w :> {k}
NoGoals == {}

\* Two servers again, with a migration that can be resumed, and the adoption.
ResumableDeclarations ==
    a :> << t :> {k} @@ u :> {k}, t :> {d} >> @@ b :> << x :> {d}, x :> {d} >>
ResumableMigrations ==
    a :> << <<>>, <<AddFeature(t, d), DropFeature(t, k), Drop(u)>> >>
    @@ b :> << <<Rename(w, x), RenameColumn(x, k, d)>>, <<>> >>
BothInstalled == {[resource |-> a, version |-> 2], [resource |-> b, version |-> 1]}

\* Version 2 of a renames its table.
RenamingDeclarations == a :> << t :> {k}, u :> {k} >>
RenamingMigrations == a :> << <<>>, <<Rename(t, u)>> >>
NoLegacy == << >>
=============================================================================
