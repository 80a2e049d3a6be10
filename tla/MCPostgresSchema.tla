-------------------------- MODULE MCPostgresSchema --------------------------
(* Instances of PostgresSchema for TLC.                                      *)
EXTENDS PostgresSchema, TLC

CONSTANTS a, b, c, d, t, u, w, x, col, alt, idx, chk, r1, r2

Ensure(res, v) == [resource |-> res, version |-> v, baseline |-> None]
Adopt(res, v, base) == [resource |-> res, version |-> v, baseline |-> base]
Op(type, on, feature, to) == [type |-> type, table |-> on, feature |-> feature, to |-> to]

FeatureKinds == col :> "column" @@ alt :> "column" @@ idx :> "index" @@ chk :> "check"

\* Version 2 of a renames its table, adds a check, gives x away and runs a raw
\* statement; it wants an index the planner builds.  b takes over the legacy
\* table w, builds an index in its migration and creates x besides; c wants w as
\* well and drops a column of it, or, in version 2, wants t; so does d, which
\* drops its index on t and renames its column in version 2.
Declarations ==
    a :> << t :> {col} @@ x :> {}, u :> {col, idx, chk} >>
    @@ b :> << w :> {col}, w :> {col, idx} @@ x :> {col} >>
    @@ c :> << w :> {idx}, t :> {col} >>
    @@ d :> << t :> {col, idx}, t :> {alt} >>
Migrations ==
    a :> << <<>>, <<Op("renameTable", t, None, u), Op("addConstraint", u, chk, None),
                    Op("releaseTable", x, None, None), Op("sql", None, None, None)>> >>
    @@ b :> << <<>>, <<Op("addIndex", w, idx, None)>> >>
    @@ c :> << <<Op("dropFeature", w, col, None)>>, <<Op("releaseTable", w, None, None)>> >>
    @@ d :> << <<>>, <<Op("dropIndex", t, idx, None), Op("renameColumn", t, col, alt)>> >>
LegacyTables == w :> [f \in Features |-> IF f = col THEN "present" ELSE "absent"]

\* Two rolling upgrades; an adoption that ensure() may have to complete; and two
\* resources that want one table, by adoption or by creation.
AllDeployments ==
    { r1 :> Ensure(a, 1) @@ r2 :> Ensure(a, 2),
      r1 :> Adopt(b, 2, 1) @@ r2 :> Ensure(b, 2),
      r1 :> Adopt(b, 1, 0) @@ r2 :> Adopt(c, 1, 0),
      r1 :> Ensure(c, 2) @@ r2 :> Ensure(d, 1),
      r1 :> Ensure(d, 1) @@ r2 :> Ensure(d, 2) }
=============================================================================
