---------------------------- MODULE MCMigrations ----------------------------
(* Small instances of the migration runner. *)
EXTENDS Migrations

CONSTANTS p, q, old, new, twin, t1, t2, u, v

OnePlugin == {p}
TwoPlugins == {p, q}
ThreeBoots == {old, new, twin}
TwoBoots == {old, new}
OwnTables == {t1, t2, u}
BothTables == {t1, t2, u, v}

\* One build behind two of the same length.
OfOnePlugin == [b \in ThreeBoots |-> p]
OneBehind == [b \in ThreeBoots |-> IF b = old THEN 1 ELSE 2]

\* Two plugins in one database, of which neither is behind.
OfEachPlugin == [b \in TwoBoots |-> IF b = old THEN p ELSE q]
BothUpToDate == [b \in TwoBoots |-> 2]

\* The first migration of p creates two tables, the second renames one of
\* them; q has a table of its own and then a migration that creates none.
CreatesTables == [m \in Migrations |->
  CASE m = <<p, 1>> -> {t1, t2}
    [] m = <<p, 2>> -> {u}
    [] m = <<q, 1>> -> {v}
    [] OTHER -> {}]
RenamesOne == [m \in Migrations |-> IF m = <<p, 2>> THEN {t1} ELSE {}]

\* The database is new, or somebody made some of the first tables or all.
FoundTables == {{}, {t1}, {t1, t2}}
=============================================================================
