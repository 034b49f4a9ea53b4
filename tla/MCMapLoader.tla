----------------------------- MODULE MCMapLoader -----------------------------
(***************************************************************************)
(* MapLoader on up to three of a few small databases: two ordinary ones    *)
(* and those that are legal but unusual.  Tables and columns have the same *)
(* few names throughout, so that databases overlap.                        *)
(***************************************************************************)
EXTENDS MapLoader, TLC

\* In alphabetical order, without ties.
MCName == {"a", "b", "ck", "dbo", "fk1", "fk2", "hr", "order details", "order lines",
           "pk", "t", "u", "uq"}
MCNormal == [n \in MCName |->
               IF n \in {"order details", "order lines"} THEN Invalid ELSE n]
MCRank == "a" :> 1 @@ "b" :> 2 @@ "ck" :> 3 @@ "dbo" :> 4 @@ "fk1" :> 5 @@
          "fk2" :> 6 @@ "hr" :> 7 @@ "order details" :> 8 @@ "order lines" :> 9 @@
          "pk" :> 10 @@ "t" :> 11 @@ "u" :> 12 @@ "uq" :> 13

TwoColumns(schema, table) ==
  {[schema |-> schema, table |-> table, column |-> "a", pos |-> 1],
   [schema |-> schema, table |-> table, column |-> "b", pos |-> 2]}
Con(type, schema, table, name, columns) ==
  [type |-> type, schema |-> schema, table |-> table, name |-> name, columns |-> columns]
Fk(schema, table, column, name, ref) ==
  [schema |-> schema, table |-> table, column |-> column, name |-> name, ref |-> ref]
DatabaseOf(columns, constraints, foreign_keys) ==
  [columns |-> columns, constraints |-> constraints, foreign_keys |-> foreign_keys]

\* Two tables of two columns in one schema, with constraints of every type;
\* and a table of another schema, with a foreign key of the same name.
Dbo ==
  DatabaseOf(TwoColumns("dbo", "t") \cup TwoColumns("dbo", "u"),
             {Con("check", "dbo", "t", "ck", {"a", "b"}),
              Con("primary_key", "dbo", "t", "pk", {"a"}),
              Con("unique", "dbo", "u", "uq", {"a", "b"})},
             {Fk("dbo", "u", "b", "fk1", <<"dbo", "t", "a">>)})
Hr ==
  DatabaseOf(TwoColumns("hr", "u"),
             {Con("unique", "hr", "u", "uq", {"b"})},
             {Fk("hr", "u", "a", "fk1", <<"hr", "u", "b">>)})

\* A column with two foreign keys.
TwoForeignKeys ==
  DatabaseOf(TwoColumns("dbo", "u"), {Con("check", "dbo", "u", "ck", {"a"})},
             {Fk("dbo", "u", "a", "fk1", <<"dbo", "u", "b">>),
              Fk("dbo", "u", "a", "fk2", <<"dbo", "u", "a">>)})

\* Tables, and their primary keys, of the same names in two schemas.
SameNames ==
  DatabaseOf(TwoColumns("dbo", "u") \cup TwoColumns("hr", "u"),
             {Con("primary_key", "dbo", "u", "pk", {"a"}),
              Con("primary_key", "hr", "u", "pk", {"a"})}, {})

\* Two tables whose names have a space.
Spaces ==
  DatabaseOf(TwoColumns("hr", "order details") \cup TwoColumns("hr", "order lines"),
             {Con("check", "hr", "order lines", "ck", {"b"})}, {})

\* A table that Dbo has too, without constraints.
Bare == DatabaseOf(TwoColumns("dbo", "u"), {}, {})

MCDatabase == {Dbo, Hr, TwoForeignKeys, SameNames, Spaces, Bare}

ASSUME OrdinaryDatabases == TiesNormalizeAlike /\ ColumnsNumbered
===============================================================================
