-------------------------- MODULE MCStnamesMigrator --------------------------
(***************************************************************************)
(* StnamesMigrator on two tables of two columns each, in two schemas, that *)
(* refer to each other, and a table of one column, whose name falls        *)
(* between theirs and which not every catalog defines.                     *)
(***************************************************************************)
EXTENDS StnamesMigrator, TLC

MCColumn == {"a1", "a2", "b1", "b2", "z"}
MCTable  == {"dbo.a", "dbo.z", "hr.b"}
MCSchema == {"dbo", "hr"}
MCName   == {"ck_a", "ck_b", "uq_a", "uq_b", "fk_ab", "fk_ba", "uq_a1", "uq_a2",
             "uq_b1", "uq_b2", "uq_z", "no"}
MCSchemaOf == [t \in MCTable |-> IF t = "hr.b" THEN "hr" ELSE "dbo"]
MCRank == [t \in MCTable |->
             CASE t = "dbo.a" -> 1 [] t = "dbo.z" -> 2 [] t = "hr.b" -> 3]
MCIdentityUnique ==
  "a1" :> "uq_a1" @@ "a2" :> "uq_a2" @@ "b1" :> "uq_b1" @@ "b2" :> "uq_b2" @@
  "z" :> "uq_z"

\* A check and a unique constraint per table; b's unique constraint has two
\* columns.  Each table refers to the other.
BaseCatalog ==
  [columns    |-> "dbo.a" :> <<"a1", "a2">> @@ "dbo.z" :> << >> @@
                  "hr.b" :> <<"b1", "b2">>,
   pk         |-> {"a2", "b1"},
   identity   |-> {},
   unmappable |-> {},
   ck         |-> "a1" :> {"ck_a"} @@ "a2" :> {} @@ "b1" :> {} @@ "b2" :> {"ck_b"} @@
                  "z" :> {},
   uq         |-> "a1" :> {} @@ "a2" :> {"uq_a"} @@ "b1" :> {"uq_b"} @@ "b2" :> {"uq_b"} @@
                  "z" :> {},
   fk         |-> {"a1", "b2"},
   fk_name    |-> "a1" :> "fk_ab" @@ "a2" :> "no" @@ "b1" :> "no" @@ "b2" :> "fk_ba" @@
                  "z" :> "no",
   ref        |-> "a1" :> "b1" @@ "a2" :> "a1" @@ "b1" :> "a1" @@ "b2" :> "a2" @@
                  "z" :> "a1",
   fk_named   |-> [n \in MCName |-> CASE n = "fk_ba" -> "b2" [] OTHER -> "a1"]]

\* Every choice of datatypes that are rejected in a and b, with and without z.
Rejections == SUBSET {"a1", "a2", "b1", "b2"}
MCCatalog ==
  {[BaseCatalog EXCEPT !.unmappable = r, !.columns["dbo.z"] = z] :
     r \in Rejections, z \in {<< >>, <<"z">>}}

\* One foreign key of two columns, (a1, a2) to (b1, b2).
CompositeCatalog ==
  {[BaseCatalog EXCEPT !.unmappable = r, !.fk = {"a1", "a2"},
      !.fk_name["a2"] = "fk_ab", !.ref["a2"] = "b2"] : r \in Rejections}

\* Unique constraints of a's columns, shared or not, one of them with the name
\* that would be generated for a2.
IdentityCatalog ==
  {[BaseCatalog EXCEPT !.unmappable = r, !.uq["a1"] = x, !.uq["a2"] = y] :
     r \in {{}, {"a1"}, {"b2"}},
     x \in {{}, {"uq_a"}, {"uq_a2"}},
     y \in SUBSET {"uq_a", "uq_a2"}}

\* Source files that name any tables, and use all their columns or none.
ColumnsUsed(ts) == {c \in MCColumn : \/ c \in {"a1", "a2"} /\ "dbo.a" \in ts
                                     \/ c \in {"b1", "b2"} /\ "hr.b" \in ts
                                     \/ c = "z" /\ "dbo.z" \in ts}
FileOf(ts, used, idents) == [tables |-> ts, usedcols |-> used, assumed |-> idents]
MCSourceFile ==
  UNION {{FileOf(ts, ColumnsUsed(ts), {}), FileOf(ts, {}, {})} :
           ts \in SUBSET MCTable \ {{}}}

\* Source files that assume an identity, or none.
IdentitySourceFile ==
  {FileOf(ts, {}, idents) : ts \in SUBSET {"dbo.a", "hr.b"} \ {{}},
                            idents \in {{}} \cup {{c} : c \in MCColumn \ {"z"}}}

AllCatalog    == MCCatalog \cup IdentityCatalog
AllSourceFile == MCSourceFile \cup IdentitySourceFile
===============================================================================
