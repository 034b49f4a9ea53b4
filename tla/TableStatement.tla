---------------------------- MODULE TableStatement ----------------------------
(***************************************************************************)
(* What a CREATE TABLE statement promises to those who use it: the author  *)
(* of a script, who reads it, and the stnames migrator, which adds         *)
(* constraints to it.  A statement appears at once and whole; in which     *)
(* order columns are kept, rejected and separated is nobody's business.    *)
(* CreateTable implements this, column by column.                          *)
(***************************************************************************)
CONSTANTS
  Column,       \* every column of the catalog
  TableInfo,    \* every table: columns, pk, identity, unmappable
  NoTableInfo,  \* before the first table
  ColumnsOf(_)  \* the set of a table's columns

VARIABLES
  table_migrator,  \* dbunit_hsqldb or dbunit_pkvsid
  stage,           \* "idle", "columns": a statement is being made, "closed"
  table_info,      \* the table it is for
  statement        \* what has been made of the table

statementVars == << table_migrator, stage, table_info, statement >>

NoStatement == [defined |-> {}, identities |-> {}, key |-> {}, commented |-> FALSE]

Mappable(ti)           == ColumnsOf(ti) \ ti.unmappable
MappableIdentities(ti) == ti.identity \ ti.unmappable

IsCommented(s) == s.commented <=> s.defined = {}

\* main()'s migrator leaves no choice: all columns that can be mapped, with
\* what is left of the key.
IsHsqldbStatement(ti, s) ==
  /\ s.defined = Mappable(ti)
  /\ s.identities = MappableIdentities(ti)
  /\ s.key = ti.pk \ ti.unmappable

\* The pkvsid migrator may reject identities, but no other column: one is
\* left at most, and the table's key (or none at all) if none is.
IsPkvsidStatement(ti, s) ==
  /\ s.identities \subseteq MappableIdentities(ti)
  /\ s.defined = (Mappable(ti) \ ti.identity) \cup s.identities
  /\ \A c, d \in s.identities : c = d
  /\ s.key \in {{}, ti.pk \ ti.unmappable}
  /\ s.identities # {} => s.key = {}

IsStatement(ti, s) ==
  /\ IsCommented(s)
  /\ table_migrator = "dbunit_hsqldb" => IsHsqldbStatement(ti, s)
  /\ table_migrator = "dbunit_pkvsid" => IsPkvsidStatement(ti, s)

-------------------------------------------------------------------------------
Init ==
  /\ table_migrator \in {"dbunit_hsqldb", "dbunit_pkvsid"}
  /\ stage = "idle" /\ table_info = NoTableInfo /\ statement = NoStatement

BeginTable ==
  /\ stage # "columns" /\ stage' = "columns"
  /\ table_info' \in TableInfo
  /\ statement' = NoStatement
  /\ UNCHANGED table_migrator

FinishTable ==
  /\ stage = "columns" /\ stage' = "closed"
  /\ IsStatement(table_info, statement')
  /\ UNCHANGED << table_migrator, table_info >>

Next == BeginTable \/ FinishTable

Spec == Init /\ [][Next]_statementVars
===============================================================================
