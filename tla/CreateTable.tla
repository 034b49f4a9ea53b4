----------------------------- MODULE CreateTable -----------------------------
(***************************************************************************)
(* The CREATE TABLE statement of one SQL Server table                      *)
(* (ddl_stname_migrator_base::migrate_create_table_ddl), written column by *)
(* column with the help of a table migrator, which the application         *)
(* supplies: the datatype rules say which columns cannot be mapped, and    *)
(* the migrator decides what becomes of the primary key and the identity   *)
(* columns.  The repository has two migrators:                             *)
(*   - dbunit_hsqldb (the one main() creates): any column may be an        *)
(*     identity; a rejected column leaves the primary key;                 *)
(*   - dbunit_pkvsid: an identity column must be its table's sole key.     *)
(* A column is a qualified name (ddl_stcname); the text of a definition is *)
(* abstracted to a token that names the columns it mentions.               *)
(***************************************************************************)
EXTENDS Naturals, Sequences, FiniteSets

CONSTANTS
  Column,         \* every column of the catalog (schema.table.column)
  TableMigrators  \* the table migrators considered

ASSUME ColumnAssumption == IsFiniteSet(Column)
ASSUME TableMigratorsAssumption ==
  TableMigrators \subseteq {"dbunit_hsqldb", "dbunit_pkvsid"}

VARIABLES
  table_migrator,     \* which migrator the application's factory makes
  stage,              \* where the statement stands: see Stage
  table_info,         \* the table being migrated
  pos,                \* how many of its columns have been migrated
  pk_cnames,          \* the table migrator's primary key columns
  identity_cnames,    \* the table migrator's (pkvsid) identity columns
  identity_cnt,       \* the identity columns the (pkvsid) migrator has met
  prev,               \* the next item must be preceded by a comma
  unrejected_column,  \* some column has been kept
  rejected_cnames,    \* the columns that have been rejected
  ddl,                \* the statement's text, between the parentheses
  emptied             \* the whole statement was turned into SQL comments

createTableVars ==
  << table_migrator, stage, table_info, pos, pk_cnames, identity_cnames, identity_cnt,
     prev, unrejected_column, rejected_cnames, ddl, emptied >>

Stage == {"idle", "columns", "closed"}

-------------------------------------------------------------------------------
\* The tokens of the statement.

Token == [kind : {"column", "identity", "comment", "separator", "primary_key"},
          cols : SUBSET Column]

ColumnDef(c)      == [kind |-> "column", cols |-> {c}]
IdentityDef(c)    == [kind |-> "identity", cols |-> {c}]
RejectComment(c)  == [kind |-> "comment", cols |-> {c}]
PrimaryKey(cs)    == [kind |-> "primary_key", cols |-> cs]
Separator         == [kind |-> "separator", cols |-> {}]

\* An item goes on a line of its own, after a comma when prev says so.
Write(item) ==
  ddl' = IF prev THEN Append(Append(ddl, Separator), item)
                 ELSE Append(ddl, item)

-------------------------------------------------------------------------------
\* A table as find_table_info returns it: its columns in ordinal order, those
\* of its primary key, those that are identities (by the catalog, or because
\* the source file says so) and those whose datatype the rules reject.

ColumnList ==
  {s \in UNION {[1..n -> Column] : n \in 1..Cardinality(Column)} :
     \A i, j \in DOMAIN s : s[i] = s[j] => i = j}

ColumnsOf(ti) == {ti.columns[i] : i \in DOMAIN ti.columns}

TableInfo ==
  {ti \in [columns : ColumnList, pk : SUBSET Column,
           identity : SUBSET Column, unmappable : SUBSET Column] :
     ti.pk \cup ti.identity \cup ti.unmappable \subseteq ColumnsOf(ti)}

Migrated == {table_info.columns[i] : i \in 1..pos}

NoTableInfo == [columns |-> << >>, pk |-> {}, identity |-> {}, unmappable |-> {}]

CreateTableInit ==
  /\ table_migrator \in TableMigrators
  /\ stage = "idle" /\ table_info = NoTableInfo /\ pos = 0
  /\ pk_cnames = {} /\ identity_cnames = {} /\ identity_cnt = 0
  /\ prev = FALSE /\ unrejected_column = FALSE
  /\ rejected_cnames = {} /\ ddl = << >> /\ emptied = FALSE

\* Bug: the rejected columns of the table before are still listed.
MakeTableMigratorNotCleared(ti) ==
  /\ stage' = "columns" /\ table_info' = ti /\ pos' = 0
  /\ pk_cnames' = ti.pk /\ identity_cnames' = {} /\ identity_cnt' = 0
  /\ prev' = FALSE /\ unrejected_column' = FALSE
  /\ ddl' = << >> /\ emptied' = FALSE
  /\ UNCHANGED << table_migrator, rejected_cnames >>

\* A fresh table migrator and an empty statement.
MakeTableMigrator(ti) ==
  /\ stage' = "columns" /\ table_info' = ti /\ pos' = 0
  /\ pk_cnames' = ti.pk /\ identity_cnames' = {} /\ identity_cnt' = 0
  /\ prev' = FALSE /\ unrejected_column' = FALSE
  /\ rejected_cnames' = {} /\ ddl' = << >> /\ emptied' = FALSE
  /\ UNCHANGED table_migrator

-------------------------------------------------------------------------------
\* What the loop over the columns does with one column, once the table
\* migrator has kept or rejected it.

NextColumn(c) ==
  /\ stage = "columns" /\ pos < Len(table_info.columns)
  /\ c = table_info.columns[pos + 1]
  /\ pos' = pos + 1
  /\ UNCHANGED << table_migrator, stage, table_info, emptied >>

Keep(item) ==
  /\ Write(item)
  /\ prev' = TRUE /\ unrejected_column' = TRUE
  /\ UNCHANGED rejected_cnames

\* Bug: the item after a comment gets a comma, as the comment did.
RejectNotResettingPrev(c) ==
  /\ Write(RejectComment(c))
  /\ rejected_cnames' = rejected_cnames \cup {c}
  /\ UNCHANGED << prev, unrejected_column >>

Reject(c) ==
  /\ Write(RejectComment(c))
  /\ prev' = FALSE
  /\ rejected_cnames' = rejected_cnames \cup {c}
  /\ UNCHANGED unrejected_column

\* Bug: the rejected column stays in the primary key.
RejectDatatypeKeepingKey(c) ==
  /\ NextColumn(c) /\ c \in table_info.unmappable
  /\ Reject(c)
  /\ UNCHANGED << pk_cnames, identity_cnames, identity_cnt >>

\* The datatype rules reject the column: it leaves the primary key.
RejectDatatype(c) ==
  /\ NextColumn(c) /\ c \in table_info.unmappable
  /\ pk_cnames' = pk_cnames \ {c}
  /\ Reject(c)
  /\ UNCHANGED << identity_cnames, identity_cnt >>

KeepPlain(c) ==
  /\ NextColumn(c) /\ c \notin table_info.unmappable \cup table_info.identity
  /\ Keep(ColumnDef(c))
  /\ UNCHANGED << pk_cnames, identity_cnames, identity_cnt >>

HsqldbKeepIdentity(c) ==
  /\ NextColumn(c) /\ c \in table_info.identity \ table_info.unmappable
  /\ table_migrator = "dbunit_hsqldb"
  /\ Keep(IdentityDef(c))
  /\ UNCHANGED << pk_cnames, identity_cnames, identity_cnt >>

\* Bug: only the primary key stands in the way of an identity column.
PkvsidIdentityNotCounted(c) ==
  LET pks == IF pk_cnames = {c} THEN {} ELSE pk_cnames
  IN /\ NextColumn(c) /\ c \in table_info.identity \ table_info.unmappable
     /\ table_migrator = "dbunit_pkvsid"
     /\ pk_cnames' = pks
     /\ identity_cnt' = identity_cnt + 1
     /\ IF pks = {}
          THEN identity_cnames' = identity_cnames \cup {c} /\ Keep(IdentityDef(c))
          ELSE identity_cnames' = {} /\ Reject(c)

\* The pkvsid migrator meets an identity column.  A sole primary key gives
\* way to it; any other key, or an earlier identity, gets it rejected.
PkvsidIdentity(c) ==
  LET pks == IF pk_cnames = {c} THEN {} ELSE pk_cnames
  IN /\ NextColumn(c) /\ c \in table_info.identity \ table_info.unmappable
     /\ table_migrator = "dbunit_pkvsid"
     /\ pk_cnames' = pks
     /\ identity_cnt' = identity_cnt + 1
     /\ \/ /\ pks = {} /\ identity_cnt = 0
           /\ identity_cnames' = identity_cnames \cup {c}
           /\ Keep(IdentityDef(c))
        \/ /\ pks # {} \/ identity_cnt # 0
           /\ identity_cnames' = {}
           /\ Reject(c)

MigrateColumn ==
  \E c \in Column : \/ RejectDatatype(c)
                    \/ KeepPlain(c)
                    \/ HsqldbKeepIdentity(c)
                    \/ PkvsidIdentity(c)

\* All columns migrated: the primary key, and the end of the statement, which
\* is output as comments when no column was kept.
CloseTable ==
  /\ stage = "columns" /\ pos = Len(table_info.columns)
  /\ IF pk_cnames = {} THEN UNCHANGED ddl ELSE Write(PrimaryKey(pk_cnames))
  /\ emptied' = ~unrejected_column
  /\ stage' = "closed"
  /\ UNCHANGED << table_migrator, table_info, pos, pk_cnames, identity_cnames,
                  identity_cnt, prev, unrejected_column, rejected_cnames >>

-------------------------------------------------------------------------------
\* On its own: any tables, one after the other.

BeginTable ==
  /\ stage # "columns"
  /\ \E ti \in TableInfo : MakeTableMigrator(ti)

CreateTableNext == BeginTable \/ MigrateColumn \/ CloseTable

CreateTableSpec == CreateTableInit /\ [][CreateTableNext]_createTableVars

-------------------------------------------------------------------------------
CreateTableTypeOK ==
  /\ table_migrator \in TableMigrators
  /\ stage \in Stage
  /\ table_info \in TableInfo \cup {NoTableInfo}
  /\ pos \in 0..Len(table_info.columns)
  /\ pk_cnames \in SUBSET ColumnsOf(table_info)
  /\ identity_cnames \in SUBSET ColumnsOf(table_info)
  /\ identity_cnt \in Nat
  /\ prev \in BOOLEAN /\ unrejected_column \in BOOLEAN
  /\ rejected_cnames \in SUBSET ColumnsOf(table_info)
  /\ ddl \in Seq(Token)
  /\ emptied \in BOOLEAN

\* The columns the statement defines (as identities), and its primary key.
Identities == {c \in Column : \E i \in DOMAIN ddl : ddl[i] = IdentityDef(c)}
Defined ==
  {c \in Column : \E i \in DOMAIN ddl : ddl[i] = ColumnDef(c)} \cup Identities
KeyColumns == UNION {ddl[i].cols : i \in {j \in DOMAIN ddl :
                                            ddl[j].kind = "primary_key"}}

(***************************************************************************)
(* What main()'s table migrator promises: a finished statement defines     *)
(* exactly the columns the datatype rules can map, its primary key is the  *)
(* table's key without the others, wherever they stand among the columns,  *)
(* and it is output as comments exactly when nothing is left of it         *)
(* (migrate_create_table_ddl with dbunit_hsqldb_ddl_table_migrator).       *)
(***************************************************************************)
HsqldbStatement ==
  table_migrator = "dbunit_hsqldb" /\ stage = "closed" =>
    /\ Defined = ColumnsOf(table_info) \ table_info.unmappable
    /\ KeyColumns = table_info.pk \ table_info.unmappable
    /\ rejected_cnames = ColumnsOf(table_info) \ Defined
    /\ emptied <=> Defined = {}

(***************************************************************************)
(* Items are separated: between two items there is a separator, no two     *)
(* separators follow each other without an item in between, and none comes *)
(* first (the prev flag of migrate_create_table_ddl).  Comments do not     *)
(* count.  Only after rejected last columns may one be left over.          *)
(***************************************************************************)
IsItem(token) == token.kind \in {"column", "identity", "primary_key"}
Between(i, j) == {ddl[k].kind : k \in (i + 1)..(j - 1)}

SeparatorsAlternate ==
  \A i, j \in DOMAIN ddl : i < j =>
    /\ IsItem(ddl[i]) /\ IsItem(ddl[j]) => "separator" \in Between(i, j)
    /\ ddl[i].kind = "separator" /\ ddl[j].kind = "separator"
         => \E k \in (i + 1)..(j - 1) : IsItem(ddl[k])

NoLeadingSeparator ==
  \A i \in DOMAIN ddl : ddl[i].kind = "separator" =>
    \E k \in 1..(i - 1) : IsItem(ddl[k])

SeparatorDiscipline == SeparatorsAlternate /\ NoLeadingSeparator

\* RUNNING.md: the integrity of the DDL that encloses a rejected column is
\* not compromised; no finished statement has a separator after its last
\* item.
NoTrailingSeparator ==
  stage = "closed" /\ ~emptied =>
    \A i \in DOMAIN ddl : ddl[i].kind = "separator" =>
      \E k \in (i + 1)..Len(ddl) : IsItem(ddl[k])

(***************************************************************************)
(* The pkvsid migrator "enforces a single identity column per table" and   *)
(* makes it the table's sole key: a statement that defines an identity     *)
(* column defines only one and has no primary key, and what it hands to    *)
(* uniquify_identity_columns is that column or nothing (the assertion      *)
(* identity_cnames.size() <= 1).                                           *)
(***************************************************************************)
PkvsidSingleIdentity ==
  table_migrator = "dbunit_pkvsid" =>
    /\ Cardinality(Identities) <= 1
    /\ Identities # {} => KeyColumns = {}
    /\ identity_cnames \subseteq Identities

(***************************************************************************)
(* For the tables it is made for, those with one identity column at most   *)
(* and with no key beside it, the pkvsid migrator's statement defines all  *)
(* mappable columns, and its key is the table's own, without rejected      *)
(* columns, unless an identity stands for it; that identity is returned.   *)
(***************************************************************************)
MappableIdentities == table_info.identity \ table_info.unmappable

PkvsidStatement ==
  /\ table_migrator = "dbunit_pkvsid" /\ stage = "closed"
  /\ Cardinality(MappableIdentities) <= 1
  /\ MappableIdentities # {} => table_info.pk \subseteq MappableIdentities
  => /\ Defined = ColumnsOf(table_info) \ table_info.unmappable
     /\ KeyColumns = table_info.pk \ (table_info.unmappable \cup MappableIdentities)
     /\ Identities = MappableIdentities /\ identity_cnames = Identities

(***************************************************************************)
(* A statement made column by column is one of TableStatement's: it is     *)
(* what that module says of it when the last column has been migrated and  *)
(* the key written, and none of it counts before (the text is appended to  *)
(* the script only then).                                                  *)
(***************************************************************************)
Statement ==
  IF stage = "closed"
    THEN [defined |-> Defined, identities |-> Identities, key |-> KeyColumns,
          commented |-> emptied]
    ELSE [defined |-> {}, identities |-> {}, key |-> {}, commented |-> FALSE]

Abstract == INSTANCE TableStatement WITH statement <- Statement

ImplementsTableStatement == Abstract!Spec
===============================================================================
