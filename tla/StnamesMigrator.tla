--------------------------- MODULE StnamesMigrator ---------------------------
(***************************************************************************)
(* The migration of one source file after the other against one catalog    *)
(* (sqlsvr_ddl_stnames_migrator_impl).  The catalog's metadata records     *)
(* (tc: columns, ck: checks, fk: foreign keys, uq: uniques) are loaded     *)
(* once and shared by all files of the run.  A column that is rejected     *)
(* while a file is migrated is hidden, together with the constraints it    *)
(* takes part in, by setting flags in the shared records: what one file    *)
(* hides stays hidden for the files that follow.                           *)
(*                                                                         *)
(* A file is migrated table by table, in the order of their names          *)
(* (migrate_ddl_stname: CREATE SCHEMA, CREATE TABLE by module CreateTable, *)
(* hiding, CHECK and UNIQUE constraints); its FOREIGN KEYs come last.      *)
(***************************************************************************)
EXTENDS CreateTable

CONSTANTS
  Table,          \* every table a source file may name (schema.table)
  Schema,         \* every schema name
  Name,           \* constraint names
  SchemaOf,       \* the schema of a table
  Rank,           \* the place of a table in the order of the table names
  IdentityUnique, \* "uq_" + name of a column: its generated constraint name
  Catalog,        \* the catalogs considered
  SourceFile,     \* the contents of the source files considered
  MaxFiles,       \* bound: how many source files a run migrates
  None            \* no table, no schema

\* A catalog.  unmappable is the datatype rules' verdict on its columns; the
\* other fields are what the five loaders have read: a table without tc
\* records has no columns, ck and uq list the constraint names a column
\* occurs in, fk is the set of columns with a foreign key record, fk_name and
\* ref the contents of that record, and fk_named the constraint_name_map from
\* a constraint name to (the column of) the record it was first read for.
CatalogRecord ==
  [columns : [Table -> ColumnList \cup {<< >>}],
   pk : SUBSET Column, identity : SUBSET Column, unmappable : SUBSET Column,
   ck : [Column -> SUBSET Name], uq : [Column -> SUBSET Name],
   fk : SUBSET Column, fk_name : [Column -> Name], ref : [Column -> Column],
   fk_named : [Name -> Column]]

IsCatalog(k) ==
  /\ k \in CatalogRecord
  /\ \A t, u \in Table : \A i \in DOMAIN k.columns[t], j \in DOMAIN k.columns[u] :
       k.columns[t][i] = k.columns[u][j] => t = u
  /\ k.fk \cup {k.ref[c] : c \in k.fk} \subseteq
       UNION {ColumnsOf([columns |-> k.columns[t]]) : t \in Table}
  /\ \A c \in k.fk : /\ k.fk_named[k.fk_name[c]] \in k.fk
                     /\ k.fk_name[k.fk_named[k.fk_name[c]]] = k.fk_name[c]

\* A source file, as read_ddl_names returns it: the tables it names, the
\* columns it gives values to and the columns it assumes to be identities.
\* (A file that names no table is read, and leaves no trace.)
FileRecord == [tables : SUBSET Table \ {{}},
               usedcols : SUBSET Column, assumed : SUBSET Column]

\* Tables are sorted by their full names, in which the schema comes first and
\* the dot after it is below every other character of a name.
ASSUME NamesAssumption ==
  /\ SchemaOf \in [Table -> Schema] /\ Rank \in [Table -> Nat]
  /\ IdentityUnique \in [Column -> Name]
  /\ \A t, u \in Table : Rank[t] = Rank[u] => t = u
  /\ \A t, u, v \in Table :
       Rank[t] < Rank[u] /\ Rank[u] < Rank[v] /\ SchemaOf[t] = SchemaOf[v]
         => SchemaOf[u] = SchemaOf[t]
ASSUME CatalogAssumption == \A k \in Catalog : IsCatalog(k)
ASSUME SourceFileAssumption == SourceFile \subseteq FileRecord
ASSUME MaxFilesAssumption == MaxFiles \in Nat
ASSUME NoneAssumption == None \notin Table \cup Schema

VARIABLES
  catalog,           \* what the loaders read; uq is the part that changes
  uq,                \* the uq records of a column
  hidden_tc,         \* the columns whose tc record is hidden,
  hidden_ck,         \*   whose ck records,
  hidden_uq,         \*   whose uq records,
  hidden_fk,         \*   whose fk record
  phase,             \* where the run stands: see Phase
  files,             \* how many files have been begun
  file,              \* the file being migrated
  todo,              \* its tables that are still to be migrated
  table,             \* the table being migrated
  table_info_cnt,    \* its tables that the catalog defines
  last_schema_name,  \* the schema of the last table migrated
  schemas,           \* the CREATE SCHEMAs of the file's script, in order
  created,           \* the CREATE TABLEs of the script (but the emptied ones)
  constraints,       \* the ALTER TABLE ... ADD CONSTRAINTs of the script
  msgs,              \* the file's messages
  rejected           \* history: the columns rejected in this file

recordVars  == << catalog, uq, hidden_tc, hidden_ck, hidden_uq, hidden_fk >>
scriptVars  == << schemas, created, constraints, msgs, rejected >>
controlVars == << phase, files, file, todo, table, table_info_cnt,
                  last_schema_name >>
vars == << createTableVars, recordVars, scriptVars, controlVars >>

Phase == {"idle", "tables", "columns", "uniquify", "constraints",
          "threw", "crashed", "assert_failed"}

-------------------------------------------------------------------------------
\* The script's statements, and the messages.

Check(c, n)       == [kind |-> "check", name |-> n, cols |-> {c}, ref |-> {}]
Unique(cs, n)     == [kind |-> "unique", name |-> n, cols |-> cs, ref |-> {}]
ForeignKey(c, r, n) ==
  [kind |-> "foreign_key", name |-> n, cols |-> {c}, ref |-> {r}]

Constraint == [kind : {"check", "unique", "foreign_key"}, name : Name,
               cols : SUBSET Column, ref : SUBSET Column]

UsedButUndefined(t) == [msg |-> "used_but_undefined", of |-> {t}]
UsedButRejected(c)  == [msg |-> "used_but_rejected", of |-> {c}]
MissingTarget(t)    == [msg |-> "fk_target_undefined", of |-> {t}]

\* The columns of a table (find_tc), and the table of a column.
Columns(t)  == {catalog.columns[t][i] : i \in DOMAIN catalog.columns[t]}
TableOf(c)  == CHOOSE t \in Table : c \in Columns(t)
IsDefined(t) == catalog.columns[t] # << >>

\* find_table_info: hidden or not, every column is migrated.  A column is an
\* identity in the catalog, or assumed to be one by the file.
FindTableInfo(t) ==
  [columns    |-> catalog.columns[t],
   pk         |-> catalog.pk \cap Columns(t),
   identity   |-> (catalog.identity \cup file.assumed) \cap Columns(t),
   unmappable |-> catalog.unmappable \cap Columns(t)]

-------------------------------------------------------------------------------
NoFile == [tables |-> {}, usedcols |-> {}, assumed |-> {}]

Init ==
  /\ catalog \in Catalog
  /\ uq = catalog.uq
  /\ hidden_tc = {} /\ hidden_ck = {} /\ hidden_uq = {} /\ hidden_fk = {}
  /\ phase = "idle" /\ files = 0 /\ file = NoFile /\ todo = {}
  /\ table = None /\ table_info_cnt = 0 /\ last_schema_name = None
  /\ schemas = << >> /\ created = {} /\ constraints = {} /\ msgs = {}
  /\ rejected = {}
  /\ CreateTableInit

\* Bug: the script of the file before is not cleared.
BeginFileNotCleared(f) ==
  /\ phase = "idle" /\ files < MaxFiles
  /\ files' = files + 1 /\ file' = f /\ todo' = f.tables /\ phase' = "tables"
  /\ table_info_cnt' = 0 /\ last_schema_name' = None
  /\ rejected' = {}
  /\ UNCHANGED << table, schemas, created, constraints, msgs, recordVars,
                  createTableVars >>

\* Bug: last_schema_name survives from one file to the next.
BeginFileSchemaKept(f) ==
  /\ phase = "idle" /\ files < MaxFiles
  /\ files' = files + 1 /\ file' = f /\ todo' = f.tables /\ phase' = "tables"
  /\ table_info_cnt' = 0
  /\ schemas' = << >> /\ created' = {} /\ constraints' = {} /\ msgs' = {}
  /\ rejected' = {}
  /\ UNCHANGED << table, last_schema_name, recordVars, createTableVars >>

\* migrate_ddl_stnames begins: an empty script for the next file that names
\* some table.
BeginFile(f) ==
  /\ phase = "idle" /\ files < MaxFiles
  /\ files' = files + 1 /\ file' = f /\ todo' = f.tables /\ phase' = "tables"
  /\ table_info_cnt' = 0 /\ last_schema_name' = None
  /\ schemas' = << >> /\ created' = {} /\ constraints' = {} /\ msgs' = {}
  /\ rejected' = {}
  /\ UNCHANGED << table, recordVars, createTableVars >>

\* The next table in the order of the names.
NextTable(t) ==
  /\ phase = "tables" /\ t \in todo
  /\ \A u \in todo : Rank[t] <= Rank[u]

UndefinedTable(t) ==
  /\ NextTable(t) /\ ~IsDefined(t)
  /\ todo' = todo \ {t}
  /\ msgs' = msgs \cup {UsedButUndefined(t)}
  /\ UNCHANGED << phase, files, file, table, table_info_cnt, last_schema_name,
                  schemas, created, constraints, rejected, recordVars,
                  createTableVars >>

\* migrate_ddl_stname, up to the loop over the table's columns.
BeginDefinedTable(t) ==
  /\ NextTable(t) /\ IsDefined(t)
  /\ table' = t /\ todo' = todo \ {t} /\ phase' = "columns"
  /\ table_info_cnt' = table_info_cnt + 1
  /\ schemas' = IF SchemaOf[t] # last_schema_name
                  THEN Append(schemas, SchemaOf[t]) ELSE schemas
  /\ MakeTableMigrator(FindTableInfo(t))
  /\ UNCHANGED << files, file, last_schema_name, created, constraints, msgs,
                  rejected, recordVars >>

MigrateTableColumn ==
  /\ phase = "columns" /\ MigrateColumn
  /\ UNCHANGED << recordVars, scriptVars, controlVars >>

CloseCreateTable ==
  /\ phase = "columns" /\ CloseTable
  /\ created' = IF emptied' THEN created ELSE created \cup {table}
  /\ phase' = IF identity_cnames = {} THEN "constraints" ELSE "uniquify"
  /\ UNCHANGED << files, file, todo, table, table_info_cnt, last_schema_name,
                  schemas, constraints, msgs, rejected, recordVars >>

-------------------------------------------------------------------------------
\* uniquify_identity_column, of the identity column c a pkvsid migrator has
\* made its table's sole key.  Siblings that an earlier file has hidden do
\* not count; one without uq records is dereferenced all the same.
Siblings(c)      == Columns(table) \ (hidden_tc \cup {c})
SharedNames(c)   == uq[c] \cap UNION {uq[d] : d \in Siblings(c)}
HasUnshared(c)   == uq[c] \ SharedNames(c) # {}

UniquifyIdentityColumn(c) ==
  /\ phase = "uniquify" /\ c \in identity_cnames
  /\ \/ /\ uq[c] = {}
        /\ uq' = [uq EXCEPT ![c] = {IdentityUnique[c]}]
        /\ phase' = "constraints"
     \/ /\ uq[c] # {} /\ \E d \in Siblings(c) : uq[d] = {}
        /\ phase' = "crashed"
        /\ UNCHANGED uq
     \/ /\ uq[c] # {} /\ \A d \in Siblings(c) : uq[d] # {}
        /\ UNCHANGED uq
        /\ \/ ~HasUnshared(c) /\ phase' = "constraints"
           \/ /\ HasUnshared(c) /\ IdentityUnique[c] \in uq[c]
              /\ phase' = "threw"
           \* insert_uq fails: an assertion, or nothing in a release build
           \/ /\ HasUnshared(c) /\ IdentityUnique[c] \notin uq[c]
              /\ phase' \in {"assert_failed", "constraints"}
  /\ UNCHANGED << files, file, todo, table, table_info_cnt, last_schema_name,
                  catalog, hidden_tc, hidden_ck, hidden_uq, hidden_fk,
                  scriptVars, createTableVars >>

-------------------------------------------------------------------------------
\* Bugs: the foreign keys that refer to a column are not found, or found by
\* its table.
HiddenForeignKeysOwnOnly(cs) == cs \cap catalog.fk
HiddenForeignKeysOfTable(cs) ==
  (cs \cap catalog.fk) \cup
  {d \in catalog.fk : \E c \in cs : TableOf(catalog.ref[d]) = TableOf(c)}

\* hide_rejected_column of the columns cs: their own records, and the foreign
\* keys that refer to them, which are found by their constraint names.
HiddenForeignKeys(cs) ==
  (cs \cap catalog.fk) \cup
  {catalog.fk_named[catalog.fk_name[c]] :
     c \in {d \in catalog.fk : catalog.ref[d] \in cs}}

\* Bug: a unique constraint is hidden for all its columns.
HideRejectedColumnsWholeUniques(cs) ==
  /\ hidden_tc' = hidden_tc \cup cs
  /\ hidden_ck' = hidden_ck \cup {c \in cs : catalog.ck[c] # {}}
  /\ hidden_uq' = hidden_uq \cup {c \in Column : \E d \in cs : uq[c] \cap uq[d] # {}}
  /\ hidden_fk' = hidden_fk \cup HiddenForeignKeys(cs)

\* Bug: only what the datatype rules reject is hidden.
HideRejectedColumnsByDatatype(cs) ==
  /\ hidden_tc' = hidden_tc \cup (cs \cap catalog.unmappable)
  /\ hidden_ck' = hidden_ck \cup {c \in cs \cap catalog.unmappable : catalog.ck[c] # {}}
  /\ hidden_uq' = hidden_uq \cup {c \in cs \cap catalog.unmappable : uq[c] # {}}
  /\ hidden_fk' = hidden_fk \cup HiddenForeignKeys(cs \cap catalog.unmappable)

HideRejectedColumns(cs) ==
  /\ hidden_tc' = hidden_tc \cup cs
  /\ hidden_ck' = hidden_ck \cup {c \in cs : catalog.ck[c] # {}}
  /\ hidden_uq' = hidden_uq \cup {c \in cs : uq[c] # {}}
  /\ hidden_fk' = hidden_fk \cup HiddenForeignKeys(cs)

\* migrate_ck_constraints_ddl: a clause is output for every column it was
\* read for.
Checks(t, hidden) ==
  UNION {{Check(c, n) : n \in catalog.ck[c]} : c \in Columns(t) \ hidden}

\* migrate_uq_constraints_ddl: one constraint per name, over the columns
\* (map_uqrec_colnames) that are left of it.
UniqueColumns(t, n, hidden) == {c \in Columns(t) \ hidden : n \in uq[c]}
Uniques(t, hidden) ==
  {Unique(UniqueColumns(t, n, hidden), n) :
     n \in UNION {uq[c] : c \in Columns(t) \ hidden}}

\* migrate_ddl_stname, from the end of CREATE TABLE on.  The message is
\* produced for the rejected columns the file does not use.
MigrateConstraints ==
  /\ phase = "constraints"
  /\ HideRejectedColumns(rejected_cnames)
  /\ rejected' = rejected \cup rejected_cnames
  /\ msgs' = msgs \cup {UsedButRejected(c) : c \in rejected_cnames \ file.usedcols}
  /\ constraints' = constraints \cup Checks(table, hidden_tc' \cup hidden_ck')
                                 \cup Uniques(table, hidden_tc' \cup hidden_uq')
  /\ last_schema_name' = SchemaOf[table]
  /\ phase' = "tables"
  /\ UNCHANGED << files, file, todo, table, table_info_cnt, catalog, uq,
                  schemas, created, createTableVars >>

\* migrate_validate_fk_constraints_ddl, after the last table, if any table of
\* the file was defined: the foreign keys that are not hidden, and a message
\* for each table referred to from a used column and not named by the file.
\*
\* Bugs: foreign keys of tables the file does not name; messages for the
\* referring table.
ForeignKeyColumnsOfCatalog == catalog.fk \ hidden_fk

ForeignKeyColumns ==
  (catalog.fk \ hidden_fk) \cap UNION {Columns(t) : t \in file.tables}

MissingTargetsReferring ==
  {TableOf(c) : c \in ForeignKeyColumns \cap file.usedcols} \ file.tables

MissingTargets ==
  {TableOf(catalog.ref[c]) : c \in ForeignKeyColumns \cap file.usedcols}
    \ file.tables

EndFile ==
  /\ phase = "tables" /\ todo = {}
  /\ \/ /\ table_info_cnt = 0
        /\ UNCHANGED << constraints, msgs >>
     \/ /\ table_info_cnt > 0
        /\ constraints' = constraints \cup
             {ForeignKey(c, catalog.ref[c], catalog.fk_name[c]) :
                c \in ForeignKeyColumns}
        /\ msgs' = msgs \cup {MissingTarget(t) : t \in MissingTargets}
  /\ phase' = "idle"
  /\ UNCHANGED << files, file, todo, table, table_info_cnt, last_schema_name,
                  schemas, created, rejected, recordVars, createTableVars >>

Next ==
  \/ \E f \in SourceFile : BeginFile(f)
  \/ \E t \in Table : UndefinedTable(t) \/ BeginDefinedTable(t)
  \/ MigrateTableColumn
  \/ CloseCreateTable
  \/ \E c \in Column : UniquifyIdentityColumn(c)
  \/ MigrateConstraints
  \/ EndFile

Spec == Init /\ [][Next]_vars
-------------------------------------------------------------------------------
TypeOK ==
  /\ CreateTableTypeOK
  /\ catalog \in Catalog
  /\ uq \in [Column -> SUBSET Name]
  /\ hidden_tc \in SUBSET Column /\ hidden_ck \in SUBSET Column
  /\ hidden_uq \in SUBSET Column /\ hidden_fk \in SUBSET Column
  /\ phase \in Phase
  /\ files \in 0..MaxFiles
  /\ file \in SourceFile \cup {NoFile}
  /\ todo \in SUBSET file.tables
  /\ table \in Table \cup {None}
  /\ table_info_cnt \in Nat
  /\ last_schema_name \in Schema \cup {None}
  /\ schemas \in Seq(Schema)
  /\ created \in SUBSET file.tables
  /\ constraints \in SUBSET Constraint
  /\ msgs \in SUBSET ([msg : {"used_but_undefined", "fk_target_undefined"},
                      of : SUBSET Table] \cup
                     [msg : {"used_but_rejected"}, of : SUBSET Column])
  /\ rejected \in SUBSET Column

\* The columns a constraint is about: those of its statement, and for a check
\* every column its clause was read for.
ConstraintColumns(s) ==
  s.cols \cup s.ref \cup
  (IF s.kind = "check"
     THEN {d \in Columns(TableOf(CHOOSE c \in s.cols : TRUE)) :
             s.name \in catalog.ck[d]}
     ELSE {})

(***************************************************************************)
(* RUNNING.md: a rejected column "figures neither in table nor in          *)
(* constraint definitions".  No constraint of the script mentions a column *)
(* that was rejected in the same file, whichever table came first and      *)
(* whatever the files before have hidden.                                  *)
(***************************************************************************)
RejectedNowhere ==
  \A s \in constraints : ConstraintColumns(s) \cap rejected = {}

(***************************************************************************)
(* Every constraint of the script is about a table the script has created: *)
(* none on an emptied or undefined table, and a foreign key's target is    *)
(* created too when the file names it.                                     *)
(***************************************************************************)
ConstraintsOnCreated ==
  \A s \in constraints :
    /\ \A c \in s.cols : TableOf(c) \in created
    /\ \A c \in s.ref : TableOf(c) \in file.tables => TableOf(c) \in created

(***************************************************************************)
(* A script creates a schema once, before the first of its tables          *)
(* (last_schema_name, and the order in which tables are migrated).         *)
(***************************************************************************)
SchemaOnce ==
  /\ \A i, j \in DOMAIN schemas : schemas[i] = schemas[j] => i = j
  /\ \A t \in created : \E i \in DOMAIN schemas : schemas[i] = SchemaOf[t]

(***************************************************************************)
(* The DDL of a file does not depend on the files migrated before it, with *)
(* main()'s table migrator: although the records are shared and flags are  *)
(* never reset, the CHECK and UNIQUE constraints of a finished script are  *)
(* those of the mappable columns of the file's tables, and no foreign key  *)
(* between mappable columns is ever lost.                                  *)
(***************************************************************************)
Finished == phase = "idle" /\ files > 0
Mappable(t) == Columns(t) \ catalog.unmappable
MappableForeignKeys ==
  {c \in catalog.fk : {c, catalog.ref[c]} \cap catalog.unmappable = {}}

HistoryFreeConstraints ==
  table_migrator = "dbunit_hsqldb" /\ Finished =>
    /\ created = {t \in file.tables : Mappable(t) # {}}
    /\ {s \in constraints : s.kind = "check"} =
         UNION {UNION {{Check(c, n) : n \in catalog.ck[c]} : c \in Mappable(t)} :
                  t \in file.tables}
    /\ {s \in constraints : s.kind = "unique"} =
         UNION {{Unique({c \in Mappable(t) : n \in catalog.uq[c]}, n) :
                   n \in UNION {catalog.uq[c] : c \in Mappable(t)}} :
                  t \in file.tables}
    /\ \A c \in MappableForeignKeys \cap UNION {Columns(t) : t \in file.tables} :
         ForeignKey(c, catalog.ref[c], catalog.fk_name[c]) \in constraints

\* RUNNING.md: but for assumed identities, the "transformation process is
\* entirely determined by user command-line options and JSON preferences":
\* the foreign keys of a finished script are those of a run that migrates
\* this file alone, which hides the keys that refer to an unmappable column
\* of a table the file names, and no others.
HistoryFreeForeignKeys ==
  Finished =>
    {s \in constraints : s.kind = "foreign_key"} =
      {ForeignKey(c, catalog.ref[c], catalog.fk_name[c]) :
         c \in {d \in catalog.fk :
                 /\ TableOf(d) \in file.tables
                 /\ d \notin catalog.unmappable
                 /\ catalog.ref[d] \in catalog.unmappable
                      => TableOf(catalog.ref[d]) \notin file.tables}}

(***************************************************************************)
(* A foreign key on a used column of a finished script refers to a table   *)
(* the script creates, or the script says that its target is undefined     *)
(* (test/sqlsvr_ddl/todo.txt: "used FK ref table undefined: warning?").    *)
(***************************************************************************)
UsedForeignKeyTarget ==
  Finished =>
    \A s \in constraints : s.kind = "foreign_key" /\ s.cols \subseteq file.usedcols =>
      \A c \in s.ref : \/ TableOf(c) \in created
                      \/ MissingTarget(TableOf(c)) \in msgs

(***************************************************************************)
(* A flag that hides a record is never reset, and is set only for columns  *)
(* rejected in the step's own table, or for a foreign key that refers to   *)
(* one of them: migrating a table never hides anything else.               *)
(***************************************************************************)
HidesOnlyRejected ==
  [][/\ hidden_tc \subseteq hidden_tc' /\ hidden_ck \subseteq hidden_ck'
     /\ hidden_uq \subseteq hidden_uq' /\ hidden_fk \subseteq hidden_fk'
     /\ \A c \in (hidden_tc' \ hidden_tc) \cup (hidden_ck' \ hidden_ck)
                  \cup (hidden_uq' \ hidden_uq) :
          c \in rejected_cnames /\ TableOf(c) = table
     /\ \A c \in hidden_fk' \ hidden_fk :
          {c, catalog.ref[c]} \cap rejected_cnames # {}]_vars

===============================================================================
