------------------------ MODULE StnamesMigrator_proofs ------------------------
(***************************************************************************)
(* Theorems about StnamesMigrator, for any number of tables and files: its *)
(* types, that schemas are created once, and that it implements            *)
(* TableStatement, for every catalog; and for simple catalogs, in which    *)
(* foreign keys and checks have one column, that no constraint mentions a  *)
(* rejected column or a table that is not created, and that with main()'s  *)
(* table migrator earlier files leave the tables, checks and uniques of a  *)
(* script as they are.                                                     *)
(***************************************************************************)
EXTENDS StnamesMigrator, CreateTable_proofs

-------------------------------------------------------------------------------
\* The catalog's records, field by field.

LEMMA CatalogTyped ==
  ASSUME NEW k \in Catalog
  PROVE  /\ k.columns \in [Table -> ColumnList \cup {<< >>}]
         /\ k.pk \in SUBSET Column /\ k.identity \in SUBSET Column
         /\ k.unmappable \in SUBSET Column
         /\ k.ck \in [Column -> SUBSET Name] /\ k.uq \in [Column -> SUBSET Name]
         /\ k.fk \in SUBSET Column
         /\ k.fk_name \in [Column -> Name] /\ k.ref \in [Column -> Column]
         /\ k.fk_named \in [Name -> Column]
<1>1. k \in CatalogRecord
  BY CatalogAssumption DEF IsCatalog
<1> QED
  BY <1>1 DEF CatalogRecord

LEMMA CatalogTables ==
  ASSUME NEW k \in Catalog
  PROVE  /\ \A t, u \in Table : \A i \in DOMAIN k.columns[t], j \in DOMAIN k.columns[u] :
              k.columns[t][i] = k.columns[u][j] => t = u
         /\ \A c \in k.fk : \A d \in {c, k.ref[c]} :
              \E t \in Table : \E i \in DOMAIN k.columns[t] : d = k.columns[t][i]
<1>1. IsCatalog(k)
  BY CatalogAssumption
<1>2. \A t, u \in Table : \A i \in DOMAIN k.columns[t], j \in DOMAIN k.columns[u] :
        k.columns[t][i] = k.columns[u][j] => t = u
  BY <1>1, Zenon DEF IsCatalog
<1>3. k.fk \cup {k.ref[c] : c \in k.fk} \subseteq
        UNION {ColumnsOf([columns |-> k.columns[t]]) : t \in Table}
  BY <1>1 DEF IsCatalog
<1>4. \A t : ColumnsOf([columns |-> k.columns[t]]) =
               {k.columns[t][i] : i \in DOMAIN k.columns[t]}
  BY DEF ColumnsOf
<1>5. \A c \in k.fk : \A d \in {c, k.ref[c]} :
        \E t \in Table : d \in ColumnsOf([columns |-> k.columns[t]])
  BY <1>3
<1>6. \A c \in k.fk : \A d \in {c, k.ref[c]} :
        \E t \in Table : \E i \in DOMAIN k.columns[t] : d = k.columns[t][i]
  <2> SUFFICES ASSUME NEW c \in k.fk, NEW d \in {c, k.ref[c]}
               PROVE  \E t \in Table : \E i \in DOMAIN k.columns[t] :
                        d = k.columns[t][i]
    OBVIOUS
  <2>1. PICK t \in Table : d \in ColumnsOf([columns |-> k.columns[t]])
    BY <1>5
  <2> QED
    BY <1>4, <2>1
<1> QED
  BY <1>2, <1>6, Zenon

LEMMA ColumnListTyped ==
  ASSUME NEW s \in ColumnList \cup {<< >>}
  PROVE  {s[i] : i \in DOMAIN s} \in SUBSET Column
BY DEF ColumnList

\* A column has one table.
LEMMA TableOfColumn ==
  ASSUME catalog \in Catalog, NEW t \in Table, NEW c \in Columns(t)
  PROVE  TableOf(c) = t
<1>1. \A u \in Table : c \in Columns(u) => u = t
  BY CatalogTables DEF Columns
<1> QED
  BY <1>1 DEF TableOf

LEMMA ColumnsTyped ==
  ASSUME catalog \in Catalog, NEW t \in Table
  PROVE  Columns(t) \in SUBSET Column
<1>1. catalog.columns[t] \in ColumnList \cup {<< >>}
  BY CatalogTyped
<1> QED
  BY <1>1, ColumnListTyped DEF Columns

LEMMA ForeignKeyTables ==
  ASSUME catalog \in Catalog, NEW c \in catalog.fk
  PROVE  /\ \E t \in Table : catalog.ref[c] \in Columns(t)
         /\ TableOf(catalog.ref[c]) \in Table
<1>1. \E t \in Table : catalog.ref[c] \in Columns(t)
  BY CatalogTables DEF Columns
<1> QED
  BY <1>1 DEF TableOf

LEMMA FindTableInfoTyped ==
  ASSUME catalog \in Catalog, NEW t \in Table, IsDefined(t)
  PROVE  /\ FindTableInfo(t) \in TableInfo
         /\ ColumnsOf(FindTableInfo(t)) = Columns(t)
<1>1. catalog.columns[t] \in ColumnList
  BY CatalogTyped DEF IsDefined
<1>2. ColumnsOf(FindTableInfo(t)) = Columns(t)
  BY DEF ColumnsOf, FindTableInfo, Columns
<1>3. Columns(t) \in SUBSET Column
  BY ColumnsTyped
<1> QED
  BY <1>1, <1>2, <1>3 DEF FindTableInfo, TableInfo

-------------------------------------------------------------------------------
\* Type correctness.  The table whose CREATE TABLE is under way is a table of
\* the file, and table_info is what the catalog says of it.

Busy == phase \in {"columns", "uniquify", "constraints"}

TypeInv ==
  /\ TypeOK
  /\ Busy => /\ table \in file.tables \ todo
             /\ table_info = FindTableInfo(table)
             /\ IsDefined(table)

LEMMA FileTyped ==
  ASSUME NEW f \in SourceFile \cup {NoFile}
  PROVE  /\ f.tables \in SUBSET Table
         /\ f.usedcols \in SUBSET Column /\ f.assumed \in SUBSET Column
<1>1. SourceFile \subseteq FileRecord
  BY SourceFileAssumption
<1> QED
  BY <1>1 DEF FileRecord, NoFile

LEMMA HiddenForeignKeysTyped ==
  ASSUME catalog \in Catalog, NEW cs
  PROVE  HiddenForeignKeys(cs) \in SUBSET Column
<1>1. /\ catalog.fk \in SUBSET Column
      /\ catalog.fk_name \in [Column -> Name]
      /\ catalog.fk_named \in [Name -> Column]
  BY CatalogTyped
<1> QED
  BY <1>1 DEF HiddenForeignKeys

LEMMA ConstraintsTyped ==
  ASSUME catalog \in Catalog, uq \in [Column -> SUBSET Name],
         NEW t \in Table, NEW hidden
  PROVE  Checks(t, hidden) \cup Uniques(t, hidden) \in SUBSET Constraint
<1>1. Columns(t) \in SUBSET Column /\ catalog.ck \in [Column -> SUBSET Name]
  BY ColumnsTyped, CatalogTyped
<1>2. \A c \in Column, n \in Name : Check(c, n) \in Constraint
  BY DEF Check, Constraint
<1>3. \A cs \in SUBSET Column, n \in Name : Unique(cs, n) \in Constraint
  BY DEF Unique, Constraint
<1>4. \A n : UniqueColumns(t, n, hidden) \in SUBSET Column
  BY <1>1 DEF UniqueColumns
<1>5. Checks(t, hidden) \in SUBSET Constraint
  BY <1>1, <1>2 DEF Checks
<1>6. Uniques(t, hidden) \in SUBSET Constraint
  BY <1>1, <1>3, <1>4 DEF Uniques
<1> QED
  BY <1>5, <1>6

LEMMA StnamesTypeInit == Init => TypeInv
<1> SUFFICES ASSUME Init PROVE TypeInv
  OBVIOUS
<1>1. CreateTableTypeOK
  BY CreateTableTypeInit DEF Init
<1>2. uq \in [Column -> SUBSET Name]
  BY CatalogTyped DEF Init
<1>3. files \in 0..MaxFiles /\ << >> \in Seq(Schema)
  BY MaxFilesAssumption DEF Init
<1> QED
  BY <1>1, <1>2, <1>3 DEF Init, TypeInv, TypeOK, Phase, Busy

\* What TypeInv says of the state a step begins in, for the steps' proofs.
LEMMA TypeFacts ==
  ASSUME TypeInv
  PROVE  /\ catalog \in Catalog /\ uq \in [Column -> SUBSET Name]
         /\ file.tables \in SUBSET Table /\ todo \in SUBSET file.tables
         /\ rejected_cnames \in SUBSET Column
         /\ Busy => /\ table \in Table /\ table \in file.tables /\ table \notin todo
                    /\ ColumnsOf(table_info) = Columns(table)
                    /\ rejected_cnames \subseteq Columns(table)
<1>1. /\ catalog \in Catalog /\ uq \in [Column -> SUBSET Name]
      /\ todo \in SUBSET file.tables /\ CreateTableTypeOK
      /\ file \in SourceFile \cup {NoFile}
  BY DEF TypeInv, TypeOK
<1>2. file.tables \in SUBSET Table
  BY <1>1, FileTyped
<1>3. rejected_cnames \in SUBSET ColumnsOf(table_info)
  BY <1>1 DEF CreateTableTypeOK
<1>4. ColumnsOf(table_info) \in SUBSET Column
  BY <1>1, ColumnsOfColumn DEF CreateTableTypeOK
<1>5. ASSUME Busy
      PROVE  /\ table \in Table /\ table \in file.tables /\ table \notin todo
             /\ ColumnsOf(table_info) = Columns(table)
  <2>1. table \in file.tables \ todo /\ table_info = FindTableInfo(table) /\ IsDefined(table)
    BY <1>5 DEF TypeInv
  <2> QED
    BY <1>1, <1>2, <2>1, FindTableInfoTyped
<1> QED
  BY <1>1, <1>2, <1>3, <1>4, <1>5

LEMMA BeginFileType ==
  ASSUME TypeInv, NEW f \in SourceFile, BeginFile(f)
  PROVE  TypeInv'
<1>1. CreateTableTypeOK'
  BY CreateTableTypeStutters DEF BeginFile, TypeInv, TypeOK
<1>2. files' \in 0..MaxFiles /\ << >> \in Seq(Schema)
  BY MaxFilesAssumption DEF BeginFile, TypeInv, TypeOK
<1> QED
  BY <1>1, <1>2 DEF BeginFile, TypeInv, TypeOK, Busy, Phase, recordVars

LEMMA UndefinedTableType ==
  ASSUME TypeInv, NEW t \in Table, UndefinedTable(t)
  PROVE  TypeInv'
<1>1. CreateTableTypeOK'
  BY CreateTableTypeStutters DEF UndefinedTable, TypeInv, TypeOK
<1>2. UsedButUndefined(t) \in [msg : {"used_but_undefined", "fk_target_undefined"},
                              of : SUBSET Table]
  BY DEF UsedButUndefined
<1> QED
  BY <1>1, <1>2 DEF UndefinedTable, NextTable, TypeInv, TypeOK, Busy, recordVars

LEMMA BeginDefinedTableType ==
  ASSUME TypeInv, NEW t \in Table, BeginDefinedTable(t)
  PROVE  TypeInv'
<1>1. catalog \in Catalog /\ IsDefined(t) /\ t \in todo /\ todo \in SUBSET file.tables
  BY TypeFacts DEF BeginDefinedTable, NextTable
<1>2. MakeTableMigrator(FindTableInfo(t)) /\ FindTableInfo(t) \in TableInfo
  BY <1>1, FindTableInfoTyped DEF BeginDefinedTable
<1>3. CreateTableTypeOK'
  BY <1>2, MakeTableMigratorType DEF TypeInv, TypeOK
<1>4. schemas' \in Seq(Schema)
  <2>1. SchemaOf[t] \in Schema /\ schemas \in Seq(Schema)
    BY NamesAssumption DEF TypeInv, TypeOK
  <2> QED
    BY <2>1 DEF BeginDefinedTable
<1>5. table_info' = FindTableInfo(t)
  BY <1>2 DEF MakeTableMigrator
<1>6. table_info' = FindTableInfo(table)' /\ IsDefined(table)'
  BY <1>1, <1>5 DEF BeginDefinedTable, FindTableInfo, IsDefined, Columns, recordVars
<1> QED
  BY <1>1, <1>3, <1>4, <1>6 DEF BeginDefinedTable, TypeInv, TypeOK, Busy, Phase, recordVars

\* The steps of the table that is under way leave it, and what is said of it,
\* as they are.
LEMMA SameTable ==
  ASSUME TypeInv, Busy,
         UNCHANGED << table_info, table, todo, file, catalog >>
  PROVE  /\ table' \in file'.tables \ todo'
         /\ (table_info = FindTableInfo(table))'
         /\ IsDefined(table)'
BY DEF TypeInv, FindTableInfo, IsDefined, Columns

LEMMA MigrateTableColumnType ==
  ASSUME TypeInv, MigrateTableColumn
  PROVE  TypeInv'
<1>1. Busy /\ phase' = phase
  BY DEF MigrateTableColumn, Busy, controlVars
<1>2. CreateTableTypeOK'
  BY MigrateColumnType DEF MigrateTableColumn, TypeInv, TypeOK
<1>3. table_info' = table_info
  BY DEF MigrateTableColumn, MigrateColumn, RejectDatatype, KeepPlain,
         HsqldbKeepIdentity, PkvsidIdentity, NextColumn
<1>4. UNCHANGED << recordVars, scriptVars, controlVars >>
  BY DEF MigrateTableColumn
<1>5. TypeOK'
  BY <1>2, <1>4 DEF TypeInv, TypeOK, recordVars, scriptVars, controlVars
<1> QED
  BY <1>1, <1>3, <1>4, <1>5, SameTable DEF TypeInv, recordVars, controlVars

LEMMA CloseCreateTableType ==
  ASSUME TypeInv, CloseCreateTable
  PROVE  TypeInv'
<1>1. Busy /\ phase' \in {"constraints", "uniquify"}
  BY DEF CloseCreateTable, Busy
<1>2. CreateTableTypeOK'
  BY CloseTableType DEF CloseCreateTable, TypeInv, TypeOK
<1>3. table_info' = table_info
  BY DEF CloseCreateTable, CloseTable
<1>4. created' \in SUBSET file.tables
  BY <1>1, TypeFacts DEF CloseCreateTable, TypeInv, TypeOK
<1>5. TypeOK'
  BY <1>1, <1>2, <1>4 DEF CloseCreateTable, TypeInv, TypeOK, Phase, recordVars
<1> QED
  BY <1>1, <1>3, <1>5, SameTable DEF CloseCreateTable, TypeInv, recordVars

LEMMA UniquifyType ==
  ASSUME TypeInv, NEW c \in Column, UniquifyIdentityColumn(c)
  PROVE  TypeInv'
<1>1. /\ Busy /\ phase' \in Phase
      /\ UNCHANGED << table_info, table, todo, file, catalog >>
  BY DEF UniquifyIdentityColumn, Busy, Phase, createTableVars
<1>2. CreateTableTypeOK'
  BY CreateTableTypeStutters DEF UniquifyIdentityColumn, TypeInv, TypeOK
<1>3. uq' \in [Column -> SUBSET Name]
  <2>1. IdentityUnique[c] \in Name /\ uq \in [Column -> SUBSET Name]
    BY NamesAssumption DEF TypeInv, TypeOK
  <2> QED
    BY <2>1 DEF UniquifyIdentityColumn
<1>4. TypeOK'
  BY <1>1, <1>2, <1>3 DEF UniquifyIdentityColumn, TypeInv, TypeOK, scriptVars
<1> QED
  BY <1>1, <1>4, SameTable DEF TypeInv

LEMMA MigrateConstraintsType ==
  ASSUME TypeInv, MigrateConstraints
  PROVE  TypeInv'
<1>1. /\ catalog \in Catalog /\ uq \in [Column -> SUBSET Name] /\ table \in Table
      /\ rejected_cnames \in SUBSET Column
  BY TypeFacts DEF MigrateConstraints, Busy
<1>2. CreateTableTypeOK'
  BY CreateTableTypeStutters DEF MigrateConstraints, TypeInv, TypeOK
<1>3. /\ hidden_tc' \in SUBSET Column /\ hidden_ck' \in SUBSET Column
      /\ hidden_uq' \in SUBSET Column /\ hidden_fk' \in SUBSET Column
  BY <1>1, HiddenForeignKeysTyped
     DEF MigrateConstraints, HideRejectedColumns, TypeInv, TypeOK
<1>4. constraints' \in SUBSET Constraint
  BY <1>1, ConstraintsTyped DEF MigrateConstraints, TypeInv, TypeOK
<1>5. \A c \in Column : UsedButRejected(c) \in [msg : {"used_but_rejected"}, of : SUBSET Column]
  BY DEF UsedButRejected
<1>6. last_schema_name' \in Schema
  BY <1>1, NamesAssumption DEF MigrateConstraints
<1>7. rejected' \in SUBSET Column
  BY <1>1 DEF MigrateConstraints, TypeInv, TypeOK
<1> QED
  BY <1>1, <1>2, <1>3, <1>4, <1>5, <1>6, <1>7
     DEF MigrateConstraints, TypeInv, TypeOK, Busy, Phase

LEMMA EndFileType ==
  ASSUME TypeInv, EndFile
  PROVE  TypeInv'
<1>1. catalog \in Catalog
  BY TypeFacts
<1>2. CreateTableTypeOK'
  BY CreateTableTypeStutters DEF EndFile, TypeInv, TypeOK
<1>3. \A c \in ForeignKeyColumns : c \in catalog.fk
  BY DEF ForeignKeyColumns
<1>4. \A c \in ForeignKeyColumns :
        ForeignKey(c, catalog.ref[c], catalog.fk_name[c]) \in Constraint
  BY <1>1, <1>3, CatalogTyped DEF ForeignKey, Constraint
<1>5. \A t \in MissingTargets :
        MissingTarget(t) \in [msg : {"used_but_undefined", "fk_target_undefined"},
                             of : SUBSET Table]
  BY <1>1, <1>3, ForeignKeyTables DEF MissingTargets, MissingTarget
<1> QED
  BY <1>2, <1>4, <1>5 DEF EndFile, TypeInv, TypeOK, Busy, Phase, recordVars

LEMMA StnamesTypeStep == TypeInv /\ [Next]_vars => TypeInv'
<1> SUFFICES ASSUME TypeInv, [Next]_vars PROVE TypeInv'
  OBVIOUS
<1>1. CASE UNCHANGED vars
  <2>1. CreateTableTypeOK'
    BY <1>1, CreateTableTypeStutters DEF vars, TypeInv, TypeOK
  <2> QED
    BY <1>1, <2>1 DEF vars, recordVars, scriptVars, controlVars, createTableVars,
                      TypeInv, TypeOK, Busy, FindTableInfo, IsDefined, Columns
<1> QED
  BY <1>1, BeginFileType, UndefinedTableType, BeginDefinedTableType,
     MigrateTableColumnType, CloseCreateTableType, UniquifyType,
     MigrateConstraintsType, EndFileType DEF Next

(***************************************************************************)
(* The state of a run over any number of files and tables has its type;    *)
(* in particular a script creates only tables that its file names          *)
(* (migrate_ddl_stnames).                                                  *)
(***************************************************************************)
THEOREM StnamesTypeCorrect == Spec => []TypeOK
<1>1. TypeInv => TypeOK
  BY DEF TypeInv
<1> QED
  BY StnamesTypeInit, StnamesTypeStep, <1>1, PTL DEF Spec

-------------------------------------------------------------------------------
\* RejectedNowhere.  It is not true of every catalog: a foreign key of two
\* columns is hidden by its name for one of them only, and the check of two
\* columns is hidden for the rejected one.  It is, of these:

SimpleCatalog(k) ==
  /\ \A c, d \in k.fk : k.fk_name[c] = k.fk_name[d] => c = d
  /\ \A t \in Table : \A c, d \in {k.columns[t][i] : i \in DOMAIN k.columns[t]} :
       k.ck[c] \cap k.ck[d] # {} => c = d

\* What makes it inductive: a column rejected in this file is hidden, so are
\* the foreign keys from and to it, and the constraints so far are about the
\* tables that are done, whose columns can no longer be rejected.

Done == file.tables \ (todo \cup IF Busy THEN {table} ELSE {})

RejectInv ==
  /\ TypeInv
  /\ rejected \subseteq hidden_tc
  /\ \A c \in catalog.fk :
       c \in rejected \/ catalog.ref[c] \in rejected => c \in hidden_fk
  /\ phase = "tables" \/ Busy =>
       \A s \in constraints : \A c \in ConstraintColumns(s) :
         \E t \in Done : c \in Columns(t)
  /\ RejectedNowhere

LEMMA CheckColumns ==
  ASSUME catalog \in Catalog, SimpleCatalog(catalog),
         NEW t \in Table, NEW c \in Columns(t), NEW n \in catalog.ck[c]
  PROVE  ConstraintColumns(Check(c, n)) = {c}
<1>1. /\ Check(c, n).kind = "check" /\ Check(c, n).name = n
      /\ Check(c, n).cols = {c} /\ Check(c, n).ref = {}
  BY DEF Check
<1>2. (CHOOSE d \in {c} : TRUE) = c
  OBVIOUS
<1>3. TableOf(c) = t
  BY TableOfColumn
<1>4. ConstraintColumns(Check(c, n)) =
        {c} \cup {d \in Columns(t) : n \in catalog.ck[d]}
  BY <1>1, <1>2, <1>3 DEF ConstraintColumns
<1>5. \A d \in Columns(t) : n \in catalog.ck[d] => d = c
  BY DEF SimpleCatalog, Columns
<1> QED
  BY <1>4, <1>5

LEMMA UniqueConstraintColumns ==
  ASSUME NEW cs, NEW n
  PROVE  ConstraintColumns(Unique(cs, n)) = cs
BY DEF ConstraintColumns, Unique

LEMMA ForeignKeyConstraintColumns ==
  ASSUME NEW c, NEW r, NEW n
  PROVE  ConstraintColumns(ForeignKey(c, r, n)) = {c, r}
BY DEF ConstraintColumns, ForeignKey

\* Hiding a column hides the foreign keys from and to it.
LEMMA HidesForeignKeys ==
  ASSUME catalog \in Catalog, SimpleCatalog(catalog), NEW cs, NEW c \in catalog.fk,
         c \in cs \/ catalog.ref[c] \in cs
  PROVE  c \in HiddenForeignKeys(cs)
<1>1. CASE c \in cs
  BY <1>1 DEF HiddenForeignKeys
<1>2. CASE catalog.ref[c] \in cs
  <2>1. /\ catalog.fk_named[catalog.fk_name[c]] \in catalog.fk
        /\ catalog.fk_name[catalog.fk_named[catalog.fk_name[c]]] = catalog.fk_name[c]
    BY CatalogAssumption DEF IsCatalog
  <2>2. catalog.fk_named[catalog.fk_name[c]] = c
    BY <2>1 DEF SimpleCatalog
  <2> QED
    BY <1>2, <2>2 DEF HiddenForeignKeys
<1> QED
  BY <1>1, <1>2

\* A step that adds no constraint and rejects no column.
LEMMA NothingRejected ==
  ASSUME RejectInv, TypeInv',
         UNCHANGED << catalog, constraints, rejected, hidden_tc, hidden_fk >>,
         (phase = "tables" \/ Busy)' => (phase = "tables" \/ Busy) /\ Done \subseteq Done'
  PROVE  RejectInv'
<1>1. /\ \A s : ConstraintColumns(s)' = ConstraintColumns(s)
      /\ \A t : Columns(t)' = Columns(t)
  BY DEF ConstraintColumns, TableOf, Columns
<1> QED
  BY <1>1 DEF RejectInv, RejectedNowhere

LEMMA MigrateConstraintsRejects ==
  ASSUME RejectInv, SimpleCatalog(catalog), TypeInv', MigrateConstraints
  PROVE  RejectInv'
<1>1. /\ catalog \in Catalog /\ Busy /\ table \in Table /\ table \in file.tables
      /\ table \notin todo /\ file.tables \in SUBSET Table
      /\ rejected_cnames \subseteq Columns(table)
  BY TypeFacts DEF RejectInv, MigrateConstraints, Busy
<1>2. /\ UNCHANGED << catalog, file, todo, table, uq >>
      /\ hidden_tc' = hidden_tc \cup rejected_cnames
      /\ hidden_fk' = hidden_fk \cup HiddenForeignKeys(rejected_cnames)
      /\ rejected' = rejected \cup rejected_cnames
      /\ phase' = "tables"
  BY DEF MigrateConstraints, HideRejectedColumns
<1>3. rejected' \subseteq hidden_tc'
  BY <1>2 DEF RejectInv
<1>4. \A c \in catalog.fk :
        c \in rejected' \/ catalog.ref[c] \in rejected' => c \in hidden_fk'
  BY <1>1, <1>2, HidesForeignKeys DEF RejectInv
<1>5. Done' = Done \cup {table} /\ table \notin Done /\ Done \subseteq Table
  BY <1>1, <1>2 DEF Done, Busy
<1>6. ASSUME NEW s \in constraints, NEW c \in ConstraintColumns(s)
      PROVE  c \notin rejected' /\ \E t \in Done' : c \in Columns(t)
  <2>1. PICK t \in Done : c \in Columns(t)
    BY <1>1, <1>6 DEF RejectInv
  <2>2. c \notin Columns(table)
    BY <1>1, <1>5, <2>1, TableOfColumn
  <2>3. c \notin rejected
    BY <1>6 DEF RejectInv, RejectedNowhere
  <2> QED
    BY <1>1, <1>2, <1>5, <2>1, <2>2, <2>3
<1>7. ASSUME NEW s \in constraints' \ constraints, NEW c \in ConstraintColumns(s)
      PROVE  c \in Columns(table) \ hidden_tc'
  <2>1. CASE s \in Checks(table, hidden_tc' \cup hidden_ck')
    <3>1. PICK d \in Columns(table) \ hidden_tc' : \E n \in catalog.ck[d] : s = Check(d, n)
      BY <2>1 DEF Checks
    <3> QED
      BY <1>1, <1>7, <3>1, CheckColumns DEF RejectInv
  <2>2. CASE s \in Uniques(table, hidden_tc' \cup hidden_uq')
    <3>1. PICK n : s = Unique(UniqueColumns(table, n, hidden_tc' \cup hidden_uq'), n)
      BY <2>2 DEF Uniques
    <3> QED
      BY <1>7, <3>1, UniqueConstraintColumns DEF UniqueColumns
  <2> QED
    BY <1>7, <2>1, <2>2 DEF MigrateConstraints
<1>8. ASSUME NEW s \in constraints', NEW c \in ConstraintColumns(s)
      PROVE  c \notin rejected' /\ \E t \in Done' : c \in Columns(t)
  <2>1. CASE s \in constraints
    BY <1>6, <1>8, <2>1
  <2>2. CASE s \notin constraints
    BY <1>3, <1>5, <1>7, <1>8, <2>2
  <2> QED
    BY <2>1, <2>2
<1>9. /\ \A s : ConstraintColumns(s)' = ConstraintColumns(s)
      /\ \A t : Columns(t)' = Columns(t)
  BY <1>2 DEF ConstraintColumns, TableOf, Columns
<1>10. RejectedNowhere'
  BY <1>8, <1>9 DEF RejectedNowhere
<1> QED
  BY <1>2, <1>3, <1>4, <1>8, <1>9, <1>10 DEF RejectInv

LEMMA EndFileRejects ==
  ASSUME RejectInv, TypeInv', EndFile
  PROVE  RejectInv'
<1>1. /\ UNCHANGED << catalog, rejected, hidden_tc, hidden_fk >>
      /\ phase' = "idle"
  BY DEF EndFile, recordVars
<1>2. \A s : ConstraintColumns(s)' = ConstraintColumns(s)
  BY <1>1 DEF ConstraintColumns, TableOf, Columns
<1>3. ASSUME NEW s \in constraints' \ constraints
      PROVE  ConstraintColumns(s) \cap rejected = {}
  <2>1. PICK c \in ForeignKeyColumns :
          s = ForeignKey(c, catalog.ref[c], catalog.fk_name[c])
    BY <1>3 DEF EndFile
  <2>2. c \in catalog.fk /\ c \notin hidden_fk
    BY DEF ForeignKeyColumns
  <2>3. c \notin rejected /\ catalog.ref[c] \notin rejected
    BY <2>2 DEF RejectInv
  <2> QED
    BY <2>1, <2>3, ForeignKeyConstraintColumns
<1>4. RejectedNowhere'
  BY <1>1, <1>2, <1>3 DEF RejectInv, RejectedNowhere
<1> QED
  BY <1>1, <1>4 DEF RejectInv, Busy

LEMMA RejectStep ==
  ASSUME \A k \in Catalog : SimpleCatalog(k), RejectInv, [Next]_vars
  PROVE  RejectInv'
<1>1. TypeInv /\ TypeInv'
  BY StnamesTypeStep DEF RejectInv
<1>2. SimpleCatalog(catalog) /\ todo \in SUBSET file.tables
  BY <1>1, TypeFacts
<1>3. ASSUME NEW f \in SourceFile, BeginFile(f)
      PROVE  RejectInv'
  <2>1. constraints' = {} /\ rejected' = {} /\ catalog' = catalog
    BY <1>3 DEF BeginFile, recordVars
  <2> QED
    BY <1>1, <2>1 DEF RejectInv, RejectedNowhere
<1>4. ASSUME NEW t \in Table, UndefinedTable(t)
      PROVE  RejectInv'
  BY <1>1, <1>4, NothingRejected DEF UndefinedTable, NextTable, Done, Busy, recordVars
<1>5. ASSUME NEW t \in Table, BeginDefinedTable(t)
      PROVE  RejectInv'
  <2>1. /\ phase = "tables" /\ ~Busy /\ Busy' /\ t \in todo /\ todo' = todo \ {t}
        /\ table' = t /\ file' = file
        /\ UNCHANGED << catalog, constraints, rejected, hidden_tc, hidden_fk >>
    BY <1>5 DEF BeginDefinedTable, NextTable, Busy, recordVars
  <2>2. Done \subseteq Done'
    BY <2>1 DEF Done
  <2> QED
    BY <1>1, <2>1, <2>2, NothingRejected
<1>6. CASE MigrateTableColumn
  BY <1>1, <1>6, NothingRejected
     DEF MigrateTableColumn, Done, Busy, recordVars, scriptVars, controlVars
<1>7. CASE CloseCreateTable
  BY <1>1, <1>7, NothingRejected DEF CloseCreateTable, Done, Busy, recordVars
<1>8. ASSUME NEW c \in Column, UniquifyIdentityColumn(c)
      PROVE  RejectInv'
  <2>1. /\ Busy /\ UNCHANGED << file, todo, table >>
        /\ UNCHANGED << catalog, constraints, rejected, hidden_tc, hidden_fk >>
    BY <1>8 DEF UniquifyIdentityColumn, Busy, scriptVars
  <2>2. Done \subseteq Done'
    BY <2>1 DEF Done
  <2> QED
    BY <1>1, <2>1, <2>2, NothingRejected
<1>9. CASE MigrateConstraints
  BY <1>1, <1>2, <1>9, MigrateConstraintsRejects
<1>10. CASE EndFile
  BY <1>1, <1>10, EndFileRejects
<1>11. CASE UNCHANGED vars
  BY <1>1, <1>11, NothingRejected
     DEF vars, Done, Busy, recordVars, scriptVars, controlVars
<1> QED
  BY <1>3, <1>4, <1>5, <1>6, <1>7, <1>8, <1>9, <1>10, <1>11 DEF Next

(***************************************************************************)
(* When foreign keys and checks have one column each, no constraint of a   *)
(* script mentions a column rejected in the same file, for any number of   *)
(* tables and files and whatever the records of earlier files that are     *)
(* hidden (migrate_ddl_stname, hide_rejected_column,                       *)
(* migrate_validate_fk_constraints_ddl).                                   *)
(***************************************************************************)
THEOREM RejectedNowhereCorrect ==
  ASSUME \A k \in Catalog : SimpleCatalog(k)
  PROVE  Spec => []RejectedNowhere
<1>1. Init => RejectInv
  BY StnamesTypeInit DEF Init, RejectInv, RejectedNowhere
<1>2. RejectInv /\ [Next]_vars => RejectInv'
  BY RejectStep
<1>3. RejectInv => RejectedNowhere
  BY DEF RejectInv
<1> QED
  BY <1>1, <1>2, <1>3, PTL DEF Spec

-------------------------------------------------------------------------------
\* HidesOnlyRejected: the flags change in MigrateConstraints alone.

HidesOnly ==
  /\ hidden_tc \subseteq hidden_tc' /\ hidden_ck \subseteq hidden_ck'
  /\ hidden_uq \subseteq hidden_uq' /\ hidden_fk \subseteq hidden_fk'
  /\ \A c \in (hidden_tc' \ hidden_tc) \cup (hidden_ck' \ hidden_ck)
               \cup (hidden_uq' \ hidden_uq) :
       c \in rejected_cnames /\ TableOf(c) = table
  /\ \A c \in hidden_fk' \ hidden_fk : {c, catalog.ref[c]} \cap rejected_cnames # {}

LEMMA HiddenForeignKeysOnly ==
  ASSUME catalog \in Catalog, SimpleCatalog(catalog), NEW cs,
         NEW c \in HiddenForeignKeys(cs)
  PROVE  {c, catalog.ref[c]} \cap cs # {}
<1>1. CASE c \in cs
  BY <1>1
<1>2. CASE c \notin cs
  <2>1. PICK d \in catalog.fk : /\ catalog.ref[d] \in cs
                                /\ c = catalog.fk_named[catalog.fk_name[d]]
    BY <1>2 DEF HiddenForeignKeys
  <2>2. /\ catalog.fk_named[catalog.fk_name[d]] \in catalog.fk
        /\ catalog.fk_name[catalog.fk_named[catalog.fk_name[d]]] = catalog.fk_name[d]
    BY CatalogAssumption DEF IsCatalog
  <2>3. c = d
    BY <2>1, <2>2 DEF SimpleCatalog
  <2> QED
    BY <2>1, <2>3
<1> QED
  BY <1>1, <1>2

(***************************************************************************)
(* Migrating a table hides nothing but the records of the columns it       *)
(* rejects and the foreign keys to them, and reveals nothing               *)
(* (hide_rejected_column), when every foreign key has a name of its own.   *)
(***************************************************************************)
THEOREM HidesOnlyRejectedCorrect ==
  ASSUME \A k \in Catalog : SimpleCatalog(k)
  PROVE  Spec => HidesOnlyRejected
<1>1. TypeInv /\ [Next]_vars => [HidesOnly]_vars
  <2> SUFFICES ASSUME TypeInv, Next PROVE HidesOnly
    OBVIOUS
  <2>1. CASE MigrateConstraints
    <3>1. catalog \in Catalog /\ SimpleCatalog(catalog) /\ table \in Table
          /\ rejected_cnames \subseteq Columns(table)
      BY <2>1, TypeFacts DEF MigrateConstraints, Busy
    <3>2. \A c \in rejected_cnames : TableOf(c) = table
      BY <3>1, TableOfColumn
    <3> QED
      BY <2>1, <3>1, <3>2, HiddenForeignKeysOnly
         DEF MigrateConstraints, HideRejectedColumns, HidesOnly
  <2>2. CASE UNCHANGED << hidden_tc, hidden_ck, hidden_uq, hidden_fk >>
    BY <2>2 DEF HidesOnly
  <2> QED
    BY <2>1, <2>2
       DEF Next, BeginFile, UndefinedTable, BeginDefinedTable, MigrateTableColumn,
           CloseCreateTable, UniquifyIdentityColumn, EndFile, recordVars
<1> QED
  BY StnamesTypeInit, StnamesTypeStep, <1>1, PTL
     DEF Spec, HidesOnlyRejected, HidesOnly

-------------------------------------------------------------------------------
\* The stnames migrator makes its statements as CreateTable says: it begins
\* one only when the last is closed, and leaves a closed one alone.

StatementUnderWay == TypeInv /\ (stage = "columns" <=> phase = "columns")

LEMMA UnderWayInit == Init => StatementUnderWay
BY StnamesTypeInit DEF Init, CreateTableInit, StatementUnderWay

LEMMA UnderWayStep ==
  ASSUME StatementUnderWay, [Next]_vars
  PROVE  StatementUnderWay' /\ [CreateTableNext]_createTableVars
<1>1. TypeInv'
  BY StnamesTypeStep DEF StatementUnderWay
<1>2. ASSUME NEW t \in Table, BeginDefinedTable(t)
      PROVE  BeginTable /\ stage' = "columns" /\ phase' = "columns"
  <2>1. catalog \in Catalog /\ IsDefined(t) /\ phase = "tables"
    BY <1>2, TypeFacts DEF StatementUnderWay, BeginDefinedTable, NextTable
  <2>2. FindTableInfo(t) \in TableInfo
    BY <2>1, FindTableInfoTyped
  <2> QED
    BY <1>2, <2>1, <2>2 DEF StatementUnderWay, BeginDefinedTable, BeginTable,
                            MakeTableMigrator
<1>3. CASE MigrateTableColumn
  <2>1. MigrateColumn /\ phase' = phase
    BY <1>3 DEF MigrateTableColumn, controlVars
  <2>2. stage' = stage
    BY <2>1 DEF MigrateColumn, RejectDatatype, KeepPlain, HsqldbKeepIdentity,
                PkvsidIdentity, NextColumn
  <2> QED
    BY <1>1, <2>1, <2>2 DEF StatementUnderWay, CreateTableNext
<1>4. CASE CloseCreateTable
  <2>1. CloseTable /\ stage' = "closed" /\ phase' # "columns"
    BY <1>4 DEF CloseCreateTable, CloseTable
  <2> QED
    BY <1>1, <2>1 DEF StatementUnderWay, CreateTableNext
<1>5. ASSUME UNCHANGED createTableVars,
             phase = "columns" <=> phase' = "columns"
      PROVE  StatementUnderWay' /\ [CreateTableNext]_createTableVars
  BY <1>1, <1>5 DEF StatementUnderWay, createTableVars
<1>6. ASSUME NEW f \in SourceFile, BeginFile(f)
      PROVE  StatementUnderWay' /\ [CreateTableNext]_createTableVars
  BY <1>5, <1>6 DEF BeginFile
<1>7. ASSUME NEW t \in Table, UndefinedTable(t)
      PROVE  StatementUnderWay' /\ [CreateTableNext]_createTableVars
  BY <1>5, <1>7 DEF UndefinedTable
<1>8. ASSUME NEW c \in Column, UniquifyIdentityColumn(c)
      PROVE  StatementUnderWay' /\ [CreateTableNext]_createTableVars
  BY <1>5, <1>8 DEF UniquifyIdentityColumn
<1>9. CASE MigrateConstraints \/ EndFile
  BY <1>5, <1>9 DEF MigrateConstraints, EndFile
<1>10. CASE UNCHANGED vars
  BY <1>5, <1>10 DEF vars, controlVars
<1> QED
  BY <1>1, <1>2, <1>3, <1>4, <1>6, <1>7, <1>8, <1>9, <1>10
     DEF Next, StatementUnderWay, CreateTableNext

(***************************************************************************)
(* The composition uses its component as it is meant to be used: every run *)
(* of the stnames migrator is, for the variables of CreateTable, one of    *)
(* CreateTable, so all theorems about its statements hold in a run over    *)
(* any number of files (migrate_ddl_stname, migrate_create_table_ddl).     *)
(***************************************************************************)
THEOREM StnamesUsesCreateTable == Spec => CreateTableSpec
<1>1. Init => CreateTableInit
  BY DEF Init
<1>2. StatementUnderWay /\ [Next]_vars
        => StatementUnderWay' /\ [CreateTableNext]_createTableVars
  BY UnderWayStep
<1> QED
  BY <1>1, <1>2, UnderWayInit, PTL DEF Spec, CreateTableSpec

(***************************************************************************)
(* The CREATE TABLEs of all files' scripts are the abstract ones           *)
(* (TableStatement), whatever earlier files have hidden.                   *)
(***************************************************************************)
THEOREM StnamesImplementsTableStatement == Spec => ImplementsTableStatement
BY StnamesUsesCreateTable, CreateTableImplements, PTL
-------------------------------------------------------------------------------
\* SchemaOnce: the schemas created so far are those of tables up to the last
\* one migrated, and a table to come has a greater rank.  Since a schema's
\* tables are contiguous, one that is not the last schema is not among them.

UnderWay == phase = "tables" \/ Busy

SchemasUpTo(v) ==
  \A i \in DOMAIN schemas :
    \E u \in Table : SchemaOf[u] = schemas[i] /\ Rank[u] <= Rank[v]

HasSchema(s) == \E i \in DOMAIN schemas : schemas[i] = s

InRankOrder == \A t \in todo, u \in file.tables \ todo : Rank[u] < Rank[t]

SchemaInv ==
  /\ TypeInv
  /\ UnderWay => InRankOrder
  /\ phase = "tables" =>
       \/ last_schema_name = None /\ schemas = << >>
       \/ /\ HasSchema(last_schema_name)
          /\ \E v \in file.tables \ todo :
               SchemaOf[v] = last_schema_name /\ SchemasUpTo(v)
  /\ Busy => HasSchema(SchemaOf[table]) /\ SchemasUpTo(table)
  /\ SchemaOnce

LEMMA NextTableRanks ==
  ASSUME TypeInv, InRankOrder, NEW t \in Table, NextTable(t),
         file' = file, todo' = todo \ {t}
  PROVE  InRankOrder'
<1>1. todo \subseteq Table /\ file.tables \subseteq Table /\ t \in todo
  BY TypeFacts DEF NextTable
<1>2. /\ \A u \in todo : Rank[t] <= Rank[u]
      /\ \A u \in Table : Rank[u] \in Nat
      /\ \A u \in Table : Rank[t] = Rank[u] => t = u
  BY NamesAssumption DEF NextTable
<1>3. \A u \in todo' : Rank[t] < Rank[u]
  BY <1>1, <1>2
<1>4. \A u \in file.tables \ todo' : u = t \/ u \in file.tables \ todo
  BY <1>1
<1> QED
  BY <1>3, <1>4 DEF InRankOrder

\* A schema that is not the last one has not been created yet.
LEMMA SchemaIsNew ==
  ASSUME NEW t \in Table, NEW v \in Table, Rank[v] < Rank[t], SchemasUpTo(v),
         SchemaOf[t] # SchemaOf[v]
  PROVE  ~HasSchema(SchemaOf[t])
<1> SUFFICES ASSUME NEW i \in DOMAIN schemas, schemas[i] = SchemaOf[t] PROVE FALSE
  BY DEF HasSchema
<1>1. PICK u \in Table : SchemaOf[u] = schemas[i] /\ Rank[u] <= Rank[v]
  BY DEF SchemasUpTo
<1>2. Rank[u] \in Nat /\ Rank[v] \in Nat
  BY NamesAssumption
<1>3. u # v
  BY <1>1
<1>4. Rank[u] < Rank[v]
  BY <1>1, <1>2, <1>3, NamesAssumption
<1> QED
  BY <1>1, <1>4, NamesAssumption

LEMMA AppendSchema ==
  ASSUME NEW ss \in Seq(Schema), NEW s \in Schema,
         \A i, j \in DOMAIN ss : ss[i] = ss[j] => i = j,
         \A i \in DOMAIN ss : ss[i] # s
  PROVE  LET n == Append(ss, s)
         IN /\ \A i, j \in DOMAIN n : n[i] = n[j] => i = j
            /\ \A i \in DOMAIN ss : i \in DOMAIN n /\ n[i] = ss[i]
            /\ \A i \in DOMAIN n : n[i] = s \/ i \in DOMAIN ss
            /\ Len(ss) + 1 \in DOMAIN n /\ n[Len(ss) + 1] = s
<1> DEFINE n == Append(ss, s)
<1>1. /\ DOMAIN ss = 1..Len(ss) /\ Len(ss) \in Nat
      /\ DOMAIN n = 1..(Len(ss) + 1)
      /\ \A i \in 1..Len(ss) : n[i] = ss[i]
      /\ n[Len(ss) + 1] = s
  OBVIOUS
<1> HIDE DEF n
<1>2. \A i \in DOMAIN n : i \in DOMAIN ss \/ i = Len(ss) + 1
  BY <1>1
<1>3. \A i, j \in DOMAIN n : n[i] = n[j] => i = j
  BY <1>1, <1>2
<1>4. \A i \in DOMAIN ss : i \in DOMAIN n /\ n[i] = ss[i]
  BY <1>1
<1>5. Len(ss) + 1 \in DOMAIN n
  BY <1>1
<1>6. \A i \in DOMAIN n : n[i] = s \/ i \in DOMAIN ss
  BY <1>1, <1>2
<1> QED
  BY <1>1, <1>3, <1>4, <1>5, <1>6 DEF n

LEMMA BeginDefinedTableSchemas ==
  ASSUME SchemaInv, TypeInv', NEW t \in Table, BeginDefinedTable(t)
  PROVE  SchemaInv'
<1>1. /\ phase = "tables" /\ phase' = "columns" /\ table' = t /\ t \in todo
      /\ file' = file /\ todo' = todo \ {t} /\ created' = created
      /\ file.tables \subseteq Table
  BY TypeFacts DEF SchemaInv, BeginDefinedTable, NextTable
<1>2. InRankOrder'
  BY <1>1, NextTableRanks DEF SchemaInv, UnderWay, BeginDefinedTable
<1>3. schemas \in Seq(Schema) /\ SchemaOf[t] \in Schema /\ None \notin Schema
  BY NamesAssumption, NoneAssumption DEF SchemaInv, TypeInv, TypeOK
<1>4. SchemaOnce
  BY DEF SchemaInv
<1>5. ~Busy /\ Busy'
  BY <1>1 DEF Busy
<1>6. \A v \in file.tables \ todo : v \in Table /\ Rank[v] < Rank[t]
  BY <1>1 DEF SchemaInv, UnderWay, InRankOrder
<1>7. \A v \in Table : Rank[v] \in Nat
  BY NamesAssumption
<1>8. SchemasUpTo(t)
  <2>1. CASE schemas = << >>
    BY <2>1 DEF SchemasUpTo
  <2>2. ASSUME NEW v \in file.tables \ todo, SchemasUpTo(v)
        PROVE  SchemasUpTo(t)
    <3> SUFFICES ASSUME NEW i \in DOMAIN schemas
                 PROVE  \E u \in Table : SchemaOf[u] = schemas[i] /\ Rank[u] <= Rank[t]
      BY DEF SchemasUpTo
    <3>1. PICK u \in Table : SchemaOf[u] = schemas[i] /\ Rank[u] <= Rank[v]
      BY <2>2 DEF SchemasUpTo
    <3> QED
      BY <1>6, <1>7, <3>1
  <2> QED
    BY <1>1, <2>1, <2>2 DEF SchemaInv
<1>9. CASE SchemaOf[t] = last_schema_name
  <2>1. schemas' = schemas
    BY <1>9 DEF BeginDefinedTable
  <2>2. HasSchema(SchemaOf[t])
    BY <1>1, <1>3, <1>9 DEF SchemaInv
  <2>3. HasSchema(SchemaOf[table])' /\ SchemasUpTo(table)' /\ SchemaOnce'
    BY <1>1, <1>4, <1>8, <2>1, <2>2 DEF HasSchema, SchemasUpTo, SchemaOnce
  <2> QED
    BY <1>1, <1>2, <2>3 DEF SchemaInv
<1>10. CASE SchemaOf[t] # last_schema_name
  <2>1. schemas' = Append(schemas, SchemaOf[t])
    BY <1>10 DEF BeginDefinedTable
  <2>2. \A i \in DOMAIN schemas : schemas[i] # SchemaOf[t]
    <3>1. CASE schemas = << >>
      BY <3>1
    <3>2. ASSUME NEW v \in file.tables \ todo, SchemaOf[v] = last_schema_name, SchemasUpTo(v)
          PROVE  ~HasSchema(SchemaOf[t])
      BY <1>6, <1>10, <3>2, SchemaIsNew
    <3> QED
      BY <1>1, <3>1, <3>2 DEF SchemaInv, HasSchema
  <2>3. \A i, j \in DOMAIN schemas : schemas[i] = schemas[j] => i = j
    BY <1>4 DEF SchemaOnce
  <2>4. /\ \A i, j \in DOMAIN schemas' : schemas'[i] = schemas'[j] => i = j
        /\ \A i \in DOMAIN schemas : i \in DOMAIN schemas' /\ schemas'[i] = schemas[i]
        /\ \A i \in DOMAIN schemas' : schemas'[i] = SchemaOf[t] \/ i \in DOMAIN schemas
        /\ Len(schemas) + 1 \in DOMAIN schemas'
        /\ schemas'[Len(schemas) + 1] = SchemaOf[t]
    BY <1>3, <2>1, <2>2, <2>3, AppendSchema
  <2>5. HasSchema(SchemaOf[table])'
    BY <1>1, <2>4 DEF HasSchema
  <2>6. SchemasUpTo(table)'
    BY <1>1, <1>7, <1>8, <2>4 DEF SchemasUpTo
  <2>7. SchemaOnce'
    BY <1>1, <1>4, <2>4 DEF SchemaOnce
  <2> QED
    BY <1>1, <1>2, <2>5, <2>6, <2>7 DEF SchemaInv
<1> QED
  BY <1>9, <1>10

LEMMA SchemaStep ==
  ASSUME SchemaInv, [Next]_vars
  PROVE  SchemaInv'
<1>1. TypeInv /\ TypeInv'
  BY StnamesTypeStep DEF SchemaInv
<1>2. ASSUME NEW f \in SourceFile, BeginFile(f)
      PROVE  SchemaInv'
  <2>1. /\ schemas' = << >> /\ created' = {} /\ last_schema_name' = None
        /\ phase' = "tables" /\ file' = f /\ todo' = f.tables
    BY <1>2 DEF BeginFile
  <2>2. InRankOrder' /\ ~Busy'
    BY <2>1 DEF InRankOrder, Busy
  <2> QED
    BY <1>1, <2>1, <2>2 DEF SchemaInv, SchemaOnce
<1>3. ASSUME NEW t \in Table, UndefinedTable(t)
      PROVE  SchemaInv'
  <2>1. /\ phase = "tables" /\ file' = file /\ todo' = todo \ {t}
        /\ UNCHANGED << phase, table, schemas, created, last_schema_name >>
    BY <1>3 DEF UndefinedTable, NextTable
  <2>2. InRankOrder'
    BY <1>1, <1>3, <2>1, NextTableRanks DEF SchemaInv, UnderWay, UndefinedTable
  <2> QED
    BY <1>1, <2>1, <2>2 DEF SchemaInv, SchemaOnce, HasSchema, SchemasUpTo, Busy, UnderWay
<1>4. ASSUME NEW t \in Table, BeginDefinedTable(t)
      PROVE  SchemaInv'
  BY <1>1, <1>4, BeginDefinedTableSchemas
\* The other steps leave the order and the schemas alone.
<1>5. ASSUME UNCHANGED << file, todo, table, schemas >>
      PROVE  /\ InRankOrder' = InRankOrder
             /\ SchemasUpTo(table)' = SchemasUpTo(table)
             /\ \A s : HasSchema(s)' = HasSchema(s)
             /\ \A v : SchemasUpTo(v)' = SchemasUpTo(v)
             /\ created' = created => SchemaOnce' = SchemaOnce
  BY <1>5 DEF InRankOrder, SchemasUpTo, HasSchema, SchemaOnce
<1>6. ASSUME UNCHANGED << file, todo, table, schemas, created >>,
             Busy, Busy' \/ phase' \notin {"tables", "columns", "uniquify", "constraints"}
      PROVE  SchemaInv'
  BY <1>1, <1>5, <1>6 DEF SchemaInv, UnderWay, Busy
<1>7. CASE MigrateTableColumn
  <2>1. UNCHANGED << phase, file, todo, table, schemas, created >> /\ Busy /\ Busy'
    BY <1>7 DEF MigrateTableColumn, controlVars, scriptVars, Busy
  <2> QED
    BY <1>6, <2>1
<1>8. CASE CloseCreateTable
  <2>1. /\ UNCHANGED << file, todo, table, schemas >> /\ Busy /\ Busy'
        /\ phase' # "tables" /\ created' \subseteq created \cup {table}
    BY <1>8 DEF CloseCreateTable, Busy
  <2>2. HasSchema(SchemaOf[table]) /\ SchemaOnce
    BY <2>1 DEF SchemaInv
  <2>3. SchemaOnce'
    BY <2>1, <2>2 DEF SchemaOnce, HasSchema
  <2> QED
    BY <1>1, <1>5, <2>1, <2>3 DEF SchemaInv, UnderWay
<1>9. ASSUME NEW c \in Column, UniquifyIdentityColumn(c)
      PROVE  SchemaInv'
  <2>1. /\ UNCHANGED << file, todo, table, schemas, created >> /\ Busy
        /\ phase' \in {"constraints", "crashed", "threw", "assert_failed"}
    BY <1>9 DEF UniquifyIdentityColumn, scriptVars, Busy
  <2> QED
    BY <1>6, <2>1 DEF Busy
<1>10. CASE MigrateConstraints
  <2>1. /\ UNCHANGED << file, todo, table, schemas, created >> /\ Busy /\ ~Busy'
        /\ phase' = "tables" /\ last_schema_name' = SchemaOf[table]
    BY <1>10 DEF MigrateConstraints, Busy
  <2>2. table \in file.tables \ todo
    BY <1>1, <2>1 DEF TypeInv
  <2>3. HasSchema(last_schema_name)' /\ SchemasUpTo(table)
    BY <1>5, <2>1 DEF SchemaInv
  <2> QED
    BY <1>1, <1>5, <2>1, <2>2, <2>3 DEF SchemaInv, UnderWay
<1>11. CASE EndFile
  <2>1. UNCHANGED << file, todo, table, schemas, created >> /\ phase' = "idle"
    BY <1>11 DEF EndFile
  <2> QED
    BY <1>1, <1>5, <2>1 DEF SchemaInv, UnderWay, Busy
<1>12. CASE UNCHANGED vars
  <2>1. UNCHANGED << phase, file, todo, table, schemas, created, last_schema_name >>
    BY <1>12 DEF vars, scriptVars, controlVars
  <2> QED
    BY <1>1, <1>5, <2>1 DEF SchemaInv, UnderWay, Busy
<1> QED
  BY <1>2, <1>3, <1>4, <1>7, <1>8, <1>9, <1>10, <1>11, <1>12 DEF Next

(***************************************************************************)
(* A script creates a schema once, before the first of its tables, however *)
(* many schemas, tables and files there are: comparing with the last       *)
(* schema is enough in the order of the names (migrate_ddl_stname,         *)
(* last_schema_name).                                                      *)
(***************************************************************************)
THEOREM SchemaOnceCorrect == Spec => []SchemaOnce
<1>1. Init => SchemaInv
  BY StnamesTypeInit DEF Init, SchemaInv, SchemaOnce, UnderWay, Busy
<1>2. SchemaInv /\ [Next]_vars => SchemaInv'
  BY SchemaStep
<1>3. SchemaInv => SchemaOnce
  BY DEF SchemaInv
<1> QED
  BY <1>1, <1>2, <1>3, PTL DEF Spec

-------------------------------------------------------------------------------
\* What the CREATE TABLE of the table under way says of it, and that a table
\* is not created only when all its columns were rejected: then no constraint
\* can be left on it.

ClosedInv ==
  /\ StatementUnderWay
  /\ StatementInv
  /\ Busy => stage # "idle"

LEMMA ClosedInit == Init => ClosedInv
<1>1. Init => CreateTableInit /\ ~Busy
  BY DEF Init, Busy
<1> QED
  BY <1>1, UnderWayInit, CreateTableTypeInit, AccountedInit DEF ClosedInv, StatementInv

LEMMA ClosedStep ==
  ASSUME ClosedInv, [Next]_vars
  PROVE  ClosedInv'
<1>1. StatementUnderWay' /\ [CreateTableNext]_createTableVars
  BY UnderWayStep DEF ClosedInv
<1>2. StatementInv'
  BY <1>1, StatementStep DEF ClosedInv, CreateTableNext, BeginTable
<1>3. ASSUME UNCHANGED stage, Busy' => Busy
      PROVE  ClosedInv'
  BY <1>1, <1>2, <1>3 DEF ClosedInv
<1>4. ASSUME stage' # "idle"
      PROVE  ClosedInv'
  BY <1>1, <1>2, <1>4 DEF ClosedInv
<1>5. ASSUME NEW f \in SourceFile, BeginFile(f)
      PROVE  ~Busy'
  BY <1>5 DEF BeginFile, Busy
<1>6. ASSUME NEW t \in Table, UndefinedTable(t)
      PROVE  UNCHANGED << stage, phase >>
  BY <1>6 DEF UndefinedTable, createTableVars
<1>7. ASSUME NEW t \in Table, BeginDefinedTable(t)
      PROVE  stage' # "idle"
  BY <1>7 DEF BeginDefinedTable, MakeTableMigrator
<1>8. CASE MigrateTableColumn
  <2>1. stage' = "columns"
    BY <1>8 DEF MigrateTableColumn, MigrateColumn, RejectDatatype, KeepPlain,
                HsqldbKeepIdentity, PkvsidIdentity, NextColumn
  <2> QED
    BY <1>4, <2>1
<1>9. CASE CloseCreateTable
  BY <1>4, <1>9 DEF CloseCreateTable, CloseTable
<1>10. ASSUME NEW c \in Column, UniquifyIdentityColumn(c)
       PROVE  UNCHANGED stage /\ Busy
  BY <1>10 DEF UniquifyIdentityColumn, createTableVars, Busy
<1>11. CASE MigrateConstraints \/ EndFile
  <2>1. ~Busy'
    BY <1>11 DEF MigrateConstraints, EndFile, Busy
  <2> QED
    BY <1>1, <1>2, <2>1 DEF ClosedInv
<1>12. CASE UNCHANGED vars
  <2>1. UNCHANGED << stage, phase >>
    BY <1>12 DEF vars, createTableVars, controlVars
  <2> QED
    BY <1>3, <2>1 DEF Busy
<1> QED
  BY <1>1, <1>2, <1>3, <1>4, <1>5, <1>6, <1>7, <1>8, <1>9, <1>10, <1>11, <1>12
     DEF Next, ClosedInv, Busy

\* The statement of the table under way, once it is closed.
TableAccounted ==
  /\ emptied => Columns(table) \subseteq rejected_cnames
  /\ table_migrator = "dbunit_hsqldb" =>
       /\ rejected_cnames = Columns(table) \cap catalog.unmappable
       /\ emptied <=> Columns(table) \subseteq catalog.unmappable
       /\ identity_cnames = {}

LEMMA ClosedTable == ClosedInv /\ Busy /\ stage = "closed" => TableAccounted
<1> SUFFICES ASSUME ClosedInv, Busy, stage = "closed" PROVE TableAccounted
  OBVIOUS
<1>1. /\ catalog \in Catalog /\ table \in Table
      /\ table_info = FindTableInfo(table) /\ ColumnsOf(table_info) = Columns(table)
  BY TypeFacts DEF ClosedInv, StatementUnderWay, TypeInv
<1>2. /\ Migrated = Columns(table) /\ emptied = ~unrejected_column
      /\ Migrated \subseteq Defined \cup rejected_cnames
      /\ unrejected_column <=> Defined # {}
      /\ Identities \subseteq Migrated
      /\ Defined = (Migrated \ (table_info.unmappable \cup table_info.identity)) \cup Identities
  BY <1>1 DEF ClosedInv, StatementInv, Accounted
<1>3. ASSUME table_migrator = "dbunit_hsqldb"
      PROVE  /\ rejected_cnames = Columns(table) \cap catalog.unmappable
             /\ emptied <=> Columns(table) \subseteq catalog.unmappable
             /\ identity_cnames = {}
  <2>1. /\ rejected_cnames = Migrated \cap table_info.unmappable
        /\ Identities = Migrated \cap MappableIdentities
        /\ identity_cnames = {}
    BY <1>3 DEF ClosedInv, StatementInv, Accounted, HsqldbAccounted
  <2>2. table_info.unmappable = catalog.unmappable \cap Columns(table)
    BY <1>1 DEF FindTableInfo
  <2>3. Defined = Migrated \ table_info.unmappable
    <3>1. table_info.identity \subseteq Columns(table)
      BY <1>1 DEF FindTableInfo
    <3> QED
      BY <1>2, <2>1, <3>1 DEF MappableIdentities
  <2> QED
    BY <1>2, <2>1, <2>2, <2>3
<1> QED
  BY <1>2, <1>3 DEF TableAccounted

LEMMA ClosedTableNext == (ClosedInv /\ Busy /\ stage = "closed" => TableAccounted)'
BY ClosedTable, PTL

\* A table that is done is created, or all its columns (of a table that is
\* not defined, none) are rejected.
CreatedOrRejected ==
  /\ phase \in {"uniquify", "constraints"} =>
       table \in created \/ Columns(table) \subseteq rejected_cnames
  /\ UnderWay =>
       \A t \in Done : t \in created \/ Columns(t) \subseteq rejected

CreatedInv ==
  /\ ClosedInv
  /\ RejectInv
  /\ CreatedOrRejected
  /\ ConstraintsOnCreated
  /\ UnderWay => \A s \in constraints : s.kind # "foreign_key"
  /\ UsedForeignKeyTarget

LEMMA ColumnsUnchanged ==
  ASSUME UNCHANGED catalog
  PROVE  /\ \A t : Columns(t)' = Columns(t)
         /\ \A c : TableOf(c)' = TableOf(c)
BY DEF Columns, TableOf

\* A step within a file that adds no constraint.
LEMMA NothingConstrained ==
  ASSUME CreatedInv, ClosedInv', RejectInv', UnderWay, phase' # "idle",
         UNCHANGED << catalog, file, constraints >>, created \subseteq created',
         CreatedOrRejected'
  PROVE  CreatedInv'
<1>1. \A c : TableOf(c)' = TableOf(c)
  BY ColumnsUnchanged
<1>2. ConstraintsOnCreated'
  BY <1>1 DEF CreatedInv, ConstraintsOnCreated
<1>3. UsedForeignKeyTarget'
  BY DEF UsedForeignKeyTarget, Finished
<1> QED
  BY <1>2, <1>3 DEF CreatedInv

LEMMA CloseCreateTableCreated ==
  ASSUME CreatedInv, ClosedInv', RejectInv', CloseCreateTable
  PROVE  CreatedInv'
<1>1. /\ phase = "columns" /\ phase' \in {"uniquify", "constraints"}
      /\ UNCHANGED << catalog, file, todo, table, constraints, rejected >>
      /\ stage' = "closed" /\ created \subseteq created'
      /\ emptied' \/ table \in created'
  BY DEF CloseCreateTable, CloseTable, recordVars
<1>2. Busy /\ Busy' /\ UnderWay
  BY <1>1 DEF Busy, UnderWay
<1>3. emptied' => (Columns(table) \subseteq rejected_cnames)'
  BY <1>1, <1>2, ClosedTableNext DEF TableAccounted
<1>4. Done' = Done /\ \A t : Columns(t)' = Columns(t)
  BY <1>1, <1>2, ColumnsUnchanged DEF Done
<1>5. CreatedOrRejected'
  BY <1>1, <1>2, <1>3, <1>4 DEF CreatedInv, CreatedOrRejected
<1> QED
  BY <1>1, <1>2, <1>5, NothingConstrained

\* The CHECK and UNIQUE constraints of a table are on columns that are kept.
LEMMA ConstraintOfTable ==
  ASSUME NEW t, NEW hidden, NEW h2, hidden \subseteq h2,
         NEW s \in Checks(t, h2) \cup Uniques(t, h2)
  PROVE  /\ s.cols \subseteq Columns(t) \ hidden
         /\ s.ref = {} /\ s.kind # "foreign_key"
<1>1. CASE s \in Checks(t, h2)
  <2>1. PICK c \in Columns(t) \ h2 : \E n \in catalog.ck[c] : s = Check(c, n)
    BY <1>1 DEF Checks
  <2> QED
    BY <2>1 DEF Check
<1>2. CASE s \in Uniques(t, h2)
  <2>1. PICK n : s = Unique(UniqueColumns(t, n, h2), n)
    BY <1>2 DEF Uniques
  <2>2. UniqueColumns(t, n, h2) \subseteq Columns(t) \ hidden
    BY DEF UniqueColumns
  <2> QED
    BY <2>1, <2>2 DEF Unique
<1> QED
  BY <1>1, <1>2

LEMMA MigrateConstraintsCreated ==
  ASSUME CreatedInv, ClosedInv', RejectInv', MigrateConstraints
  PROVE  CreatedInv'
<1>1. /\ phase = "constraints" /\ phase' = "tables"
      /\ UNCHANGED << catalog, uq, file, todo, table, created >>
      /\ rejected' = rejected \cup rejected_cnames
      /\ rejected_cnames \subseteq hidden_tc'
      /\ constraints' = constraints \cup Checks(table, hidden_tc' \cup hidden_ck')
                                    \cup Uniques(table, hidden_tc' \cup hidden_uq')
  BY DEF MigrateConstraints, HideRejectedColumns
<1>2. Busy /\ UnderWay /\ ~Busy'
  BY <1>1 DEF Busy, UnderWay
<1>3. catalog \in Catalog /\ table \in Table
  BY <1>2, TypeFacts DEF CreatedInv, RejectInv
<1>4. \A c : TableOf(c)' = TableOf(c) /\ \A t : Columns(t)' = Columns(t)
  BY <1>1, ColumnsUnchanged
<1>5. Done' \subseteq Done \cup {table}
  BY <1>1, <1>2 DEF Done
<1>6. table \in created \/ Columns(table) \subseteq rejected_cnames
  BY <1>1 DEF CreatedInv, CreatedOrRejected
<1>7. CreatedOrRejected'
  BY <1>1, <1>2, <1>4, <1>5, <1>6 DEF CreatedInv, CreatedOrRejected, UnderWay
<1>8. ASSUME NEW s \in constraints' \ constraints
      PROVE  /\ \A c \in s.cols : TableOf(c) \in created
             /\ s.ref = {} /\ s.kind # "foreign_key"
  <2>1. s.cols \subseteq Columns(table) \ rejected_cnames /\ s.ref = {} /\ s.kind # "foreign_key"
    <3>1. CASE s \in Checks(table, hidden_tc' \cup hidden_ck')
      BY <1>1, <3>1, ConstraintOfTable
    <3>2. CASE s \in Uniques(table, hidden_tc' \cup hidden_uq')
      BY <1>1, <3>2, ConstraintOfTable
    <3> QED
      BY <1>1, <1>8, <3>1, <3>2
  <2>2. ASSUME NEW c \in s.cols
        PROVE  TableOf(c) \in created
    <3>1. c \in Columns(table) /\ TableOf(c) = table
      BY <1>3, <2>1, <2>2, TableOfColumn
    <3> QED
      BY <1>6, <2>1, <2>2, <3>1
  <2> QED
    BY <2>1, <2>2
<1>9. ConstraintsOnCreated'
  BY <1>1, <1>4, <1>8 DEF CreatedInv, ConstraintsOnCreated
<1>10. (\A s \in constraints : s.kind # "foreign_key")'
  BY <1>1, <1>2, <1>8 DEF CreatedInv
<1>11. UsedForeignKeyTarget'
  BY <1>1 DEF UsedForeignKeyTarget, Finished
<1> QED
  BY <1>7, <1>9, <1>10, <1>11 DEF CreatedInv

\* The foreign keys that are left connect tables that are created, as far as
\* the file names them.
LEMMA ForeignKeysLeft ==
  ASSUME CreatedInv, phase = "tables", todo = {}, NEW c \in ForeignKeyColumns
  PROVE  /\ TableOf(c) \in created
         /\ TableOf(catalog.ref[c]) \in file.tables => TableOf(catalog.ref[c]) \in created
<1>1. /\ catalog \in Catalog /\ file.tables \subseteq Table
      /\ c \in catalog.fk /\ c \notin hidden_fk
  BY TypeFacts DEF CreatedInv, RejectInv, ForeignKeyColumns
<1>2. c \notin rejected /\ catalog.ref[c] \notin rejected
  BY <1>1 DEF CreatedInv, RejectInv
<1>3. Done = file.tables
  BY DEF Done, Busy
<1>4. \A t \in file.tables : t \in created \/ Columns(t) \subseteq rejected
  BY <1>3 DEF CreatedInv, CreatedOrRejected, UnderWay
<1>5. TableOf(c) \in created
  <2>1. PICK t \in file.tables : c \in Columns(t)
    BY DEF ForeignKeyColumns
  <2>2. TableOf(c) = t
    BY <1>1, <2>1, TableOfColumn
  <2> QED
    BY <1>2, <1>4, <2>1, <2>2
<1>6. catalog.ref[c] \in Columns(TableOf(catalog.ref[c]))
  <2>1. PICK t \in Table : catalog.ref[c] \in Columns(t)
    BY <1>1, ForeignKeyTables
  <2>2. TableOf(catalog.ref[c]) = t
    BY <1>1, <2>1, TableOfColumn
  <2> QED
    BY <2>1, <2>2
<1> QED
  BY <1>2, <1>4, <1>5, <1>6

LEMMA EndFileCreated ==
  ASSUME CreatedInv, ClosedInv', RejectInv', EndFile
  PROVE  CreatedInv'
<1>1. /\ phase = "tables" /\ todo = {} /\ phase' = "idle"
      /\ UNCHANGED << catalog, file, created >>
  BY DEF EndFile, recordVars
<1>2. ~UnderWay' /\ UnderWay
  BY <1>1 DEF UnderWay, Busy
<1>3. \A c : TableOf(c)' = TableOf(c)
  BY <1>1, ColumnsUnchanged
<1>4. ASSUME NEW s \in constraints', s \notin constraints
      PROVE  \E c \in ForeignKeyColumns :
               /\ s.cols = {c} /\ s.ref = {catalog.ref[c]}
               /\ msgs' = msgs \cup {MissingTarget(t) : t \in MissingTargets}
  <2>1. /\ msgs' = msgs \cup {MissingTarget(t) : t \in MissingTargets}
        /\ s \in {ForeignKey(c, catalog.ref[c], catalog.fk_name[c]) :
                    c \in ForeignKeyColumns}
    BY <1>4 DEF EndFile
  <2> QED
    BY <2>1 DEF ForeignKey
<1>5. ConstraintsOnCreated'
  <2> SUFFICES ASSUME NEW s \in constraints'
               PROVE  /\ \A c \in s.cols : TableOf(c) \in created
                      /\ \A c \in s.ref : TableOf(c) \in file.tables => TableOf(c) \in created
    BY <1>1, <1>3 DEF ConstraintsOnCreated
  <2>1. CASE s \in constraints
    BY <2>1 DEF CreatedInv, ConstraintsOnCreated
  <2>2. CASE s \notin constraints
    BY <1>1, <1>4, <2>2, ForeignKeysLeft
  <2> QED
    BY <2>1, <2>2
<1>6. UsedForeignKeyTarget'
  <2> SUFFICES ASSUME NEW s \in constraints', s.kind = "foreign_key",
                      s.cols \subseteq file.usedcols, NEW d \in s.ref
               PROVE  TableOf(d) \in created \/ MissingTarget(TableOf(d)) \in msgs'
    BY <1>1, <1>3 DEF UsedForeignKeyTarget
  <2>1. s \notin constraints
    BY <1>2 DEF CreatedInv
  <2>2. PICK c \in ForeignKeyColumns :
               /\ s.cols = {c} /\ s.ref = {catalog.ref[c]}
               /\ msgs' = msgs \cup {MissingTarget(t) : t \in MissingTargets}
    BY <1>4, <2>1
  <2>3. d = catalog.ref[c] /\ c \in file.usedcols
    BY <2>2
  <2>4. CASE TableOf(d) \in file.tables
    BY <1>1, <2>3, <2>4, ForeignKeysLeft
  <2>5. CASE TableOf(d) \notin file.tables
    <3>1. TableOf(d) \in MissingTargets
      BY <2>3, <2>5 DEF MissingTargets
    <3> QED
      BY <2>2, <3>1
  <2> QED
    BY <2>4, <2>5
<1>7. CreatedOrRejected'
  BY <1>1, <1>2 DEF CreatedOrRejected
<1> QED
  BY <1>2, <1>5, <1>6, <1>7 DEF CreatedInv

LEMMA CreatedStep ==
  ASSUME \A k \in Catalog : SimpleCatalog(k), CreatedInv, [Next]_vars
  PROVE  CreatedInv'
<1>1. ClosedInv' /\ RejectInv'
  BY ClosedStep, RejectStep DEF CreatedInv
<1>2. TypeInv
  BY DEF CreatedInv, RejectInv
<1>3. ASSUME NEW f \in SourceFile, BeginFile(f)
      PROVE  CreatedInv'
  <2>1. /\ constraints' = {} /\ phase' = "tables" /\ file' = f /\ todo' = f.tables
    BY <1>3 DEF BeginFile
  <2>2. Done' = {} /\ ~Finished'
    BY <2>1 DEF Done, Finished
  <2> QED
    BY <1>1, <2>1, <2>2
       DEF CreatedInv, CreatedOrRejected, ConstraintsOnCreated, UsedForeignKeyTarget
<1>4. ASSUME NEW t \in Table, UndefinedTable(t)
      PROVE  CreatedInv'
  <2>1. /\ phase = "tables" /\ phase' = "tables" /\ ~IsDefined(t) /\ todo' = todo \ {t}
        /\ UNCHANGED << catalog, file, constraints, created, rejected >>
    BY <1>4 DEF UndefinedTable, NextTable, recordVars
  <2>2. Columns(t) = {} /\ \A u : Columns(u)' = Columns(u)
    BY <2>1, ColumnsUnchanged DEF Columns, IsDefined
  <2>3. Done' \subseteq Done \cup {t}
    BY <2>1 DEF Done, Busy
  <2>4. CreatedOrRejected'
    BY <2>1, <2>2, <2>3 DEF CreatedInv, CreatedOrRejected, UnderWay
  <2> QED
    BY <1>1, <2>1, <2>4, NothingConstrained DEF UnderWay
<1>5. ASSUME NEW t \in Table, BeginDefinedTable(t)
      PROVE  CreatedInv'
  <2>1. /\ phase = "tables" /\ phase' = "columns" /\ todo' = todo \ {t} /\ table' = t
        /\ UNCHANGED << catalog, file, constraints, created, rejected >>
    BY <1>5 DEF BeginDefinedTable, NextTable, recordVars
  <2>2. Done' \subseteq Done /\ \A u : Columns(u)' = Columns(u)
    BY <2>1, ColumnsUnchanged DEF Done, Busy
  <2>3. CreatedOrRejected'
    BY <2>1, <2>2 DEF CreatedInv, CreatedOrRejected, UnderWay
  <2> QED
    BY <1>1, <2>1, <2>3, NothingConstrained DEF UnderWay
<1>6. CASE MigrateTableColumn
  <2>1. /\ phase = "columns" /\ phase' = "columns"
        /\ UNCHANGED << table, todo, catalog, file, constraints, created, rejected >>
    BY <1>6 DEF MigrateTableColumn, recordVars, scriptVars, controlVars
  <2>2. Done' = Done /\ \A u : Columns(u)' = Columns(u)
    BY <2>1, ColumnsUnchanged DEF Done, Busy
  <2>3. CreatedOrRejected' /\ UnderWay
    BY <2>1, <2>2 DEF CreatedInv, CreatedOrRejected, UnderWay, Busy
  <2> QED
    BY <1>1, <2>1, <2>3, NothingConstrained
<1>7. CASE CloseCreateTable
  BY <1>1, <1>7, CloseCreateTableCreated
<1>8. ASSUME NEW c \in Column, UniquifyIdentityColumn(c)
      PROVE  CreatedInv'
  <2>1. /\ phase = "uniquify"
        /\ phase' \in {"constraints", "crashed", "threw", "assert_failed"}
        /\ UNCHANGED << table, todo, catalog, file, constraints, created, rejected,
                        rejected_cnames >>
    BY <1>8 DEF UniquifyIdentityColumn, scriptVars, createTableVars
  <2>2. UnderWay' => Done' = Done
    BY <2>1 DEF Done, Busy, UnderWay
  <2>3. \A u : Columns(u)' = Columns(u)
    BY <2>1, ColumnsUnchanged
  <2>4. CreatedOrRejected' /\ UnderWay /\ phase' # "idle"
    BY <2>1, <2>2, <2>3 DEF CreatedInv, CreatedOrRejected, UnderWay, Busy
  <2> QED
    BY <1>1, <2>1, <2>4, NothingConstrained
<1>9. CASE MigrateConstraints
  BY <1>1, <1>9, MigrateConstraintsCreated
<1>10. CASE EndFile
  BY <1>1, <1>10, EndFileCreated
<1>11. CASE UNCHANGED vars
  <2>1. UNCHANGED << catalog, file, files, phase, constraints, created, msgs, rejected, todo, table,
                     rejected_cnames >>
    BY <1>11 DEF vars, recordVars, scriptVars, controlVars, createTableVars
  <2>2. /\ Done' = Done /\ UnderWay' = UnderWay /\ Finished' = Finished
        /\ \A u : Columns(u)' = Columns(u) /\ \A c : TableOf(c)' = TableOf(c)
    BY <2>1, ColumnsUnchanged DEF Done, Busy, UnderWay, Finished
  <2>3. CreatedOrRejected'
    BY <2>1, <2>2 DEF CreatedInv, CreatedOrRejected
  <2>4. ConstraintsOnCreated' /\ UsedForeignKeyTarget'
    BY <2>1, <2>2 DEF CreatedInv, ConstraintsOnCreated, UsedForeignKeyTarget
  <2> QED
    BY <1>1, <2>1, <2>2, <2>3, <2>4 DEF CreatedInv
<1> QED
  BY <1>3, <1>4, <1>5, <1>6, <1>7, <1>8, <1>9, <1>10, <1>11 DEF Next

LEMMA CreatedInvariant ==
  ASSUME \A k \in Catalog : SimpleCatalog(k)
  PROVE  Spec => []CreatedInv
<1>1. Init => CreatedInv
  <2> SUFFICES ASSUME Init PROVE CreatedInv
    OBVIOUS
  <2>1. /\ constraints = {} /\ rejected = {} /\ phase = "idle" /\ files = 0
        /\ hidden_tc = {}
    BY DEF Init
  <2>2. RejectInv
    BY <2>1, StnamesTypeInit DEF RejectInv, RejectedNowhere, Busy
  <2> QED
    BY <2>1, <2>2, ClosedInit DEF CreatedInv, CreatedOrRejected, UnderWay, Busy,
       ConstraintsOnCreated, UsedForeignKeyTarget, Finished
<1>2. CreatedInv /\ [Next]_vars => CreatedInv'
  BY CreatedStep
<1> QED
  BY <1>1, <1>2, PTL DEF Spec

(***************************************************************************)
(* Every constraint of a script is on a table the script creates, and so   *)
(* is the target of a foreign key that the file names: a table that ends   *)
(* up as comments has only rejected columns, and these take their checks,  *)
(* uniques and foreign keys with them (migrate_create_table_ddl,           *)
(* hide_rejected_column).                                                  *)
(***************************************************************************)
THEOREM ConstraintsOnCreatedCorrect ==
  ASSUME \A k \in Catalog : SimpleCatalog(k)
  PROVE  Spec => []ConstraintsOnCreated
<1>1. CreatedInv => ConstraintsOnCreated
  BY DEF CreatedInv
<1> QED
  BY <1>1, CreatedInvariant, PTL

(***************************************************************************)
(* A foreign key on a used column refers to a table the script creates, or *)
(* a message says that its target is undefined                             *)
(* (migrate_validate_fk_constraints_ddl).                                  *)
(***************************************************************************)
THEOREM UsedForeignKeyTargetCorrect ==
  ASSUME \A k \in Catalog : SimpleCatalog(k)
  PROVE  Spec => []UsedForeignKeyTarget
<1>1. CreatedInv => UsedForeignKeyTarget
  BY DEF CreatedInv
<1> QED
  BY <1>1, CreatedInvariant, PTL

-------------------------------------------------------------------------------
\* HistoryFreeConstraints.  With main()'s table migrator a column is rejected
\* by its datatype alone, so what is hidden is unmappable whichever file hid
\* it, and the tables that are done have left their mappable constraints.

TableChecks(t) ==
  UNION {{Check(c, n) : n \in catalog.ck[c]} : c \in Mappable(t)}

TableUniques(t) ==
  {Unique({c \in Mappable(t) : n \in catalog.uq[c]}, n) :
     n \in UNION {catalog.uq[c] : c \in Mappable(t)}}

OfKind(kind) == {s \in constraints : s.kind = kind}

\* The tables whose CREATE TABLE has been written, if they are defined.
Closed == file.tables \ (todo \cup IF phase = "columns" THEN {table} ELSE {})

Scripted ==
  /\ \A t \in file.tables \ todo : IsDefined(t) => table_info_cnt > 0
  /\ created = {t \in Closed : Mappable(t) # {}}
  /\ OfKind("check") = UNION {TableChecks(t) : t \in Done}
  /\ OfKind("unique") = UNION {TableUniques(t) : t \in Done}

\* HistoryFreeConstraints in these terms.
FileScripted ==
  /\ created = {t \in file.tables : Mappable(t) # {}}
  /\ OfKind("check") = UNION {TableChecks(t) : t \in file.tables}
  /\ OfKind("unique") = UNION {TableUniques(t) : t \in file.tables}
  /\ \A c \in MappableForeignKeys \cap UNION {Columns(t) : t \in file.tables} :
       ForeignKey(c, catalog.ref[c], catalog.fk_name[c]) \in constraints

LEMMA HistoryByTable ==
  HistoryFreeConstraints
    <=> (table_migrator = "dbunit_hsqldb" /\ Finished => FileScripted)
BY Zenon DEF HistoryFreeConstraints, FileScripted, OfKind, TableChecks, TableUniques

LEMMA HistoryByTableNext ==
  (HistoryFreeConstraints
     <=> (table_migrator = "dbunit_hsqldb" /\ Finished => FileScripted))'
BY HistoryByTable, PTL

UnmappableHidden ==
  /\ hidden_tc \cup hidden_ck \cup hidden_uq \subseteq catalog.unmappable
  /\ \A c \in hidden_fk : {c, catalog.ref[c]} \cap catalog.unmappable # {}

HistoryFree ==
  /\ uq = catalog.uq /\ phase # "uniquify"
  /\ UnmappableHidden
  /\ UnderWay => Scripted
  /\ HistoryFreeConstraints

HistoryInv == ClosedInv /\ (table_migrator = "dbunit_hsqldb" => HistoryFree)

\* What is said of the catalog does not change with the run.
LEMMA CatalogUnchanged ==
  ASSUME UNCHANGED catalog
  PROVE  /\ \A t : Columns(t)' = Columns(t) /\ Mappable(t)' = Mappable(t)
         /\ \A t : IsDefined(t)' = IsDefined(t)
         /\ \A t : TableChecks(t)' = TableChecks(t) /\ TableUniques(t)' = TableUniques(t)
         /\ MappableForeignKeys' = MappableForeignKeys
BY DEF Columns, Mappable, IsDefined, TableChecks, TableUniques, MappableForeignKeys

\* A step that hides nothing.
LEMMA NothingHidden ==
  ASSUME HistoryFree, UNCHANGED << catalog, uq, hidden_tc, hidden_ck, hidden_uq, hidden_fk >>,
         phase' # "uniquify", phase' # "idle", UnderWay' => Scripted'
  PROVE  HistoryFree'
<1>1. UnmappableHidden'
  BY DEF HistoryFree, UnmappableHidden
<1>2. HistoryFreeConstraints'
  BY DEF HistoryFreeConstraints, Finished
<1> QED
  BY <1>1, <1>2 DEF HistoryFree

\* A step that leaves the script alone, and adds at most a table without
\* mappable columns to those that are done.
LEMMA NothingScripted ==
  ASSUME Scripted, UNCHANGED << catalog, file, created, constraints >>,
         \A t \in Done' \ Done : Mappable(t) = {}, Done \subseteq Done',
         \A t \in Closed' \ Closed : Mappable(t) = {}, Closed \subseteq Closed',
         \A t \in file.tables \ todo' : IsDefined(t) => table_info_cnt' > 0
  PROVE  Scripted'
<1>1. /\ \A t : Mappable(t)' = Mappable(t) /\ IsDefined(t)' = IsDefined(t)
      /\ \A t : TableChecks(t)' = TableChecks(t) /\ TableUniques(t)' = TableUniques(t)
  BY CatalogUnchanged
<1>2. \A t : Mappable(t) = {} => TableChecks(t) = {} /\ TableUniques(t) = {}
  BY DEF TableChecks, TableUniques
<1>3. \A kind : OfKind(kind)' = OfKind(kind)
  BY DEF OfKind
<1>4. UNION {TableChecks(t) : t \in Done'} = UNION {TableChecks(t) : t \in Done}
  BY <1>2
<1>5. UNION {TableUniques(t) : t \in Done'} = UNION {TableUniques(t) : t \in Done}
  BY <1>2
<1>6. {t \in Closed' : Mappable(t) # {}} = {t \in Closed : Mappable(t) # {}}
  OBVIOUS
<1>7. OfKind("check")' = (UNION {TableChecks(t) : t \in Done})'
  BY <1>1, <1>3, <1>4 DEF Scripted
<1>8. OfKind("unique")' = (UNION {TableUniques(t) : t \in Done})'
  BY <1>1, <1>3, <1>5 DEF Scripted
<1> QED
  BY <1>1, <1>6, <1>7, <1>8 DEF Scripted

LEMMA BeginFileHistory ==
  ASSUME HistoryFree, NEW f \in SourceFile, BeginFile(f)
  PROVE  HistoryFree'
<1>1. /\ constraints' = {} /\ created' = {} /\ phase' = "tables"
      /\ file' = f /\ todo' = f.tables
      /\ UNCHANGED << catalog, uq, hidden_tc, hidden_ck, hidden_uq, hidden_fk >>
  BY DEF BeginFile, recordVars
<1>2. Done' = {} /\ Closed' = {} /\ \A kind : OfKind(kind)' = {}
  BY <1>1 DEF Done, Closed, OfKind
<1>3. Scripted'
  BY <1>1, <1>2 DEF Scripted
<1> QED
  BY <1>1, <1>3, NothingHidden

LEMMA UndefinedTableHistory ==
  ASSUME HistoryFree, NEW t \in Table, UndefinedTable(t)
  PROVE  HistoryFree'
<1>1. /\ phase = "tables" /\ phase' = "tables" /\ ~IsDefined(t) /\ todo' = todo \ {t}
      /\ UNCHANGED << file, created, constraints, table_info_cnt >>
      /\ UNCHANGED << catalog, uq, hidden_tc, hidden_ck, hidden_uq, hidden_fk >>
  BY DEF UndefinedTable, NextTable, recordVars
<1>2. Scripted
  BY <1>1 DEF HistoryFree, UnderWay
<1>3. Mappable(t) = {}
  BY <1>1 DEF Mappable, Columns, IsDefined
<1>4. /\ Done = file.tables \ todo /\ Done' = file.tables \ todo'
      /\ Closed = Done /\ Closed' = Done'
  BY <1>1 DEF Done, Closed, Busy
<1>5. Done \subseteq Done' /\ \A u \in Done' \ Done : u = t
  BY <1>1, <1>4
<1>6. \A u \in file.tables \ todo' : IsDefined(u) => table_info_cnt' > 0
  BY <1>1, <1>2 DEF Scripted
<1>7. Scripted'
  BY <1>1, <1>2, <1>3, <1>4, <1>5, <1>6, NothingScripted
<1> QED
  BY <1>1, <1>7, NothingHidden

LEMMA BeginDefinedTableHistory ==
  ASSUME TypeInv, HistoryFree, NEW t \in Table, BeginDefinedTable(t)
  PROVE  HistoryFree'
<1>1. /\ phase = "tables" /\ phase' = "columns" /\ t \in todo /\ todo' = todo \ {t}
      /\ table' = t /\ table_info_cnt' = table_info_cnt + 1 /\ table_info_cnt \in Nat
      /\ UNCHANGED << file, created, constraints >>
      /\ UNCHANGED << catalog, uq, hidden_tc, hidden_ck, hidden_uq, hidden_fk >>
  BY DEF BeginDefinedTable, NextTable, recordVars, TypeInv, TypeOK
<1>2. Scripted
  BY <1>1 DEF HistoryFree, UnderWay
<1>3. Done' = Done /\ Closed' = Closed
  BY <1>1 DEF Done, Closed, Busy
<1>4. table_info_cnt' > 0
  BY <1>1
<1>5. Scripted'
  BY <1>1, <1>2, <1>3, <1>4, NothingScripted
<1> QED
  BY <1>1, <1>5, NothingHidden

LEMMA MigrateTableColumnHistory ==
  ASSUME HistoryFree, MigrateTableColumn
  PROVE  HistoryFree'
<1>1. /\ phase = "columns" /\ phase' = "columns"
      /\ UNCHANGED << file, todo, table, created, constraints, table_info_cnt >>
      /\ UNCHANGED << catalog, uq, hidden_tc, hidden_ck, hidden_uq, hidden_fk >>
  BY DEF MigrateTableColumn, recordVars, scriptVars, controlVars
<1>2. Scripted
  BY <1>1 DEF HistoryFree, UnderWay, Busy
<1>3. Done' = Done /\ Closed' = Closed
  BY <1>1 DEF Done, Closed, Busy
<1>4. Scripted'
  BY <1>1, <1>2, <1>3, NothingScripted DEF Scripted
<1> QED
  BY <1>1, <1>4, NothingHidden

LEMMA CloseCreateTableHistory ==
  ASSUME ClosedInv, HistoryFree, table_migrator = "dbunit_hsqldb", ClosedInv',
         CloseCreateTable
  PROVE  HistoryFree'
<1>1. /\ phase = "columns" /\ phase' = IF identity_cnames = {} THEN "constraints" ELSE "uniquify"
      /\ created' = IF emptied' THEN created ELSE created \cup {table}
      /\ stage' = "closed"
      /\ UNCHANGED << file, todo, table, constraints, table_info_cnt,
                      table_migrator, identity_cnames >>
      /\ UNCHANGED << catalog, uq, hidden_tc, hidden_ck, hidden_uq, hidden_fk >>
  BY DEF CloseCreateTable, CloseTable, recordVars
<1>2. Busy /\ Busy' /\ table \in file.tables /\ table \notin todo
  BY <1>1, TypeFacts DEF Busy, ClosedInv, StatementUnderWay
<1>3. TableAccounted'
  BY <1>1, <1>2, ClosedTableNext
<1>4. /\ \A t : Columns(t)' = Columns(t) /\ Mappable(t)' = Mappable(t)
      /\ \A t : IsDefined(t)' = IsDefined(t)
      /\ \A t : TableChecks(t)' = TableChecks(t) /\ TableUniques(t)' = TableUniques(t)
  BY <1>1, CatalogUnchanged
<1>5. identity_cnames = {} /\ (emptied' <=> Mappable(table) = {})
  BY <1>1, <1>3, <1>4 DEF TableAccounted, Mappable
<1>6. phase' = "constraints"
  BY <1>1, <1>5
<1>7. /\ Done' = Done /\ Closed' = Closed \cup {table}
      /\ \A kind : OfKind(kind)' = OfKind(kind)
  BY <1>1, <1>2, <1>6 DEF Done, Closed, OfKind
<1>8. Scripted
  BY <1>2 DEF HistoryFree, UnderWay
<1>9. created' = {t \in Closed' : Mappable(t) # {}}
  BY <1>1, <1>5, <1>7, <1>8 DEF Scripted
<1>10. Scripted'
  BY <1>1, <1>4, <1>7, <1>8, <1>9 DEF Scripted
<1> QED
  BY <1>1, <1>6, <1>10, NothingHidden

\* With the unmappable columns hidden, and no others, what is left of a
\* table's constraints are those of its mappable columns.
LEMMA ConstraintsLeft ==
  ASSUME NEW t, NEW hidden, hidden \subseteq catalog.unmappable,
         Columns(t) \cap catalog.unmappable \subseteq hidden, uq = catalog.uq
  PROVE  Checks(t, hidden) = TableChecks(t) /\ Uniques(t, hidden) = TableUniques(t)
<1>1. Columns(t) \ hidden = Mappable(t)
  BY DEF Mappable
<1>2. \A n : UniqueColumns(t, n, hidden) = {c \in Mappable(t) : n \in catalog.uq[c]}
  BY <1>1 DEF UniqueColumns
<1> QED
  BY <1>1, <1>2 DEF Checks, Uniques, TableChecks, TableUniques

LEMMA HidesUnmappable ==
  ASSUME catalog \in Catalog, SimpleCatalog(catalog), UnmappableHidden, UNCHANGED catalog,
         HideRejectedColumns(rejected_cnames), rejected_cnames \subseteq catalog.unmappable
  PROVE  UnmappableHidden'
<1>1. \A c \in HiddenForeignKeys(rejected_cnames) :
        {c, catalog.ref[c]} \cap catalog.unmappable # {}
  BY HiddenForeignKeysOnly
<1> QED
  BY <1>1 DEF HideRejectedColumns, UnmappableHidden

LEMMA MigrateConstraintsHistory ==
  ASSUME ClosedInv, HistoryFree, table_migrator = "dbunit_hsqldb",
         SimpleCatalog(catalog), MigrateConstraints
  PROVE  HistoryFree'
<1>1. /\ phase = "constraints" /\ phase' = "tables"
      /\ UNCHANGED << file, todo, table, created, table_info_cnt, catalog, uq >>
      /\ HideRejectedColumns(rejected_cnames)
      /\ rejected_cnames \subseteq hidden_tc'
      /\ constraints' = constraints \cup Checks(table, hidden_tc' \cup hidden_ck')
                                    \cup Uniques(table, hidden_tc' \cup hidden_uq')
  BY DEF MigrateConstraints, HideRejectedColumns
<1>2. /\ Busy /\ ~Busy' /\ UnderWay /\ catalog \in Catalog
      /\ table \in file.tables /\ table \notin todo
  BY <1>1, TypeFacts DEF Busy, UnderWay, ClosedInv, StatementUnderWay
<1>3. stage = "closed"
  BY <1>1, <1>2 DEF ClosedInv, StatementUnderWay, StatementInv, CreateTableTypeOK, Stage
<1>4. rejected_cnames = Columns(table) \cap catalog.unmappable
  BY <1>2, <1>3, ClosedTable DEF TableAccounted
<1>5. UnmappableHidden'
  BY <1>1, <1>2, <1>4, HidesUnmappable DEF HistoryFree
<1>6. /\ hidden_tc' \cup hidden_ck' \subseteq catalog.unmappable
      /\ hidden_tc' \cup hidden_uq' \subseteq catalog.unmappable
      /\ Columns(table) \cap catalog.unmappable \subseteq hidden_tc'
      /\ uq = catalog.uq
  BY <1>1, <1>4, <1>5 DEF UnmappableHidden, HistoryFree
<1>7. constraints' = constraints \cup TableChecks(table) \cup TableUniques(table)
  <2>1. Checks(table, hidden_tc' \cup hidden_ck') = TableChecks(table)
    BY <1>6, ConstraintsLeft
  <2>2. Uniques(table, hidden_tc' \cup hidden_uq') = TableUniques(table)
    BY <1>6, ConstraintsLeft
  <2> QED
    BY <1>1, <2>1, <2>2
<1>8. /\ \A s \in TableChecks(table) : s.kind = "check"
      /\ \A s \in TableUniques(table) : s.kind = "unique"
  BY DEF TableChecks, TableUniques, Check, Unique
<1>9. /\ OfKind("check")' = OfKind("check") \cup TableChecks(table)
      /\ OfKind("unique")' = OfKind("unique") \cup TableUniques(table)
  BY <1>7, <1>8 DEF OfKind
<1>10. Done' = Done \cup {table} /\ Closed' = Closed
  BY <1>1, <1>2 DEF Done, Closed
<1>11. Scripted
  BY <1>2 DEF HistoryFree
<1>12. /\ \A t : Mappable(t)' = Mappable(t) /\ IsDefined(t)' = IsDefined(t)
       /\ \A t : TableChecks(t)' = TableChecks(t) /\ TableUniques(t)' = TableUniques(t)
  BY <1>1, CatalogUnchanged
<1>13. /\ OfKind("check")' = UNION {TableChecks(t) : t \in Done'}
       /\ OfKind("unique")' = UNION {TableUniques(t) : t \in Done'}
  BY <1>9, <1>10, <1>11 DEF Scripted
<1>14. Scripted'
  BY <1>1, <1>10, <1>11, <1>12, <1>13 DEF Scripted
<1>15. HistoryFreeConstraints'
  BY <1>1 DEF HistoryFreeConstraints, Finished
<1> QED
  BY <1>1, <1>5, <1>6, <1>14, <1>15 DEF HistoryFree

LEMMA EndFileHistory ==
  ASSUME ClosedInv, HistoryFree, table_migrator = "dbunit_hsqldb", EndFile
  PROVE  HistoryFree'
<1>1. /\ phase = "tables" /\ phase' = "idle" /\ todo = {}
      /\ UNCHANGED << file, todo, created, table_info_cnt >>
      /\ UNCHANGED << catalog, uq, hidden_tc, hidden_ck, hidden_uq, hidden_fk >>
  BY DEF EndFile, recordVars
<1>2. Scripted /\ Done = file.tables /\ Closed = file.tables
  BY <1>1 DEF HistoryFree, UnderWay, Done, Closed, Busy
<1>3. \A s \in constraints' \ constraints : s.kind = "foreign_key"
  BY DEF EndFile, ForeignKey
<1>4. constraints \subseteq constraints'
  BY DEF EndFile
<1>5. /\ OfKind("check")' = OfKind("check") /\ OfKind("unique")' = OfKind("unique")
  BY <1>3, <1>4 DEF OfKind
<1>6. ASSUME NEW c \in MappableForeignKeys \cap UNION {Columns(t) : t \in file.tables}
      PROVE  ForeignKey(c, catalog.ref[c], catalog.fk_name[c]) \in constraints'
  <2>1. PICK t \in file.tables : c \in Columns(t)
    BY <1>6
  <2>2. table_info_cnt > 0
    BY <1>1, <1>2, <2>1 DEF Scripted, IsDefined, Columns
  <2>3. c \in ForeignKeyColumns
    BY <1>6 DEF ForeignKeyColumns, MappableForeignKeys, HistoryFree, UnmappableHidden
  <2>4. ~(table_info_cnt = 0)
    BY <2>2
  <2> QED
    BY <2>3, <2>4 DEF EndFile
<1>7. /\ \A t : Columns(t)' = Columns(t) /\ Mappable(t)' = Mappable(t)
      /\ MappableForeignKeys' = MappableForeignKeys
  BY <1>1, CatalogUnchanged
<1>8. /\ created' = {t \in file.tables : Mappable(t) # {}}
      /\ OfKind("check")' = UNION {TableChecks(t) : t \in file.tables}
      /\ OfKind("unique")' = UNION {TableUniques(t) : t \in file.tables}
  BY <1>1, <1>2, <1>5 DEF Scripted
<1>9. HistoryFreeConstraints'
  <2>1. /\ \A t : TableChecks(t)' = TableChecks(t) /\ TableUniques(t)' = TableUniques(t)
    BY <1>1, CatalogUnchanged
  <2>2. FileScripted'
    BY <1>1, <1>6, <1>7, <1>8, <2>1 DEF FileScripted
  <2> QED
    BY <2>2, HistoryByTableNext
<1>10. UnmappableHidden'
  BY <1>1 DEF HistoryFree, UnmappableHidden
<1>11. ~UnderWay'
  BY <1>1 DEF UnderWay, Busy
<1> QED
  BY <1>1, <1>9, <1>10, <1>11 DEF HistoryFree

LEMMA HistoryStutters ==
  ASSUME HistoryFree, UNCHANGED vars
  PROVE  HistoryFree'
<1>1. /\ UNCHANGED << file, files, phase, todo, table, created, constraints, table_info_cnt,
                      table_migrator >>
      /\ UNCHANGED << catalog, uq, hidden_tc, hidden_ck, hidden_uq, hidden_fk >>
  BY DEF vars, createTableVars, recordVars, scriptVars, controlVars
<1>2. /\ Done' = Done /\ Closed' = Closed /\ UnderWay' = UnderWay
      /\ \A t : Columns(t)' = Columns(t) /\ Mappable(t)' = Mappable(t)
      /\ MappableForeignKeys' = MappableForeignKeys
  BY <1>1, CatalogUnchanged DEF Done, Closed, UnderWay, Busy
<1>3. Scripted => Scripted'
  BY <1>1, <1>2, NothingScripted DEF Scripted
<1>4. UnmappableHidden'
  BY <1>1 DEF HistoryFree, UnmappableHidden
<1>5. HistoryFreeConstraints'
  <2>1. /\ \A t : TableChecks(t)' = TableChecks(t) /\ TableUniques(t)' = TableUniques(t)
        /\ \A kind : OfKind(kind)' = OfKind(kind)
    BY <1>1, CatalogUnchanged DEF OfKind
  <2>2. FileScripted => FileScripted'
    BY <1>1, <1>2, <2>1 DEF FileScripted
  <2>3. (table_migrator = "dbunit_hsqldb" /\ Finished)' =>
          table_migrator = "dbunit_hsqldb" /\ Finished
    BY <1>1 DEF Finished
  <2> QED
    BY <2>2, <2>3, HistoryByTable, HistoryByTableNext DEF HistoryFree
<1> QED
  BY <1>1, <1>2, <1>3, <1>4, <1>5 DEF HistoryFree

LEMMA HistoryStep ==
  ASSUME \A k \in Catalog : SimpleCatalog(k), HistoryInv, [Next]_vars
  PROVE  HistoryInv'
<1>1. ClosedInv /\ ClosedInv' /\ TypeInv
  BY ClosedStep DEF HistoryInv, ClosedInv, StatementUnderWay
<1>2. catalog \in Catalog /\ SimpleCatalog(catalog)
  BY <1>1, TypeFacts
<1>3. table_migrator' = table_migrator
  <2>1. [CreateTableNext]_createTableVars
    BY <1>1, UnderWayStep DEF ClosedInv
  <2> QED
    BY <2>1 DEF CreateTableNext, BeginTable, MakeTableMigrator, MigrateColumn, CloseTable,
       RejectDatatype, KeepPlain, HsqldbKeepIdentity, PkvsidIdentity, NextColumn,
       createTableVars
<1> SUFFICES ASSUME table_migrator = "dbunit_hsqldb" PROVE HistoryFree'
  BY <1>1, <1>3 DEF HistoryInv
<1>4. HistoryFree
  BY DEF HistoryInv
<1>5. ASSUME NEW c \in Column, UniquifyIdentityColumn(c)
      PROVE  FALSE
  BY <1>4, <1>5 DEF UniquifyIdentityColumn, HistoryFree
<1> QED
  BY <1>1, <1>2, <1>4, <1>5, BeginFileHistory, UndefinedTableHistory,
     BeginDefinedTableHistory, MigrateTableColumnHistory, CloseCreateTableHistory,
     MigrateConstraintsHistory, EndFileHistory, HistoryStutters DEF Next

(***************************************************************************)
(* With main()'s table migrator the tables, checks and uniques of a        *)
(* finished script are those of the mappable columns of the tables the     *)
(* file names, and every foreign key between mappable columns is there,    *)
(* although records that earlier files have hidden stay hidden             *)
(* (migrate_ddl_stname, hide_rejected_column, whose flags nothing resets). *)
(***************************************************************************)
THEOREM HistoryFreeConstraintsCorrect ==
  ASSUME \A k \in Catalog : SimpleCatalog(k)
  PROVE  Spec => []HistoryFreeConstraints
<1>1. Init => HistoryInv
  <2> SUFFICES ASSUME Init PROVE HistoryFree
    BY ClosedInit DEF HistoryInv
  <2>1. /\ uq = catalog.uq /\ phase = "idle" /\ files = 0
        /\ hidden_tc = {} /\ hidden_ck = {} /\ hidden_uq = {} /\ hidden_fk = {}
    BY DEF Init
  <2> QED
    BY <2>1 DEF HistoryFree, UnmappableHidden, UnderWay, Busy, HistoryFreeConstraints, Finished
<1>2. HistoryInv /\ [Next]_vars => HistoryInv'
  BY HistoryStep
<1>3. HistoryInv => HistoryFreeConstraints
  BY DEF HistoryInv, HistoryFree, HistoryFreeConstraints
<1> QED
  BY <1>1, <1>2, <1>3, PTL DEF Spec

===============================================================================
