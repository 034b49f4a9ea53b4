-------------------------- MODULE CreateTable_proofs --------------------------
(***************************************************************************)
(* Type correctness of CreateTable, what a finished statement says with    *)
(* either table migrator, that its items are separated, and that           *)
(* CreateTable implements TableStatement, for tables of any number of      *)
(* columns.                                                                *)
(***************************************************************************)
EXTENDS CreateTable, FiniteSetTheorems, TLAPS

-------------------------------------------------------------------------------
\* The columns of a table.

LEMMA ColumnsOfColumn ==
  ASSUME NEW ti \in TableInfo \cup {NoTableInfo}
  PROVE  /\ ti.columns \in Seq(Column)
         /\ Len(ti.columns) \in Nat
         /\ DOMAIN ti.columns = 1..Len(ti.columns)
         /\ ColumnsOf(ti) \in SUBSET Column
         /\ {ti.pk, ti.identity, ti.unmappable} \subseteq SUBSET ColumnsOf(ti)
         /\ \A i, j \in DOMAIN ti.columns :
              ti.columns[i] = ti.columns[j] => i = j
<1>1. Cardinality(Column) \in Nat
  BY ColumnAssumption, FS_CardinalityType
<1>2. CASE ti = NoTableInfo
  BY <1>2 DEF NoTableInfo, ColumnsOf
<1>3. CASE ti \in TableInfo
  <2>1. PICK n \in 1..Cardinality(Column) : ti.columns \in [1..n -> Column]
    BY <1>3 DEF TableInfo, ColumnList
  <2>2. ti.columns \in Seq(Column) /\ Len(ti.columns) = n
    BY <2>1, <1>1
  <2> QED
    BY <1>1, <1>3, <2>1, <2>2 DEF TableInfo, ColumnList, ColumnsOf
<1> QED
  BY <1>2, <1>3

-------------------------------------------------------------------------------
\* What writing an item adds to the statement.

Written(tokens) == {tokens[i] : i \in DOMAIN tokens}

LEMMA ItemsAreTokens ==
  ASSUME NEW c \in Column, NEW cs \in SUBSET Column
  PROVE  /\ {ColumnDef(c), IdentityDef(c), RejectComment(c), PrimaryKey(cs),
             Separator} \subseteq Token
BY DEF ColumnDef, IdentityDef, RejectComment, PrimaryKey, Separator, Token

LEMMA WrittenAppend ==
  ASSUME NEW tokens \in Seq(Token), NEW item \in Token
  PROVE  /\ Append(tokens, item) \in Seq(Token)
         /\ Written(Append(tokens, item)) = Written(tokens) \cup {item}
<1>1. Append(tokens, item) \in Seq(Token)
  OBVIOUS
<1>2. Len(Append(tokens, item)) = Len(tokens) + 1
  OBVIOUS
<1>3. \A i \in 1..Len(tokens) : Append(tokens, item)[i] = tokens[i]
  OBVIOUS
<1>4. Append(tokens, item)[Len(tokens) + 1] = item
  OBVIOUS
<1>5. DOMAIN tokens = 1..Len(tokens) /\ Len(tokens) \in Nat
  OBVIOUS
<1>6. DOMAIN Append(tokens, item) = 1..(Len(tokens) + 1)
  BY <1>1, <1>2
<1>7. \A tok : tok \in Written(Append(tokens, item)) <=>
               tok \in Written(tokens) \cup {item}
  BY <1>3, <1>4, <1>5, <1>6 DEF Written
<1> QED
  BY <1>1, <1>7

LEMMA WriteAdds ==
  ASSUME ddl \in Seq(Token), NEW item \in Token, Write(item)
  PROVE  /\ ddl' \in Seq(Token)
         /\ \/ Written(ddl') = Written(ddl) \cup {item}
            \/ Written(ddl') = Written(ddl) \cup {Separator, item}
<1>1. Separator \in Token
  BY DEF Separator, Token
<1>2. CASE prev
  <2> DEFINE separated == Append(ddl, Separator)
  <2>1. separated \in Seq(Token) /\ Written(separated) = Written(ddl) \cup {Separator}
    BY <1>1, WrittenAppend
  <2>2. ddl' = Append(separated, item)
    BY <1>2 DEF Write
  <2> HIDE DEF separated
  <2>3. ddl' \in Seq(Token) /\ Written(ddl') = Written(separated) \cup {item}
    BY <2>1, <2>2, WrittenAppend
  <2> QED
    BY <2>1, <2>3
<1>3. CASE ~prev
  BY <1>3, WrittenAppend DEF Write
<1> QED
  BY <1>2, <1>3

\* The columns a list of tokens defines, and its key columns, depend only on
\* the set of the tokens.
LEMMA DefinedByWritten ==
  /\ Identities = {c \in Column : IdentityDef(c) \in Written(ddl)}
  /\ Defined = {c \in Column : {ColumnDef(c), IdentityDef(c)} \cap Written(ddl) # {}}
  /\ KeyColumns = UNION {tok.cols : tok \in {t \in Written(ddl) : t.kind = "primary_key"}}
BY DEF Defined, Identities, KeyColumns, Written

LEMMA DefinedByWrittenNext ==
  /\ Identities' = {c \in Column : IdentityDef(c) \in Written(ddl')}
  /\ Defined' = {c \in Column : {ColumnDef(c), IdentityDef(c)} \cap Written(ddl') # {}}
  /\ KeyColumns' = UNION {tok.cols : tok \in {t \in Written(ddl') : t.kind = "primary_key"}}
BY DEF Defined, Identities, KeyColumns, Written

LEMMA DistinctTokens ==
  ASSUME NEW c, NEW d, NEW cs
  PROVE  /\ ColumnDef(c) = ColumnDef(d) => c = d
         /\ IdentityDef(c) = IdentityDef(d) => c = d
         /\ ColumnDef(c) # IdentityDef(d)
         /\ {ColumnDef(c), IdentityDef(c)} \cap
              {RejectComment(d), PrimaryKey(cs), Separator} = {}
         /\ "primary_key" \notin {ColumnDef(c).kind, IdentityDef(c).kind,
                                  RejectComment(c).kind, Separator.kind}
         /\ PrimaryKey(cs).kind = "primary_key" /\ PrimaryKey(cs).cols = cs
<1> DEFINE Kinds == << ColumnDef(c).kind, IdentityDef(c).kind, IdentityDef(d).kind,
                      RejectComment(c).kind, RejectComment(d).kind,
                      PrimaryKey(cs).kind, Separator.kind >>
<1>1. Kinds = << "column", "identity", "identity", "comment", "comment",
                "primary_key", "separator" >>
  BY DEF ColumnDef, IdentityDef, RejectComment, PrimaryKey, Separator
<1>2. /\ ColumnDef(c).cols = {c} /\ ColumnDef(d).cols = {d}
      /\ IdentityDef(c).cols = {c} /\ IdentityDef(d).cols = {d}
      /\ PrimaryKey(cs).cols = cs
  BY DEF ColumnDef, IdentityDef, PrimaryKey
<1>3. {c} = {d} => c = d
  OBVIOUS
<1> QED
  BY <1>1, <1>2, <1>3

LEMMA WriteDefinition ==
  ASSUME ddl \in Seq(Token), NEW c \in Column,
         NEW item \in {ColumnDef(c), IdentityDef(c)}, Write(item)
  PROVE  /\ ddl' \in Seq(Token)
         /\ Defined' = Defined \cup {c} /\ KeyColumns' = KeyColumns
         /\ Identities' = IF item = IdentityDef(c) THEN Identities \cup {c}
                                                  ELSE Identities
<1>1. item \in Token
  BY ItemsAreTokens
<1>2. /\ ddl' \in Seq(Token)
      /\ \/ Written(ddl') = Written(ddl) \cup {item}
         \/ Written(ddl') = Written(ddl) \cup {Separator, item}
  BY <1>1, WriteAdds
<1>3. \A d \in Column : /\ ColumnDef(d) = item => d = c
                        /\ IdentityDef(d) = item => d = c /\ item = IdentityDef(c)
                        /\ Separator \notin {ColumnDef(d), IdentityDef(d)}
  BY DistinctTokens
<1>4. item.kind # "primary_key" /\ Separator.kind # "primary_key"
  BY DistinctTokens
<1>5. Defined' = Defined \cup {c}
  BY <1>2, <1>3, DefinedByWritten, DefinedByWrittenNext
<1>6. KeyColumns' = KeyColumns
  BY <1>2, <1>4, DefinedByWritten, DefinedByWrittenNext
<1>7. Identities' = IF item = IdentityDef(c) THEN Identities \cup {c} ELSE Identities
  BY <1>2, <1>3, DefinedByWritten, DefinedByWrittenNext
<1> QED
  BY <1>2, <1>5, <1>6, <1>7

LEMMA KeepColumn ==
  ASSUME ddl \in Seq(Token), NEW c \in Column, Keep(ColumnDef(c))
  PROVE  /\ ddl' \in Seq(Token) /\ KeyColumns' = KeyColumns
         /\ Defined' = Defined \cup {c} /\ Identities' = Identities
<1>1. ColumnDef(c) # IdentityDef(c)
  BY DistinctTokens
<1> QED
  BY <1>1, WriteDefinition DEF Keep

LEMMA KeepIdentity ==
  ASSUME ddl \in Seq(Token), NEW c \in Column, Keep(IdentityDef(c))
  PROVE  /\ ddl' \in Seq(Token) /\ KeyColumns' = KeyColumns
         /\ Defined' = Defined \cup {c} /\ Identities' = Identities \cup {c}
BY WriteDefinition DEF Keep

LEMMA WriteNoDefinition ==
  ASSUME ddl \in Seq(Token), NEW c \in Column, NEW cs \in SUBSET Column,
         NEW item \in {RejectComment(c), PrimaryKey(cs)}, Write(item)
  PROVE  /\ ddl' \in Seq(Token) /\ Defined' = Defined /\ Identities' = Identities
         /\ KeyColumns' = IF item = PrimaryKey(cs) THEN KeyColumns \cup cs
                                                  ELSE KeyColumns
<1>1. item \in Token
  BY ItemsAreTokens
<1>2. /\ ddl' \in Seq(Token)
      /\ \/ Written(ddl') = Written(ddl) \cup {item}
         \/ Written(ddl') = Written(ddl) \cup {Separator, item}
  BY <1>1, WriteAdds
<1>3. \A d \in Column : {ColumnDef(d), IdentityDef(d)} \cap {item, Separator} = {}
  BY DistinctTokens
<1>4. Defined' = Defined /\ Identities' = Identities
  BY <1>2, <1>3, DefinedByWritten, DefinedByWrittenNext
<1>5. /\ RejectComment(c).kind # "primary_key" /\ Separator.kind # "primary_key"
      /\ PrimaryKey(cs).kind = "primary_key" /\ PrimaryKey(cs).cols = cs
  BY DistinctTokens
<1>6. KeyColumns' = IF item = PrimaryKey(cs) THEN KeyColumns \cup cs ELSE KeyColumns
  BY <1>2, <1>5, DefinedByWritten, DefinedByWrittenNext
<1> QED
  BY <1>2, <1>4, <1>6

LEMMA WriteComment ==
  ASSUME ddl \in Seq(Token), NEW c \in Column, Write(RejectComment(c))
  PROVE  /\ ddl' \in Seq(Token) /\ Defined' = Defined
         /\ Identities' = Identities /\ KeyColumns' = KeyColumns
<1>1. RejectComment(c) # PrimaryKey({})
  BY DistinctTokens
<1> QED
  BY <1>1, WriteNoDefinition

LEMMA WriteKey ==
  ASSUME ddl \in Seq(Token), Column # {}, NEW cs \in SUBSET Column,
         Write(PrimaryKey(cs))
  PROVE  /\ ddl' \in Seq(Token) /\ Defined' = Defined
         /\ Identities' = Identities /\ KeyColumns' = KeyColumns \cup cs
BY WriteNoDefinition

-------------------------------------------------------------------------------
\* Type correctness, action by action: StnamesMigrator takes the same steps.

LEMMA MakeTableMigratorType ==
  ASSUME CreateTableTypeOK, NEW ti \in TableInfo, MakeTableMigrator(ti)
  PROVE  CreateTableTypeOK'
<1>1. << >> \in Seq(Token)
  OBVIOUS
<1>2. 0 \in 0..Len(ti.columns) /\ ti.pk \in SUBSET ColumnsOf(ti)
  BY ColumnsOfColumn
<1> QED
  BY <1>1, <1>2 DEF MakeTableMigrator, CreateTableTypeOK, Stage

LEMMA NextColumnInTable ==
  ASSUME CreateTableTypeOK, NEW c \in Column, NextColumn(c)
  PROVE  /\ c \in ColumnsOf(table_info)
         /\ UNCHANGED << table_migrator, table_info, stage, emptied >>
         /\ pos' = pos + 1 /\ pos' \in 0..Len(table_info.columns)
         /\ Migrated' = Migrated \cup {c} /\ c \notin Migrated
         /\ Migrated' \subseteq ColumnsOf(table_info)
<1>1. /\ table_info.columns \in Seq(Column)
      /\ Len(table_info.columns) \in Nat
      /\ DOMAIN table_info.columns = 1..Len(table_info.columns)
      /\ \A i, j \in DOMAIN table_info.columns :
           table_info.columns[i] = table_info.columns[j] => i = j
  BY ColumnsOfColumn DEF CreateTableTypeOK
<1>2. /\ pos \in 0..Len(table_info.columns) /\ pos < Len(table_info.columns)
      /\ c = table_info.columns[pos + 1]
      /\ pos' = pos + 1
      /\ UNCHANGED << table_migrator, table_info, stage, emptied >>
  BY DEF NextColumn, CreateTableTypeOK
<1>3. pos + 1 \in DOMAIN table_info.columns
  BY <1>1, <1>2
<1>4. 1..(pos + 1) = 1..pos \cup {pos + 1} /\ pos + 1 \notin 1..pos
  BY <1>1, <1>2
<1>5. Migrated' = Migrated \cup {c}
  BY <1>2, <1>4 DEF Migrated
<1>6. c \notin Migrated
  BY <1>1, <1>2, <1>3, <1>4 DEF Migrated
<1>7. Migrated' \subseteq ColumnsOf(table_info)
  BY <1>1, <1>2 DEF Migrated, ColumnsOf
<1> QED
  BY <1>1, <1>2, <1>3, <1>5, <1>6, <1>7 DEF ColumnsOf

LEMMA MigrateColumnType ==
  ASSUME CreateTableTypeOK, MigrateColumn
  PROVE  CreateTableTypeOK'
<1> USE DEF CreateTableTypeOK
<1>1. PICK c \in Column : \/ RejectDatatype(c) \/ KeepPlain(c)
                         \/ HsqldbKeepIdentity(c) \/ PkvsidIdentity(c)
  BY DEF MigrateColumn
<1>2. NextColumn(c)
  BY <1>1 DEF RejectDatatype, KeepPlain, HsqldbKeepIdentity, PkvsidIdentity
<1>3. /\ c \in ColumnsOf(table_info)
      /\ UNCHANGED << table_migrator, table_info, stage, emptied >>
      /\ pos' \in 0..Len(table_info.columns)
  BY <1>2, NextColumnInTable
<1>4. ASSUME Reject(c)
      PROVE  /\ ddl' \in Seq(Token) /\ prev' \in BOOLEAN /\ unrejected_column' \in BOOLEAN
             /\ rejected_cnames' \in SUBSET ColumnsOf(table_info)
  BY <1>3, <1>4, WriteComment DEF Reject
<1>5. ASSUME Keep(ColumnDef(c)) \/ Keep(IdentityDef(c))
      PROVE  /\ ddl' \in Seq(Token) /\ prev' \in BOOLEAN /\ unrejected_column' \in BOOLEAN
             /\ rejected_cnames' \in SUBSET ColumnsOf(table_info)
  BY <1>5, WriteDefinition DEF Keep
<1>6. CASE RejectDatatype(c)
  BY <1>3, <1>4, <1>6 DEF RejectDatatype
<1>7. CASE KeepPlain(c)
  BY <1>3, <1>5, <1>7 DEF KeepPlain
<1>8. CASE HsqldbKeepIdentity(c)
  BY <1>3, <1>5, <1>8 DEF HsqldbKeepIdentity
<1>9. CASE PkvsidIdentity(c)
  <2>1. /\ pk_cnames' \in SUBSET ColumnsOf(table_info)
        /\ identity_cnames' \in SUBSET ColumnsOf(table_info)
        /\ identity_cnt' \in Nat
    BY <1>3, <1>9 DEF PkvsidIdentity
  <2>2. Keep(IdentityDef(c)) \/ Reject(c)
    BY <1>9 DEF PkvsidIdentity
  <2> QED
    BY <1>3, <1>4, <1>5, <2>1, <2>2
<1> QED
  BY <1>1, <1>6, <1>7, <1>8, <1>9

LEMMA CloseTableType ==
  ASSUME CreateTableTypeOK, CloseTable
  PROVE  CreateTableTypeOK'
<1>1. pk_cnames \in SUBSET Column /\ ddl \in Seq(Token)
  BY ColumnsOfColumn DEF CreateTableTypeOK
<1>2. ddl' \in Seq(Token)
  <2>1. pk_cnames # {} => Column # {}
    BY <1>1
  <2> QED
    BY <1>1, <2>1, WriteKey DEF CloseTable
<1> QED
  BY <1>2 DEF CloseTable, CreateTableTypeOK, Stage

LEMMA CreateTableTypeStutters ==
  ASSUME CreateTableTypeOK, UNCHANGED createTableVars
  PROVE  CreateTableTypeOK'
BY DEF CreateTableTypeOK, createTableVars

LEMMA CreateTableTypeInit ==
  ASSUME CreateTableInit
  PROVE  CreateTableTypeOK
<1>1. << >> \in Seq(Token)
  OBVIOUS
<1>2. 0 \in 0..Len(NoTableInfo.columns)
  BY DEF NoTableInfo
<1> QED
  BY <1>1, <1>2 DEF CreateTableInit, CreateTableTypeOK, Stage

(***************************************************************************)
(* Every variable of a CREATE TABLE statement has its type, and the key,   *)
(* identity and rejected columns are columns of the table that is being    *)
(* migrated, with either table migrator (migrate_create_table_ddl).        *)
(***************************************************************************)
THEOREM CreateTableTypeCorrect == CreateTableSpec => []CreateTableTypeOK
<1>1. CreateTableInit => CreateTableTypeOK
  BY CreateTableTypeInit
<1>2. CreateTableTypeOK /\ [CreateTableNext]_createTableVars => CreateTableTypeOK'
  BY MakeTableMigratorType, MigrateColumnType, CloseTableType,
     CreateTableTypeStutters DEF CreateTableNext, BeginTable
<1> QED
  BY <1>1, <1>2, PTL DEF CreateTableSpec

-------------------------------------------------------------------------------
\* What is said of a finished statement becomes inductive by saying what the
\* statement and the migrator's key are in between: after pos columns they
\* account for exactly these columns.

HsqldbAccounted ==
  /\ rejected_cnames = Migrated \cap table_info.unmappable
  /\ pk_cnames = table_info.pk \ rejected_cnames
  /\ Identities = Migrated \cap MappableIdentities
  /\ identity_cnames = {}

PkvsidAccounted ==
  /\ pk_cnames \in {{}, table_info.pk \ (Migrated \cap table_info.unmappable)}
  /\ \A c, d \in Identities : c = d
  /\ Identities # {} => pk_cnames = {} /\ identity_cnt # 0
  /\ identity_cnames \subseteq Identities

\* The tables the pkvsid migrator is made for.
Intended ==
  /\ \A c, d \in MappableIdentities : c = d
  /\ MappableIdentities # {} => table_info.pk \subseteq MappableIdentities

IntendedAccounted ==
  /\ pk_cnames = table_info.pk \ (Migrated \cap (table_info.unmappable \cup MappableIdentities))
  /\ Identities = Migrated \cap MappableIdentities
  /\ identity_cnames = Identities
  /\ Identities = {} => identity_cnt = 0

Accounted ==
  /\ Identities \subseteq Migrated \cap MappableIdentities
  /\ Defined = (Migrated \ (table_info.unmappable \cup table_info.identity)) \cup Identities
  /\ Migrated \subseteq Defined \cup rejected_cnames
  /\ unrejected_column <=> Defined # {}
  /\ stage # "closed" => KeyColumns = {}
  /\ stage = "closed" => /\ Migrated = ColumnsOf(table_info)
                         /\ KeyColumns = pk_cnames
                         /\ emptied = ~unrejected_column
  /\ table_migrator = "dbunit_hsqldb" => HsqldbAccounted
  /\ table_migrator = "dbunit_pkvsid" => PkvsidAccounted
  /\ table_migrator = "dbunit_pkvsid" /\ Intended => IntendedAccounted

StatementInv == CreateTableTypeOK /\ Accounted

LEMMA NothingWritten ==
  /\ ddl = << >> => Defined = {} /\ Identities = {} /\ KeyColumns = {}
  /\ ddl' = << >> => Defined' = {} /\ Identities' = {} /\ KeyColumns' = {}
BY DEF Defined, Identities, KeyColumns

LEMMA AccountedInit ==
  ASSUME CreateTableInit
  PROVE  Accounted
<1>1. Migrated = {}
  BY DEF CreateTableInit, Migrated
<1> QED
  BY <1>1, NothingWritten
     DEF CreateTableInit, Accounted, HsqldbAccounted, PkvsidAccounted,
         IntendedAccounted, NoTableInfo

LEMMA MakeTableMigratorAccounted ==
  ASSUME NEW ti \in TableInfo, MakeTableMigrator(ti)
  PROVE  Accounted'
<1>1. Migrated' = {}
  BY DEF MakeTableMigrator, Migrated
<1>2. /\ table_info' = ti /\ pk_cnames' = ti.pk
      /\ identity_cnames' = {} /\ identity_cnt' = 0 /\ rejected_cnames' = {}
      /\ unrejected_column' = FALSE /\ stage' = "columns"
      /\ Defined' = {} /\ Identities' = {} /\ KeyColumns' = {}
  BY NothingWritten DEF MakeTableMigrator
<1> QED
  BY <1>1, <1>2
     DEF Accounted, HsqldbAccounted, PkvsidAccounted, IntendedAccounted

\* One column more, by its fate.
LEMMA RejectDatatypeAccounted ==
  ASSUME StatementInv, NEW c \in Column, RejectDatatype(c)
  PROVE  Accounted'
<1>1. /\ UNCHANGED << table_migrator, table_info, stage >> /\ stage = "columns"
      /\ Migrated' = Migrated \cup {c} /\ c \notin Migrated
  BY NextColumnInTable DEF RejectDatatype, NextColumn, StatementInv
<1>2. /\ Defined' = Defined /\ Identities' = Identities /\ KeyColumns' = KeyColumns
  BY WriteComment DEF RejectDatatype, Reject, StatementInv, CreateTableTypeOK
<1>3. /\ c \in table_info.unmappable
      /\ rejected_cnames' = rejected_cnames \cup {c}
      /\ pk_cnames' = pk_cnames \ {c}
      /\ unrejected_column' = unrejected_column
      /\ identity_cnames' = identity_cnames /\ identity_cnt' = identity_cnt
  BY DEF RejectDatatype, Reject
<1>4. MappableIdentities' = MappableIdentities /\ c \notin MappableIdentities
  BY <1>1, <1>3 DEF MappableIdentities
<1>5. HsqldbAccounted => HsqldbAccounted'
  BY <1>1, <1>2, <1>3, <1>4 DEF HsqldbAccounted
<1>6. PkvsidAccounted => PkvsidAccounted'
  BY <1>1, <1>2, <1>3 DEF PkvsidAccounted
<1>7. /\ Intended' = Intended
      /\ IntendedAccounted => IntendedAccounted'
  BY <1>1, <1>2, <1>3, <1>4 DEF Intended, IntendedAccounted
<1> QED
  BY <1>1, <1>2, <1>3, <1>4, <1>5, <1>6, <1>7 DEF StatementInv, Accounted

LEMMA KeepPlainAccounted ==
  ASSUME StatementInv, NEW c \in Column, KeepPlain(c)
  PROVE  Accounted'
<1>1. /\ UNCHANGED << table_migrator, table_info, stage >> /\ stage = "columns"
      /\ Migrated' = Migrated \cup {c} /\ c \notin Migrated
  BY NextColumnInTable DEF KeepPlain, NextColumn, StatementInv
<1>2. /\ Defined' = Defined \cup {c} /\ Identities' = Identities
      /\ KeyColumns' = KeyColumns
  BY KeepColumn DEF KeepPlain, StatementInv, CreateTableTypeOK
<1>3. /\ c \notin table_info.unmappable \cup table_info.identity
      /\ rejected_cnames' = rejected_cnames /\ pk_cnames' = pk_cnames
      /\ unrejected_column' = TRUE
      /\ identity_cnames' = identity_cnames /\ identity_cnt' = identity_cnt
  BY DEF KeepPlain, Keep
<1>4. MappableIdentities' = MappableIdentities /\ c \notin MappableIdentities
  BY <1>1, <1>3 DEF MappableIdentities
<1>5. HsqldbAccounted => HsqldbAccounted'
  BY <1>1, <1>2, <1>3, <1>4 DEF HsqldbAccounted
<1>6. PkvsidAccounted => PkvsidAccounted'
  BY <1>1, <1>2, <1>3 DEF PkvsidAccounted
<1>7. /\ Intended' = Intended
      /\ IntendedAccounted => IntendedAccounted'
  BY <1>1, <1>2, <1>3, <1>4 DEF Intended, IntendedAccounted
<1> QED
  BY <1>1, <1>2, <1>3, <1>4, <1>5, <1>6, <1>7 DEF StatementInv, Accounted

LEMMA HsqldbIdentityAccounted ==
  ASSUME StatementInv, NEW c \in Column, HsqldbKeepIdentity(c)
  PROVE  Accounted'
<1>1. /\ table_info' = table_info /\ stage' = stage /\ stage = "columns"
      /\ table_migrator = "dbunit_hsqldb" /\ table_migrator' = table_migrator
      /\ Migrated' = Migrated \cup {c} /\ c \notin Migrated
  BY NextColumnInTable DEF HsqldbKeepIdentity, NextColumn, StatementInv
<1>2. /\ Defined' = Defined \cup {c} /\ Identities' = Identities \cup {c}
      /\ KeyColumns' = KeyColumns
  BY KeepIdentity DEF HsqldbKeepIdentity, StatementInv, CreateTableTypeOK
<1>3. /\ c \in table_info.identity \ table_info.unmappable
      /\ rejected_cnames' = rejected_cnames /\ pk_cnames' = pk_cnames
      /\ unrejected_column' = TRUE /\ identity_cnames' = identity_cnames
  BY DEF HsqldbKeepIdentity, Keep
<1>4. MappableIdentities' = MappableIdentities /\ c \in MappableIdentities
  BY <1>1, <1>3 DEF MappableIdentities
<1>5. HsqldbAccounted => HsqldbAccounted'
  BY <1>1, <1>2, <1>3, <1>4 DEF HsqldbAccounted
<1> QED
  BY <1>1, <1>2, <1>3, <1>4, <1>5 DEF StatementInv, Accounted

LEMMA PkvsidIdentityAccounted ==
  ASSUME StatementInv, NEW c \in Column, PkvsidIdentity(c)
  PROVE  Accounted'
<1> DEFINE pks == IF pk_cnames = {c} THEN {} ELSE pk_cnames
<1>1. /\ table_info' = table_info /\ stage' = stage /\ stage = "columns"
      /\ table_migrator = "dbunit_pkvsid" /\ table_migrator' = table_migrator
      /\ Migrated' = Migrated \cup {c} /\ c \notin Migrated
  BY NextColumnInTable DEF PkvsidIdentity, NextColumn, StatementInv
<1>2. /\ c \in table_info.identity \ table_info.unmappable
      /\ pk_cnames' = pks /\ identity_cnt' = identity_cnt + 1
      /\ identity_cnt \in Nat /\ ddl \in Seq(Token)
  BY DEF PkvsidIdentity, StatementInv, CreateTableTypeOK
<1>3. MappableIdentities' = MappableIdentities /\ c \in MappableIdentities
  BY <1>1, <1>2 DEF MappableIdentities
<1>4. Intended' = Intended
  BY <1>1, <1>3 DEF Intended
<1>5. /\ PkvsidAccounted /\ (Intended => IntendedAccounted)
      /\ Identities \subseteq Migrated
  BY <1>1 DEF StatementInv, Accounted
<1>6. CASE pks = {} /\ identity_cnt = 0
  <2>1. /\ identity_cnames' = identity_cnames \cup {c} /\ Keep(IdentityDef(c))
    BY <1>6 DEF PkvsidIdentity
  <2>2. /\ Defined' = Defined \cup {c} /\ Identities' = Identities \cup {c}
        /\ KeyColumns' = KeyColumns /\ unrejected_column' = TRUE
        /\ rejected_cnames' = rejected_cnames
    BY <1>2, <2>1, KeepIdentity DEF Keep
  <2>3. PkvsidAccounted'
    BY <1>1, <1>2, <1>5, <1>6, <2>1, <2>2 DEF PkvsidAccounted
  <2>4. Intended => IntendedAccounted'
    BY <1>1, <1>2, <1>3, <1>5, <1>6, <2>1, <2>2 DEF Intended, IntendedAccounted
  <2> QED
    BY <1>1, <1>2, <1>3, <1>4, <2>2, <2>3, <2>4 DEF StatementInv, Accounted
<1>7. CASE ~(pks = {} /\ identity_cnt = 0)
  <2>1. identity_cnames' = {} /\ Reject(c)
    BY <1>7 DEF PkvsidIdentity
  <2>2. /\ Defined' = Defined /\ Identities' = Identities
        /\ KeyColumns' = KeyColumns /\ unrejected_column' = unrejected_column
        /\ rejected_cnames' = rejected_cnames \cup {c}
    BY <1>2, <2>1, WriteComment DEF Reject
  <2>3. PkvsidAccounted'
    BY <1>1, <1>2, <1>5, <2>1, <2>2 DEF PkvsidAccounted
  <2>4. ~Intended
    <3> SUFFICES ASSUME Intended PROVE FALSE
      OBVIOUS
    <3>1. c \notin Identities /\ \A d \in MappableIdentities : d = c
      BY <1>1, <1>3, <1>5 DEF Intended
    <3>2. Identities = {} /\ table_info.pk \subseteq {c}
      BY <1>3, <1>5, <3>1 DEF Intended, IntendedAccounted
    <3> QED
      BY <1>5, <1>7, <3>2 DEF IntendedAccounted
  <2> QED
    BY <1>1, <1>2, <1>3, <1>4, <2>2, <2>3, <2>4 DEF StatementInv, Accounted
<1> QED
  BY <1>6, <1>7

LEMMA CloseTableAccounted ==
  ASSUME StatementInv, CloseTable
  PROVE  Accounted'
<1>1. /\ stage = "columns" /\ stage' = "closed"
      /\ emptied' = ~unrejected_column
      /\ pos = Len(table_info.columns)
      /\ UNCHANGED << table_migrator, table_info, pos, pk_cnames, identity_cnames,
                      identity_cnt, unrejected_column, rejected_cnames >>
  BY DEF CloseTable
<1>2. Migrated' = Migrated /\ Migrated = ColumnsOf(table_info)
  BY <1>1, ColumnsOfColumn DEF Migrated, ColumnsOf, StatementInv, CreateTableTypeOK
<1>3. /\ Defined' = Defined /\ Identities' = Identities
      /\ KeyColumns' = KeyColumns \cup pk_cnames
  <2>1. CASE pk_cnames = {}
    BY <2>1 DEF CloseTable, Defined, Identities, KeyColumns
  <2>2. CASE pk_cnames # {}
    <3>1. pk_cnames \in SUBSET Column /\ ddl \in Seq(Token)
      BY ColumnsOfColumn DEF StatementInv, CreateTableTypeOK
    <3> QED
      BY <2>2, <3>1, WriteKey DEF CloseTable
  <2> QED
    BY <2>1, <2>2
<1> QED
  BY <1>1, <1>2, <1>3
     DEF StatementInv, Accounted, HsqldbAccounted, PkvsidAccounted, Intended,
         IntendedAccounted, MappableIdentities

LEMMA AccountedStutters ==
  ASSUME Accounted, UNCHANGED createTableVars
  PROVE  Accounted'
BY DEF Accounted, HsqldbAccounted, PkvsidAccounted, Intended, IntendedAccounted,
       MappableIdentities, Migrated, Defined, Identities, KeyColumns, createTableVars

LEMMA StatementStep ==
  ASSUME StatementInv,
         \/ \E ti \in TableInfo : MakeTableMigrator(ti)
         \/ MigrateColumn \/ CloseTable \/ UNCHANGED createTableVars
  PROVE  StatementInv'
<1>1. CASE MigrateColumn
  BY <1>1, MigrateColumnType, RejectDatatypeAccounted, KeepPlainAccounted,
     HsqldbIdentityAccounted, PkvsidIdentityAccounted DEF MigrateColumn, StatementInv
<1> QED
  BY <1>1, MakeTableMigratorType, CloseTableType, CreateTableTypeStutters,
     MakeTableMigratorAccounted, CloseTableAccounted, AccountedStutters
     DEF StatementInv

LEMMA StatementInvariant == CreateTableSpec => []StatementInv
<1>1. CreateTableInit => StatementInv
  BY CreateTableTypeInit, AccountedInit DEF StatementInv
<1>2. StatementInv /\ [CreateTableNext]_createTableVars => StatementInv'
  BY StatementStep DEF CreateTableNext, BeginTable
<1> QED
  BY <1>1, <1>2, PTL DEF CreateTableSpec

\* The fields of the table, for what follows from the invariant.
LEMMA TableInfoFields ==
  ASSUME CreateTableTypeOK
  PROVE  /\ ColumnsOf(table_info) \in SUBSET Column
         /\ table_info.pk \subseteq ColumnsOf(table_info)
         /\ table_info.identity \subseteq ColumnsOf(table_info)
         /\ table_info.unmappable \subseteq ColumnsOf(table_info)
BY ColumnsOfColumn DEF CreateTableTypeOK

LEMMA AccountedHsqldb == StatementInv => HsqldbStatement
BY TableInfoFields
   DEF StatementInv, Accounted, HsqldbAccounted, MappableIdentities, HsqldbStatement

\* Any two elements are the same exactly in the sets of one element at most.
LEMMA AtMostOne ==
  ASSUME NEW S, IsFiniteSet(S)
  PROVE  Cardinality(S) <= 1 <=> \A c, d \in S : c = d
<1>1. ASSUME \A c, d \in S : c = d
      PROVE  Cardinality(S) <= 1
  <2>1. CASE S = {}
    BY <2>1, FS_EmptySet
  <2>2. CASE S # {}
    <3>1. PICK c : S = {c}
      BY <1>1, <2>2
    <3> QED
      BY <3>1, FS_Singleton
  <2> QED
    BY <2>1, <2>2
<1>2. ASSUME Cardinality(S) <= 1, NEW c \in S, NEW d \in S
      PROVE  c = d
  <2>1. Cardinality(S) \in Nat /\ Cardinality(S) # 0
    BY <1>2, FS_CardinalityType, FS_EmptySet
  <2>2. Cardinality(S) = 1
    BY <1>2, <2>1
  <2> QED
    BY <2>2, FS_Singleton
<1> QED
  BY <1>1, <1>2

LEMMA IdentitiesFinite ==
  ASSUME CreateTableTypeOK
  PROVE  IsFiniteSet(Identities) /\ IsFiniteSet(MappableIdentities)
<1>1. Identities \subseteq Column /\ MappableIdentities \subseteq Column
  BY TableInfoFields DEF Identities, MappableIdentities
<1> QED
  BY <1>1, ColumnAssumption, FS_Subset

LEMMA AccountedPkvsid == StatementInv => PkvsidSingleIdentity /\ PkvsidStatement
<1> SUFFICES ASSUME StatementInv PROVE PkvsidSingleIdentity /\ PkvsidStatement
  OBVIOUS
<1>1. IsFiniteSet(Identities) /\ IsFiniteSet(MappableIdentities)
  BY IdentitiesFinite DEF StatementInv
<1>2. stage \in {"idle", "columns", "closed"}
  BY DEF StatementInv, CreateTableTypeOK, Stage
<1>3. PkvsidSingleIdentity
  BY <1>1, <1>2, AtMostOne
     DEF StatementInv, Accounted, PkvsidAccounted, PkvsidSingleIdentity
<1>4. ASSUME Cardinality(MappableIdentities) <= 1,
             MappableIdentities # {} => table_info.pk \subseteq MappableIdentities
      PROVE  Intended
  BY <1>1, <1>4, AtMostOne DEF Intended
<1>5. MappableIdentities \subseteq ColumnsOf(table_info)
      /\ table_info.pk \subseteq ColumnsOf(table_info)
  BY TableInfoFields DEF StatementInv, MappableIdentities
<1>6. PkvsidStatement
  <2> SUFFICES ASSUME table_migrator = "dbunit_pkvsid", stage = "closed", Intended
               PROVE  /\ Defined = ColumnsOf(table_info) \ table_info.unmappable
                      /\ KeyColumns = table_info.pk \ (table_info.unmappable \cup MappableIdentities)
                      /\ Identities = MappableIdentities /\ identity_cnames = Identities
    BY <1>4 DEF PkvsidStatement
  <2>1. IntendedAccounted /\ Migrated = ColumnsOf(table_info) /\ KeyColumns = pk_cnames
        /\ Defined = (Migrated \ (table_info.unmappable \cup table_info.identity)) \cup Identities
    BY DEF StatementInv, Accounted
  <2>2. Identities = MappableIdentities /\ identity_cnames = Identities
    BY <1>5, <2>1 DEF IntendedAccounted
  <2> QED
    BY <1>5, <2>1, <2>2 DEF IntendedAccounted, MappableIdentities
<1> QED
  BY <1>3, <1>6

(***************************************************************************)
(* With main()'s table migrator, a finished CREATE TABLE defines exactly   *)
(* the columns the datatype rules can map, with the key that is left, for  *)
(* tables of any width (migrate_create_table_ddl,                          *)
(* dbunit_hsqldb_ddl_table_migrator).                                      *)
(***************************************************************************)
THEOREM HsqldbStatementCorrect == CreateTableSpec => []HsqldbStatement
BY StatementInvariant, AccountedHsqldb, PTL

(***************************************************************************)
(* With the pkvsid migrator no statement has two identities, or one and a  *)
(* primary key beside it, however many columns the catalog or the source   *)
(* file says are identities (dbunit_pkvsid_ddl_table_migrator).            *)
(***************************************************************************)
THEOREM PkvsidSingleIdentityCorrect == CreateTableSpec => []PkvsidSingleIdentity
BY StatementInvariant, AccountedPkvsid, PTL

(***************************************************************************)
(* The pkvsid migrator loses nothing of the tables it is made for, of any  *)
(* width: every mappable column is defined and the key is the table's own  *)
(* or its identity (dbunit_pkvsid_ddl_table_migrator).                     *)
(***************************************************************************)
THEOREM PkvsidStatementCorrect == CreateTableSpec => []PkvsidStatement
BY StatementInvariant, AccountedPkvsid, PTL

-------------------------------------------------------------------------------
\* The refinement: a step of CreateTable is one of TableStatement or leaves
\* what that module sees as it is.

LEMMA RefinesInit == CreateTableInit => Abstract!Init
BY TableMigratorsAssumption DEF CreateTableInit, Statement, Abstract!Init, Abstract!NoStatement

LEMMA RefinesBegin == BeginTable => Abstract!BeginTable
BY DEF BeginTable, MakeTableMigrator, Statement, Abstract!BeginTable,
       Abstract!NoStatement

LEMMA RefinesColumn == MigrateColumn => UNCHANGED Abstract!statementVars
<1> SUFFICES ASSUME MigrateColumn PROVE UNCHANGED Abstract!statementVars
  OBVIOUS
<1>1. /\ UNCHANGED << table_migrator, stage, table_info >> /\ stage = "columns"
  BY DEF MigrateColumn, RejectDatatype, KeepPlain, HsqldbKeepIdentity,
         PkvsidIdentity, NextColumn
<1> QED
  BY <1>1 DEF Statement, Abstract!statementVars

LEMMA RefinesClose ==
  ASSUME StatementInv', CloseTable
  PROVE  Abstract!FinishTable
<1>1. /\ stage = "columns" /\ stage' = "closed"
      /\ UNCHANGED << table_migrator, table_info >>
  BY DEF CloseTable
<1>2. Statement' = [defined |-> Defined', identities |-> Identities',
                    key |-> KeyColumns', commented |-> emptied']
  BY <1>1 DEF Statement
<1>3. /\ Identities' \subseteq table_info.identity \ table_info.unmappable
      /\ Defined' = (ColumnsOf(table_info) \ (table_info.unmappable \cup table_info.identity))
                       \cup Identities'
      /\ emptied' <=> Defined' = {}
      /\ KeyColumns' = pk_cnames'
      /\ Migrated' = ColumnsOf(table_info)
  BY <1>1 DEF StatementInv, Accounted, MappableIdentities
<1>4. /\ table_info.pk \subseteq ColumnsOf(table_info)
      /\ table_info.identity \subseteq ColumnsOf(table_info)
      /\ table_info.unmappable \subseteq ColumnsOf(table_info)
  <2>1. table_info \in TableInfo \cup {NoTableInfo}
    BY <1>1 DEF StatementInv, CreateTableTypeOK
  <2> QED
    BY <2>1, ColumnsOfColumn
<1>5. ASSUME table_migrator = "dbunit_hsqldb"
      PROVE  Abstract!IsHsqldbStatement(table_info, Statement')
  <2>1. HsqldbAccounted'
    BY <1>1, <1>5 DEF StatementInv, Accounted
  <2> QED
    BY <1>1, <1>2, <1>3, <1>4, <2>1
       DEF HsqldbAccounted, MappableIdentities, Abstract!IsHsqldbStatement,
           Abstract!Mappable, Abstract!MappableIdentities
<1>6. ASSUME table_migrator = "dbunit_pkvsid"
      PROVE  Abstract!IsPkvsidStatement(table_info, Statement')
  <2>1. PkvsidAccounted'
    BY <1>1, <1>6 DEF StatementInv, Accounted
  <2> QED
    BY <1>1, <1>2, <1>3, <1>4, <2>1
       DEF PkvsidAccounted, Abstract!IsPkvsidStatement,
           Abstract!Mappable, Abstract!MappableIdentities
<1> QED
  BY <1>1, <1>2, <1>3, <1>5, <1>6
     DEF Abstract!FinishTable, Abstract!IsStatement, Abstract!IsCommented

(***************************************************************************)
(* CreateTable implements TableStatement: whatever the order of a table's  *)
(* columns and the fate of each, its statement appears whole when the last *)
(* column is done, and is one that table migrator may produce              *)
(* (migrate_create_table_ddl).                                             *)
(***************************************************************************)
THEOREM CreateTableImplements == CreateTableSpec => ImplementsTableStatement
<1>1. StatementInv' /\ [CreateTableNext]_createTableVars
        => [Abstract!Next]_Abstract!statementVars
  <2> SUFFICES ASSUME StatementInv', [CreateTableNext]_createTableVars
               PROVE  [Abstract!Next]_Abstract!statementVars
    OBVIOUS
  <2>1. CASE UNCHANGED createTableVars
    BY <2>1 DEF createTableVars, Abstract!statementVars, Statement, Defined,
                Identities, KeyColumns
  <2> QED
    BY <2>1, RefinesBegin, RefinesColumn, RefinesClose DEF CreateTableNext, Abstract!Next
<1> QED
  BY <1>1, RefinesInit, StatementInvariant, PTL
     DEF CreateTableSpec, ImplementsTableStatement, Abstract!Spec
-------------------------------------------------------------------------------
\* Separators.  What prev says about the text before the statement is closed:
\* that it ends in an item, or that every item in it has a separator after it.

AreSeparated(tokens) ==
  /\ \A i, j \in DOMAIN tokens : i < j =>
       /\ IsItem(tokens[i]) /\ IsItem(tokens[j]) =>
            \E k \in (i + 1)..(j - 1) : tokens[k].kind = "separator"
       /\ tokens[i].kind = "separator" /\ tokens[j].kind = "separator" =>
            \E k \in (i + 1)..(j - 1) : IsItem(tokens[k])
  /\ \A i \in DOMAIN tokens : tokens[i].kind = "separator" =>
       \E k \in 1..(i - 1) : IsItem(tokens[k])

EndsInItem(tokens) == Len(tokens) # 0 /\ IsItem(tokens[Len(tokens)])
ItemsFollowed(tokens) ==
  \A i \in DOMAIN tokens : IsItem(tokens[i]) =>
    \E k \in (i + 1)..Len(tokens) : tokens[k].kind = "separator"

SeparatorInv ==
  /\ AreSeparated(ddl)
  /\ stage = "columns" => IF prev THEN EndsInItem(ddl) ELSE ItemsFollowed(ddl)

LEMMA AppendFacts ==
  ASSUME NEW tokens \in Seq(Token), NEW token \in Token, NEW more,
         more = Append(tokens, token)
  PROVE  /\ more \in Seq(Token)
         /\ Len(tokens) \in Nat /\ Len(more) = Len(tokens) + 1
         /\ DOMAIN tokens = 1..Len(tokens) /\ DOMAIN more = 1..(Len(tokens) + 1)
         /\ \A i \in 1..Len(tokens) : more[i] = tokens[i]
         /\ more[Len(tokens) + 1] = token
  OBVIOUS

LEMMA KindsDiffer ==
  \A token : ~(IsItem(token) /\ token.kind \in {"separator", "comment"})
  BY DEF IsItem

LEMMA AppendSeparator ==
  ASSUME NEW tokens \in Seq(Token), AreSeparated(tokens), EndsInItem(tokens)
  PROVE  /\ Append(tokens, Separator) \in Seq(Token)
         /\ AreSeparated(Append(tokens, Separator))
         /\ ItemsFollowed(Append(tokens, Separator))
<1> DEFINE more == Append(tokens, Separator)
           n    == Len(tokens)
<1>1. Separator \in Token /\ Separator.kind = "separator"
  BY DEF Separator, Token
<1>2. /\ more \in Seq(Token) /\ n \in Nat /\ Len(more) = n + 1
      /\ DOMAIN tokens = 1..n /\ DOMAIN more = 1..(n + 1)
      /\ \A i \in 1..n : more[i] = tokens[i]
      /\ more[n + 1].kind = "separator"
  BY <1>1, AppendFacts
<1> HIDE DEF more, n
<1>3. n # 0 /\ IsItem(more[n]) /\ more[n].kind # "separator" /\ ~IsItem(more[n + 1])
  BY <1>2, KindsDiffer DEF EndsInItem, n
<1>4. ASSUME NEW i \in 1..(n + 1), NEW j \in 1..(n + 1), i < j
      PROVE  /\ IsItem(more[i]) /\ IsItem(more[j]) =>
                  \E k \in (i + 1)..(j - 1) : more[k].kind = "separator"
             /\ more[i].kind = "separator" /\ more[j].kind = "separator" =>
                  \E k \in (i + 1)..(j - 1) : IsItem(more[k])
  <2>1. CASE j = n + 1
    <3>1. more[i].kind = "separator" => n \in (i + 1)..(j - 1)
      BY <1>2, <1>3, <1>4, <2>1
    <3> QED
      BY <1>3, <2>1, <3>1
  <2>2. CASE j # n + 1
    <3>1. i \in 1..n /\ j \in 1..n /\ \A k \in (i + 1)..(j - 1) : more[k] = tokens[k]
      BY <1>2, <1>4, <2>2
    <3> QED
      BY <1>2, <1>4, <3>1 DEF AreSeparated
  <2> QED
    BY <2>1, <2>2
<1>5. ASSUME NEW i \in 1..(n + 1), more[i].kind = "separator"
      PROVE  \E k \in 1..(i - 1) : IsItem(more[k])
  <2>1. CASE i = n + 1
    <3>1. n \in 1..(i - 1)
      BY <1>2, <1>3, <2>1
    <3> QED
      BY <1>3, <3>1
  <2>2. CASE i # n + 1
    <3>1. i \in 1..n /\ \A k \in 1..(i - 1) : more[k] = tokens[k]
      BY <1>2, <2>2
    <3> QED
      BY <1>2, <1>5, <3>1 DEF AreSeparated
  <2> QED
    BY <2>1, <2>2
<1>6. AreSeparated(more)
  BY <1>2, <1>4, <1>5 DEF AreSeparated
<1>7. ItemsFollowed(more)
  <2> SUFFICES ASSUME NEW i \in 1..(n + 1), IsItem(more[i])
               PROVE  \E k \in (i + 1)..(n + 1) : more[k].kind = "separator"
    BY <1>2 DEF ItemsFollowed
  <2>1. n + 1 \in (i + 1)..(n + 1)
    BY <1>2, <1>3
  <2> QED
    BY <1>2, <2>1
<1> QED
  BY <1>2, <1>6, <1>7 DEF more

\* An item or a comment, where all items before have a separator after them.
LEMMA AppendToken ==
  ASSUME NEW tokens \in Seq(Token), AreSeparated(tokens), ItemsFollowed(tokens),
         NEW token \in Token, token.kind # "separator"
  PROVE  /\ Append(tokens, token) \in Seq(Token)
         /\ AreSeparated(Append(tokens, token))
         /\ IF IsItem(token) THEN EndsInItem(Append(tokens, token))
                             ELSE ItemsFollowed(Append(tokens, token))
<1> DEFINE more == Append(tokens, token)
           n    == Len(tokens)
<1>1. /\ more \in Seq(Token) /\ n \in Nat /\ Len(more) = n + 1
      /\ DOMAIN tokens = 1..n /\ DOMAIN more = 1..(n + 1)
      /\ \A i \in 1..n : more[i] = tokens[i]
      /\ more[n + 1] = token
  BY AppendFacts
<1> HIDE DEF more
<1>2. ASSUME NEW i \in 1..n, IsItem(more[i])
      PROVE  \E k \in (i + 1)..n : more[k].kind = "separator"
  <2>1. IsItem(tokens[i])
    BY <1>1, <1>2
  <2>2. PICK k \in (i + 1)..n : tokens[k].kind = "separator"
    BY <1>1, <2>1 DEF ItemsFollowed
  <2> QED
    BY <1>1, <2>2
<1> HIDE DEF n
<1>3. ASSUME NEW i \in 1..(n + 1), NEW j \in 1..(n + 1), i < j
      PROVE  /\ IsItem(more[i]) /\ IsItem(more[j]) =>
                  \E k \in (i + 1)..(j - 1) : more[k].kind = "separator"
             /\ more[i].kind = "separator" /\ more[j].kind = "separator" =>
                  \E k \in (i + 1)..(j - 1) : IsItem(more[k])
  <2>1. CASE j = n + 1
    <3>1. i \in 1..n /\ j - 1 = n /\ more[j].kind # "separator"
      BY <1>1, <1>3, <2>1
    <3> QED
      BY <1>2, <3>1
  <2>2. CASE j # n + 1
    <3>1. i \in 1..n /\ j \in 1..n /\ \A k \in (i + 1)..(j - 1) : more[k] = tokens[k]
      BY <1>1, <1>3, <2>2
    <3> QED
      BY <1>1, <1>3, <3>1 DEF AreSeparated
  <2> QED
    BY <2>1, <2>2
<1>4. ASSUME NEW i \in 1..(n + 1), more[i].kind = "separator"
      PROVE  \E k \in 1..(i - 1) : IsItem(more[k])
  <2>1. i \in 1..n /\ \A k \in 1..(i - 1) : more[k] = tokens[k]
    BY <1>1, <1>4
  <2> QED
    BY <1>1, <1>4, <2>1 DEF AreSeparated
<1>5. AreSeparated(more)
  BY <1>1, <1>3, <1>4 DEF AreSeparated
<1>6. CASE IsItem(token)
  BY <1>1, <1>5, <1>6 DEF EndsInItem, more
<1>7. CASE ~IsItem(token)
  <2> SUFFICES ASSUME NEW i \in 1..(n + 1), IsItem(more[i])
               PROVE  \E k \in (i + 1)..(n + 1) : more[k].kind = "separator"
    BY <1>1, <1>5, <1>7 DEF ItemsFollowed, more
  <2>1. i \in 1..n
    BY <1>1, <1>7
  <2>2. PICK k \in (i + 1)..n : more[k].kind = "separator"
    BY <1>2, <2>1
  <2>3. k \in (i + 1)..(n + 1)
    BY <1>1, <2>1, <2>2
  <2> QED
    BY <2>2, <2>3
<1> QED
  BY <1>6, <1>7

LEMMA WriteSeparated ==
  ASSUME CreateTableTypeOK, SeparatorInv, stage = "columns",
         NEW item \in Token, item.kind # "separator", Write(item)
  PROVE  /\ AreSeparated(ddl')
         /\ IF IsItem(item) THEN EndsInItem(ddl') ELSE ItemsFollowed(ddl')
<1>0. ddl \in Seq(Token) /\ AreSeparated(ddl)
  BY DEF CreateTableTypeOK, SeparatorInv
<1>1. CASE prev
  <2> DEFINE separated == Append(ddl, Separator)
  <2>1. separated \in Seq(Token) /\ AreSeparated(separated) /\ ItemsFollowed(separated)
    BY <1>0, <1>1, AppendSeparator DEF SeparatorInv
  <2>2. ddl' = Append(separated, item)
    BY <1>1 DEF Write
  <2> HIDE DEF separated
  <2> QED
    BY <2>1, <2>2, AppendToken
<1>2. CASE ~prev
  BY <1>0, <1>2, AppendToken DEF SeparatorInv, Write
<1> QED
  BY <1>1, <1>2

LEMMA KindsOfItems ==
  ASSUME NEW c \in Column, NEW cs \in SUBSET Column
  PROVE  /\ {ColumnDef(c), IdentityDef(c), RejectComment(c), PrimaryKey(cs)} \subseteq Token
         /\ IsItem(ColumnDef(c)) /\ IsItem(IdentityDef(c)) /\ IsItem(PrimaryKey(cs))
         /\ ~IsItem(RejectComment(c)) /\ RejectComment(c).kind # "separator"
  BY ItemsAreTokens DEF IsItem, ColumnDef, IdentityDef, RejectComment, PrimaryKey

LEMMA SeparatorInit == CreateTableInit => SeparatorInv
  BY DEF CreateTableInit, SeparatorInv, AreSeparated

LEMMA SeparatorStep ==
  CreateTableTypeOK /\ SeparatorInv /\ [CreateTableNext]_createTableVars => SeparatorInv'
<1> SUFFICES ASSUME CreateTableTypeOK, SeparatorInv, [CreateTableNext]_createTableVars
             PROVE  SeparatorInv'
  OBVIOUS
<1>1. CASE BeginTable
  <2>1. ddl' = << >> /\ prev' = FALSE
    BY <1>1 DEF BeginTable, MakeTableMigrator
  <2> QED
    BY <2>1 DEF SeparatorInv, AreSeparated, ItemsFollowed
<1>2. CASE MigrateColumn
  <2>1. PICK c \in Column : \/ RejectDatatype(c) \/ KeepPlain(c)
                            \/ HsqldbKeepIdentity(c) \/ PkvsidIdentity(c)
    BY <1>2 DEF MigrateColumn
  <2>2. stage = "columns" /\ \/ Reject(c) \/ Keep(ColumnDef(c)) \/ Keep(IdentityDef(c))
    BY <2>1 DEF RejectDatatype, KeepPlain, HsqldbKeepIdentity, PkvsidIdentity, NextColumn
  <2>3. CASE Reject(c)
    <3>1. AreSeparated(ddl') /\ ItemsFollowed(ddl')
      BY <2>2, <2>3, KindsOfItems, WriteSeparated DEF Reject
    <3> QED
      BY <2>3, <3>1 DEF Reject, SeparatorInv
  <2>4. ASSUME NEW item \in {ColumnDef(c), IdentityDef(c)}, Keep(item)
        PROVE  SeparatorInv'
    <3>1. item \in Token /\ IsItem(item) /\ item.kind # "separator"
      BY KindsOfItems, KindsDiffer
    <3>2. AreSeparated(ddl') /\ EndsInItem(ddl')
      BY <2>2, <2>4, <3>1, WriteSeparated DEF Keep
    <3> QED
      BY <2>4, <3>2 DEF Keep, SeparatorInv
  <2> QED
    BY <2>2, <2>3, <2>4
<1>3. CASE CloseTable
  <2>1. stage = "columns" /\ stage' = "closed"
    BY <1>3 DEF CloseTable
  <2>2. CASE pk_cnames = {}
    BY <1>3, <2>1, <2>2 DEF CloseTable, SeparatorInv
  <2>3. CASE pk_cnames # {}
    <3>1. pk_cnames \in SUBSET Column
      BY ColumnsOfColumn DEF CreateTableTypeOK
    <3>2. PICK c \in Column : TRUE
      BY <2>3, <3>1
    <3>3. /\ PrimaryKey(pk_cnames) \in Token /\ IsItem(PrimaryKey(pk_cnames))
          /\ PrimaryKey(pk_cnames).kind # "separator"
      BY <3>1, <3>2, KindsOfItems, KindsDiffer
    <3>4. AreSeparated(ddl')
      BY <1>3, <2>1, <2>3, <3>3, WriteSeparated DEF CloseTable
    <3> QED
      BY <2>1, <3>4 DEF SeparatorInv
  <2> QED
    BY <2>2, <2>3
<1>4. CASE UNCHANGED createTableVars
  BY <1>4 DEF createTableVars, SeparatorInv
<1> QED
  BY <1>1, <1>2, <1>3, <1>4 DEF CreateTableNext

(***************************************************************************)
(* For tables of any size and either table migrator, items are separated:  *)
(* a comma stands between any two, none comes first and no two without an  *)
(* item in between (the prev flag of migrate_create_table_ddl).            *)
(***************************************************************************)
THEOREM SeparatorDisciplineCorrect == CreateTableSpec => []SeparatorDiscipline
<1>1. SeparatorInv => SeparatorDiscipline
  BY DEF SeparatorInv, AreSeparated, SeparatorDiscipline, SeparatorsAlternate,
         NoLeadingSeparator, Between
<1> QED
  BY <1>1, SeparatorInit, SeparatorStep, CreateTableTypeCorrect, PTL DEF CreateTableSpec
===============================================================================
