------------------------------ MODULE MapLoader ------------------------------
(***************************************************************************)
(* The loading of the catalog (sqlsvr_ddl_queries_impl): five loaders, one *)
(* after the other, each of which queries every database for the rows of   *)
(* one kind of metadata and maps them by the normalized name of a column   *)
(* (ck, fk, pk, uq) or a table (tc).                                       *)
(*                                                                         *)
(* The ck, uq and tc loaders collect consecutive rows with one name and    *)
(* map them together when the name changes; the pk and fk loaders map each *)
(* row.  A name that is mapped already is reported as redefined, and the   *)
(* errors of all loaders are thrown at the end.                            *)
(*                                                                         *)
(* Assertions exist in some builds and not in others: where one fails, the *)
(* program stops or goes on.                                               *)
(***************************************************************************)
EXTENDS Integers, Sequences, FiniteSets

CONSTANTS
  Database,      \* the databases considered: see IsDatabase
  Name,          \* names of schemas, tables, columns and constraints, each
                 \*   beginning with a letter and without a dot
  Normal,        \* the lower case of a name of letters, digits and underscores
  Invalid,       \*   ... and what normalize_ddl_name makes of any other name
  Rank,          \* the place of a name in the collation of the databases
  MaxDatabases   \* bound: how many data sources there are

\* A database: its columns; its check, unique and primary key constraints, by
\* name within a schema; its foreign keys, column by column.
IsDatabase(db) ==
  /\ db.columns \subseteq [schema : Name, table : Name, column : Name, pos : Nat]
  /\ db.constraints \subseteq
       [type : {"check", "unique", "primary_key"}, schema : Name, table : Name,
        name : Name, columns : SUBSET Name]
  /\ db.foreign_keys \subseteq
       [schema : Name, table : Name, column : Name, name : Name,
        ref : Name \X Name \X Name]
  /\ \A k, l \in db.constraints : k.schema = l.schema /\ k.name = l.name => k = l

ASSUME DatabaseAssumption == \A db \in Database : IsDatabase(db)
ASSUME NameAssumption ==
  Normal \in [Name -> Name \cup {Invalid}] /\ Rank \in [Name -> Nat]
ASSUME InvalidAssumption == Invalid \notin Name
ASSUME MaxDatabasesAssumption == MaxDatabases \in Nat \ {0}

VARIABLES
  databases,            \* the data sources, in the order of the options
  stage,                \* where sqlsvr_ddl_queries_impl stands: see Stage
  loader,               \* the loader at work
  conn,                 \* the database that it queries
  rows,                 \* the rows of the query that are still to be fetched
  last_name,            \* the normalized name of the last row,
  last_column_pos,      \*   and for tc its column's position
  recs,                 \* the rows collected under last_name
  mapper,               \* what each loader has mapped
  constraint_name_map,  \* fk: a constraint name, and its record's address
  reverse_map,          \* fk: the constraints that refer to a column
  connection_errors     \* the errors of all loaders

groupVars == << last_name, last_column_pos, recs >>
fkVars    == << constraint_name_map, reverse_map >>
vars == << databases, stage, loader, conn, rows, groupVars, mapper, fkVars,
           connection_errors >>

Stage == {"connect", "query", "rows", "finish", "loaded", "threw", "query_failed",
          "conn_pos_asserted", "column_pos_asserted"}
Loader  == {"ck", "fk", "pk", "uq", "tc"}
Grouped == {"ck", "uq", "tc"}
NextLoader == [ck |-> "fk", fk |-> "pk", pk |-> "uq", uq |-> "tc", tc |-> "tc"]

-------------------------------------------------------------------------------
\* The queries.  A row is the name it is mapped by, the rest of it, and what
\* it was selected from (equal rows may be selected more than once).  The join
\* of the constraints with the columns they use does not compare schemas.

RowOf(name, rec, of) == [name |-> name, rec |-> rec, of |-> of]

OfType(db, type) == {k \in db.constraints : k.type = type}
Usages(db) ==
  UNION {{[constraint |-> k, column |-> c] : c \in k.columns} : k \in db.constraints}

Joined(db, type) ==
  {j \in [constraint : OfType(db, type), usage : Usages(db)] :
     /\ j.usage.constraint.name = j.constraint.name
     /\ j.usage.constraint.table = j.constraint.table}

JoinedRow(j, of) ==
  RowOf(<<j.constraint.schema, j.constraint.table, j.usage.column>>,
        j.constraint.name, of)

CkRows(db) ==
  UNION {{JoinedRow(j, <<j, k>>) :
            k \in {l \in OfType(db, "check") : l.name = j.constraint.name}} :
           j \in Joined(db, "check")}
PkRows(db) == {JoinedRow(j, j) : j \in Joined(db, "primary_key")}
UqRows(db) == {JoinedRow(j, j) : j \in Joined(db, "unique")}
FkRows(db) ==
  {RowOf(<<f.schema, f.table, f.column>>, [constraint |-> f.name, ref |-> f.ref], f) :
     f \in db.foreign_keys}
TcRows(db) ==
  {RowOf(<<c.schema, c.table>>, [column |-> c.column, pos |-> c.pos], c) :
     c \in db.columns}

Rows(kind, db) ==
  CASE kind = "ck" -> CkRows(db)
    [] kind = "fk" -> FkRows(db)
    [] kind = "pk" -> PkRows(db)
    [] kind = "uq" -> UqRows(db)
    [] kind = "tc" -> TcRows(db)

\* ORDER BY: the places of the names, and the position of a column.
Ranks(names) == [i \in DOMAIN names |-> Rank[names[i]]]
SortKey(kind, row) ==
  CASE kind \in {"ck", "uq"} -> Ranks(Append(row.name, row.rec))
    [] kind = "pk" -> Ranks(row.name)
    [] kind = "fk" -> Ranks(row.name \o row.rec.ref)
    [] kind = "tc" -> Append(Ranks(row.name), row.rec.pos)

Before(s, t) ==
  \E i \in DOMAIN s : s[i] < t[i] /\ \A j \in 1..(i - 1) : s[j] = t[j]

\* ddl_stname, ddl_stcname: a name is empty if any part of it is not a DDL name.
Normalized(names) ==
  LET parts == [i \in DOMAIN names |-> Normal[names[i]]]
  IN IF \E i \in DOMAIN parts : parts[i] = Invalid THEN << >> ELSE parts

-------------------------------------------------------------------------------
Init ==
  /\ databases \in UNION {[1..n -> Database] : n \in 1..MaxDatabases}
  /\ stage = "connect" /\ loader = "ck" /\ conn = 1 /\ rows = {}
  /\ last_name = << >> /\ last_column_pos = 0 /\ recs = << >>
  /\ mapper = [kind \in Loader |-> {}]
  /\ constraint_name_map = {} /\ reverse_map = {}
  /\ connection_errors = {}

Error(kind, c, name) == [loader |-> kind, conn |-> c, name |-> name]

\* All databases are connected to before the first is queried; those that
\* refuse are thrown together.
Connect ==
  /\ stage = "connect"
  /\ \E refusing \in SUBSET (1..Len(databases)) :
       /\ connection_errors' = {Error("none", c, << >>) : c \in refusing}
       /\ stage' = IF refusing = {} THEN "query" ELSE "threw"
  /\ UNCHANGED << databases, loader, conn, rows, groupVars, mapper, fkVars >>

\* Bug: the group of the query before is still there.
QueryGroupKept ==
  /\ stage = "query"
  /\ rows' = Rows(loader, databases[conn])
  /\ stage' = "rows"
  /\ UNCHANGED << databases, loader, conn, groupVars, mapper, fkVars, connection_errors >>

\* The next query: with a fresh, empty group.
Query ==
  /\ stage = "query"
  /\ rows' = Rows(loader, databases[conn])
  /\ last_name' = << >> /\ last_column_pos' = 0 /\ recs' = << >>
  /\ stage' = "rows"
  /\ UNCHANGED << databases, loader, conn, mapper, fkVars, connection_errors >>

\* A query_error, from the query or a row, ends the program.
QueryFails ==
  /\ stage \in {"query", "rows"}
  /\ stage' = "query_failed"
  /\ UNCHANGED << databases, loader, conn, rows, groupVars, mapper, fkVars,
                  connection_errors >>

FetchRow(row) ==
  /\ stage = "rows" /\ row \in rows
  /\ \A r \in rows : ~Before(SortKey(loader, r), SortKey(loader, row))
  /\ rows' = rows \ {row}
  /\ UNCHANGED << databases, loader, conn >>

\* insert_*_rec(s): the records of a name, unless it is mapped already.  The
\* loader goes on at the stage next, and asserts that a name is redefined by a
\* later database.
IsMapped(name) == \E e \in mapper[loader] : e.name = name

MapName(name, records) ==
  mapper' = [mapper EXCEPT ![loader] =
               @ \cup {[name |-> name, conn |-> conn, recs |-> records]}]

\* Bug: a redefined name is dropped without an error.
InsertSilently(name, records, next) ==
  /\ stage' = next
  /\ IF IsMapped(name) THEN UNCHANGED mapper ELSE MapName(name, records)
  /\ UNCHANGED connection_errors

Insert(name, records, next) ==
  \/ /\ ~IsMapped(name)
     /\ MapName(name, records)
     /\ stage' = next
     /\ UNCHANGED connection_errors
  \/ /\ IsMapped(name)
     /\ connection_errors' = connection_errors \cup {Error(loader, conn, name)}
     /\ stage' = next
     /\ UNCHANGED mapper
  \/ /\ IsMapped(name) /\ conn = 1
     /\ stage' = "conn_pos_asserted"
     /\ UNCHANGED << mapper, connection_errors >>

\* A row of the ck, uq or tc query: a new name closes the group of the last.
GroupRow(row) ==
  LET name == Normalized(row.name)
  IN /\ loader \in Grouped /\ FetchRow(row)
     /\ last_name' = name
     /\ last_column_pos' = IF loader = "tc" THEN row.rec.pos ELSE 0
     /\ \/ /\ name = last_name \/ recs = << >>
           /\ recs' = Append(recs, row)
           /\ UNCHANGED << mapper, connection_errors, stage >>
        \/ /\ name # last_name /\ recs # << >>
           /\ recs' = << row >>
           /\ Insert(last_name, recs, "rows")
     /\ UNCHANGED fkVars

\* The tc loader asserts that a table's columns are numbered from 1.
ColumnPosAsserted(row) ==
  /\ loader = "tc" /\ FetchRow(row)
  /\ row.rec.pos # IF Normalized(row.name) = last_name THEN last_column_pos + 1 ELSE 1
  /\ stage' = "column_pos_asserted"
  /\ UNCHANGED << groupVars, mapper, fkVars, connection_errors >>

PkRow(row) ==
  /\ loader = "pk" /\ FetchRow(row)
  /\ Insert(Normalized(row.name), << row >>, "rows")
  /\ UNCHANGED << groupVars, fkVars >>

\* The address of the record is kept under the name of its constraint whether
\* or not the record was mapped: one that was not is gone.
FkRow(row) ==
  /\ loader = "fk" /\ FetchRow(row)
  /\ Insert(Normalized(row.name), << row >>, "rows")
  /\ constraint_name_map' =
       IF \E n \in constraint_name_map : n.constraint = row.rec.constraint
         THEN constraint_name_map
         ELSE constraint_name_map \cup
                {[constraint |-> row.rec.constraint, conn |-> conn, rec |-> row]}
  /\ reverse_map' = reverse_map \cup
       {[ref |-> Normalized(row.rec.ref), constraint |-> row.rec.constraint,
         name |-> Normalized(row.name)]}
  /\ UNCHANGED groupVars

LastQuery == loader = "tc" /\ conn = Len(databases)

\* Bugs: the databases are not queried from the first again; the first loader
\* with errors throws them.
NextQueryConnKept ==
  /\ conn' = conn + 1
  /\ loader' = IF conn < Len(databases) THEN loader ELSE NextLoader[loader]
StageAfterFirstError ==
  IF connection_errors # {} \/ LastQuery THEN "finish" ELSE "query"

\* The next database, or the next loader's first.
NextQuery ==
  /\ conn' = IF conn < Len(databases) THEN conn + 1 ELSE 1
  /\ loader' = IF conn < Len(databases) THEN loader ELSE NextLoader[loader]
StageAfter == IF LastQuery THEN "finish" ELSE "query"

\* Bug: the last group of a query is not mapped.
LastGroupNotMapped ==
  /\ stage = "rows" /\ rows = {} /\ NextQuery
  /\ stage' = StageAfter
  /\ UNCHANGED << databases, rows, groupVars, mapper, fkVars, connection_errors >>

\* The rows have been fetched: the last group is mapped.
EndOfRows ==
  /\ stage = "rows" /\ rows = {} /\ NextQuery
  /\ IF recs = << >>
       THEN stage' = StageAfter /\ UNCHANGED << mapper, connection_errors >>
       ELSE Insert(last_name, recs, StageAfter)
  /\ UNCHANGED << databases, rows, groupVars, fkVars >>

\* Bug: the errors of the last loader are collected too late to be thrown.
FinishIgnoringLast ==
  /\ stage = "finish"
  /\ stage' = IF \A e \in connection_errors : e.loader = "tc" THEN "loaded" ELSE "threw"
  /\ UNCHANGED << databases, loader, conn, rows, groupVars, mapper, fkVars,
                  connection_errors >>

Finish ==
  /\ stage = "finish"
  /\ stage' = IF connection_errors = {} THEN "loaded" ELSE "threw"
  /\ UNCHANGED << databases, loader, conn, rows, groupVars, mapper, fkVars,
                  connection_errors >>

Next ==
  \/ Connect \/ Query \/ QueryFails
  \/ \E row \in rows : \/ GroupRow(row) \/ ColumnPosAsserted(row)
                       \/ PkRow(row) \/ FkRow(row)
  \/ EndOfRows \/ Finish

Spec == Init /\ [][Next]_vars

-------------------------------------------------------------------------------
TypeOK ==
  /\ databases \in Seq(Database)
  /\ stage \in Stage
  /\ loader \in Loader
  /\ conn \in 1..Len(databases)
  /\ stage = "rows" => rows \subseteq Rows(loader, databases[conn])
  /\ last_name \in Seq(Name)
  /\ last_column_pos \in Nat
  /\ recs # << >> => loader \in Grouped \/ stage # "rows"
  /\ DOMAIN mapper = Loader
  /\ \A kind \in Loader : \A e \in mapper[kind] :
       /\ e.name \in Seq(Name)
       /\ e.conn \in 1..Len(databases)
       /\ e.recs \in Seq(Rows(kind, databases[e.conn]))
  /\ \A n \in constraint_name_map : n.rec \in FkRows(databases[n.conn])
  /\ reverse_map \subseteq [ref : Seq(Name), constraint : Name, name : Seq(Name)]
  /\ connection_errors \subseteq
       [loader : Loader \cup {"none"}, conn : 1..Len(databases), name : Seq(Name)]

\* The names that a database's rows of some kind are mapped by.
NamesOf(kind, c) == {Normalized(row.name) : row \in Rows(kind, databases[c])}

(***************************************************************************)
(* RUNNING.md: "middle will halt with an error if it finds any tables      *)
(* defined in multiple databases".  Once the catalog is loaded no table is *)
(* defined by two databases, nor a column's constraints.                   *)
(***************************************************************************)
OneDatabase ==
  stage = "loaded" =>
    \A kind \in Loader, c, d \in 1..Len(databases) :
      c # d => NamesOf(kind, c) \cap NamesOf(kind, d) = {}

(***************************************************************************)
(* Nothing is lost, and no group is torn: a loaded catalog has under every *)
(* name all rows that the name's database has for it, the last of a query  *)
(* included (load_ck_mapper, load_uq_mapper, load_tc_mapper).              *)
(***************************************************************************)
GroupsComplete ==
  stage = "loaded" =>
    \A kind \in Loader, c \in 1..Len(databases) : \A name \in NamesOf(kind, c) :
      \E e \in mapper[kind] :
        /\ e.name = name
        /\ {e.recs[i] : i \in DOMAIN e.recs} =
             {row \in Rows(kind, databases[c]) : Normalized(row.name) = name}

(***************************************************************************)
(* An address in constraint_name_map, through which a rejected column's    *)
(* foreign keys are hidden, is that of a mapped record of that constraint: *)
(* records that were destroyed because their name was mapped already never *)
(* outlive the loading.                                                    *)
(***************************************************************************)
IsLive(n) == \E e \in mapper["fk"] : e.conn = n.conn /\ e.recs = << n.rec >>
NoDanglingRecord ==
  stage = "loaded" =>
    \A n \in constraint_name_map : IsLive(n) /\ n.rec.rec.constraint = n.constraint

(***************************************************************************)
(* The errors that are thrown after loading name every redefinition, by    *)
(* whichever loader and database, not only the first.                      *)
(***************************************************************************)
AllRedefinitionsThrown ==
  stage = "threw" /\ (\A e \in connection_errors : e.loader # "none") =>
    \A kind \in Loader, c, d \in 1..Len(databases) :
      \A name \in NamesOf(kind, c) \cap NamesOf(kind, d) :
        c < d => Error(kind, d, name) \in connection_errors

(***************************************************************************)
(* And they name nothing else, nor does an assertion of the loaders fail,  *)
(* unless one database has two things of one name: rows of the pk and fk   *)
(* queries, of which there is one for each key of a column (and the joins  *)
(* leave out the schema), or names that normalize to the same.             *)
(***************************************************************************)
Ambiguous(kind, c, name) ==
  \E r, s \in Rows(kind, databases[c]) :
    /\ r # s /\ Normalized(r.name) = name /\ Normalized(s.name) = name
    /\ kind \in Grouped => r.name # s.name

NoSpuriousRedefinition ==
  /\ \A e \in connection_errors : e.loader # "none" =>
       \/ \E c \in 1..(e.conn - 1) : e.name \in NamesOf(e.loader, c)
       \/ Ambiguous(e.loader, e.conn, e.name)
  /\ stage = "conn_pos_asserted" =>
       \E kind \in Loader : \E name \in NamesOf(kind, 1) : Ambiguous(kind, 1, name)
  /\ stage = "column_pos_asserted" =>
       \E name \in NamesOf("tc", conn) : Ambiguous("tc", conn, name)

\* What the theorem about it assumes of the databases, for the loaders rely on
\* it: that their collation ties only names that normalize alike, and that they
\* number the columns of every table from 1.
TiesNormalizeAlike == \A a, b \in Name : Rank[a] = Rank[b] => Normal[a] = Normal[b]
SameTable(c, d) == c.schema = d.schema /\ c.table = d.table
ColumnsNumbered ==
  \A db \in Database : \A c \in db.columns :
    /\ c.pos >= 1
    /\ \A p \in 1..c.pos : \E d \in db.columns : SameTable(c, d) /\ d.pos = p
    /\ \A d \in db.columns : SameTable(c, d) /\ d.pos = c.pos => d = c
===============================================================================
