--------------------------- MODULE MapLoader_proofs ---------------------------
(***************************************************************************)
(* What the loaders of the catalog promise, for all databases: that no     *)
(* address of a destroyed foreign key record outlives the loading, that a  *)
(* loaded catalog is complete and of one database each, and that the       *)
(* errors thrown are the redefinitions, all of them and no others.         *)
(*                                                                         *)
(* The first is about addresses.  A record is destroyed when its name is   *)
(* mapped already, and its address is kept nonetheless.  Then an error is  *)
(* recorded too (or the program stops), and errors are never forgotten: a  *)
(* catalog that is loaded has none, so all addresses are those of mapped   *)
(* records.  The induction is over that implication, and over what makes   *)
(* Insert map what it is given.                                            *)
(***************************************************************************)
EXTENDS MapLoader, TLAPS

Mapped ==
  /\ mapper = [kind \in Loader |-> mapper[kind]]
  /\ loader \in Loader

Live(n) == IsLive(n) /\ n.rec.rec.constraint = n.constraint

LiveOrReported ==
  /\ connection_errors = {} /\ stage # "conn_pos_asserted" =>
       \A n \in constraint_name_map : Live(n)
  /\ stage = "loaded" => connection_errors = {}
  /\ stage = "connect" => constraint_name_map = {}

LiveInv == Mapped /\ LiveOrReported

\* What is mapped stays mapped, whatever a loader inserts.
LEMMA InsertMaps ==
  ASSUME Mapped, NEW name, NEW records, NEW next, Insert(name, records, next)
  PROVE  /\ mapper' = [kind \in Loader |-> mapper'[kind]]
         /\ \A kind \in Loader : mapper[kind] \subseteq mapper'[kind]
         /\ \/ [name |-> name, conn |-> conn, recs |-> records] \in mapper'[loader]
            \/ connection_errors' # {}
            \/ stage' = "conn_pos_asserted"
         /\ connection_errors \subseteq connection_errors'
         /\ stage' = next \/ stage' = "conn_pos_asserted"
<1>1. CASE ~IsMapped(name) /\ MapName(name, records) /\ stage' = next
           /\ UNCHANGED connection_errors
  BY <1>1 DEF MapName, Mapped
<1>2. CASE IsMapped(name)
           /\ connection_errors' = connection_errors \cup {Error(loader, conn, name)}
           /\ stage' = next /\ UNCHANGED mapper
  BY <1>2 DEF Mapped
<1>3. CASE IsMapped(name) /\ conn = 1 /\ stage' = "conn_pos_asserted"
           /\ UNCHANGED << mapper, connection_errors >>
  BY <1>3 DEF Mapped
<1> QED  BY <1>1, <1>2, <1>3 DEF Insert

\* Errors are kept, and a catalog is not loaded by an insertion.
LEMMA InsertReports ==
  ASSUME Mapped, NEW name, NEW records, NEW next, Insert(name, records, next),
         next # "loaded", next # "connect"
  PROVE  connection_errors \subseteq connection_errors' /\ stage' # "loaded" /\ stage' # "connect"
<1>1. connection_errors \subseteq connection_errors'
  BY InsertMaps
<1>2. stage' = next \/ stage' = "conn_pos_asserted"
  BY InsertMaps
<1> QED  BY <1>1, <1>2

\* An address stays that of a mapped record while nothing is unmapped.
LEMMA LiveStays ==
  ASSUME NEW n, Live(n), mapper["fk"] \subseteq mapper'["fk"]
  PROVE  Live(n)'
<1>1. PICK e \in mapper["fk"] : e.conn = n.conn /\ e.recs = << n.rec >>
  BY DEF Live, IsLive
<1>2. e \in mapper'["fk"]
  OBVIOUS
<1> QED  BY <1>1, <1>2 DEF Live, IsLive

\* Actions that keep the addresses and map no less.
LEMMA AddressesKept ==
  ASSUME LiveOrReported, mapper["fk"] \subseteq mapper'["fk"],
         UNCHANGED constraint_name_map,
         stage # "conn_pos_asserted",
         connection_errors' = {} => connection_errors = {},
         stage' = "loaded" => connection_errors' = {},
         stage' # "connect"
  PROVE  LiveOrReported'
<1>1. SUFFICES ASSUME connection_errors' = {}, NEW n \in constraint_name_map
               PROVE  Live(n)'
  BY DEF LiveOrReported
<1>2. Live(n)
  BY <1>1 DEF LiveOrReported
<1> QED  BY <1>2, LiveStays

LEMMA LiveInit == Init => LiveInv
  BY DEF Init, LiveInv, Mapped, LiveOrReported, Loader

LEMMA NextLoaderType == \A kind \in Loader : NextLoader[kind] \in Loader
  BY DEF Loader, NextLoader

LEMMA LiveStep == LiveInv /\ [Next]_vars => LiveInv'
<1> SUFFICES ASSUME LiveInv, [Next]_vars
             PROVE  LiveInv'
  OBVIOUS
<1> USE DEF LiveInv
<1>m. Mapped
  OBVIOUS
<1>fk. "fk" \in Loader
  BY DEF Loader
<1>1. CASE Connect
  <2>1. Mapped' /\ mapper["fk"] \subseteq mapper'["fk"] /\ UNCHANGED constraint_name_map
    BY <1>1 DEF Connect, Mapped, fkVars
  <2>2. LiveOrReported'
    <3>1. PICK refusing \in SUBSET (1..Len(databases)) :
            /\ connection_errors' = {Error("none", c, << >>) : c \in refusing}
            /\ stage' = IF refusing = {} THEN "query" ELSE "threw"
      BY <1>1 DEF Connect
    <3>2. stage = "connect" /\ stage' # "loaded" /\ stage # "conn_pos_asserted"
      BY <1>1, <3>1 DEF Connect
    <3>3. stage' # "connect" /\ constraint_name_map' = {}
      BY <2>1, <3>1, <3>2 DEF LiveOrReported
    <3> QED  BY <3>2, <3>3 DEF LiveOrReported
  <2> QED  BY <2>1, <2>2
<1>2. CASE Query
  <2>1. Mapped' /\ mapper["fk"] \subseteq mapper'["fk"]
    BY <1>2 DEF Query, Mapped
  <2>2. LiveOrReported'
    BY <1>2, <2>1, AddressesKept DEF Query, fkVars
  <2> QED  BY <2>1, <2>2
<1>3. CASE QueryFails
  <2>1. Mapped' /\ mapper["fk"] \subseteq mapper'["fk"]
    BY <1>3 DEF QueryFails, Mapped
  <2>2. LiveOrReported'
    BY <1>3, <2>1, AddressesKept DEF QueryFails, fkVars
  <2> QED  BY <2>1, <2>2
<1>4. ASSUME NEW row \in rows, GroupRow(row)
      PROVE  LiveInv'
  <2>1. UNCHANGED << loader, constraint_name_map >> /\ stage = "rows"
    BY <1>4 DEF GroupRow, FetchRow, fkVars
  <2>2. CASE UNCHANGED << mapper, connection_errors, stage >>
    BY <2>1, <2>2, AddressesKept DEF Mapped
  <2>3. CASE Insert(last_name, recs, "rows")
    <3>1. Mapped' /\ mapper["fk"] \subseteq mapper'["fk"]
      BY <1>fk, <2>1, <2>3, InsertMaps DEF Mapped
    <3>2. connection_errors \subseteq connection_errors' /\ stage' # "loaded" /\ stage' # "connect"
      BY <1>m, <2>3, InsertReports
    <3> QED  BY <2>1, <3>1, <3>2, AddressesKept
  <2> QED  BY <1>4, <2>2, <2>3 DEF GroupRow
<1>5. ASSUME NEW row \in rows, ColumnPosAsserted(row)
      PROVE  LiveInv'
  <2>1. Mapped' /\ mapper["fk"] \subseteq mapper'["fk"] /\ stage = "rows"
    BY <1>5 DEF ColumnPosAsserted, FetchRow, Mapped
  <2>2. LiveOrReported'
    BY <1>5, <2>1, AddressesKept DEF ColumnPosAsserted, fkVars
  <2> QED  BY <2>1, <2>2
<1>6. ASSUME NEW row \in rows, PkRow(row)
      PROVE  LiveInv'
  <2>1. UNCHANGED << loader, constraint_name_map >> /\ stage = "rows"
    BY <1>6 DEF PkRow, FetchRow, fkVars
  <2>2. Insert(Normalized(row.name), << row >>, "rows")
    BY <1>6 DEF PkRow
  <2>3. Mapped' /\ mapper["fk"] \subseteq mapper'["fk"]
    BY <1>fk, <2>1, <2>2, InsertMaps DEF Mapped
  <2>4. connection_errors \subseteq connection_errors' /\ stage' # "loaded" /\ stage' # "connect"
    BY <1>m, <2>2, InsertReports
  <2> QED  BY <2>1, <2>3, <2>4, AddressesKept
<1>7. ASSUME NEW row \in rows, FkRow(row)
      PROVE  LiveInv'
  <2> DEFINE address == [constraint |-> row.rec.constraint, conn |-> conn, rec |-> row]
  <2>1. loader = "fk" /\ UNCHANGED << loader, conn >> /\ stage = "rows"
    BY <1>7 DEF FkRow, FetchRow
  <2>2. Insert(Normalized(row.name), << row >>, "rows")
    BY <1>7 DEF FkRow
  <2>3. Mapped' /\ mapper["fk"] \subseteq mapper'["fk"]
    BY <1>fk, <2>1, <2>2, InsertMaps DEF Mapped
  <2>4. connection_errors \subseteq connection_errors' /\ stage' # "loaded" /\ stage' # "connect"
    BY <1>m, <2>2, InsertReports
  <2>5. constraint_name_map' \subseteq constraint_name_map \cup {address}
    BY <1>7 DEF FkRow
  <2>6. SUFFICES ASSUME connection_errors' = {}, stage' # "conn_pos_asserted",
                        NEW n \in constraint_name_map'
                 PROVE  Live(n)'
    BY <2>3, <2>4 DEF LiveOrReported
  <2>7. CASE n \in constraint_name_map
    <3>1. Live(n)
      BY <2>1, <2>4, <2>6, <2>7 DEF LiveOrReported
    <3> QED  BY <2>3, <3>1, LiveStays
  <2>8. CASE n = address
    <3> DEFINE e == [name |-> Normalized(row.name), conn |-> conn, recs |-> << row >>]
    <3>1. e \in mapper'["fk"]
      BY <2>1, <2>2, <2>6, InsertMaps
    <3>2. e.conn = n.conn /\ e.recs = << n.rec >> /\ n.rec.rec.constraint = n.constraint
      BY <2>8
    <3> QED  BY <3>1, <3>2 DEF Live, IsLive
  <2> QED  BY <2>5, <2>7, <2>8
<1>8. CASE EndOfRows
  <2>1. loader' \in Loader
    BY <1>8, NextLoaderType DEF EndOfRows, NextQuery, Mapped
  <2>2. UNCHANGED constraint_name_map /\ stage = "rows"
    BY <1>8 DEF EndOfRows, fkVars
  <2>3. CASE stage' = StageAfter /\ UNCHANGED << mapper, connection_errors >>
    <3>1. Mapped' /\ stage' \notin {"loaded", "connect"}
      BY <2>1, <2>3 DEF Mapped, StageAfter
    <3> QED  BY <2>2, <2>3, <3>1, AddressesKept
  <2>4. CASE Insert(last_name, recs, StageAfter)
    <3>1. Mapped' /\ mapper["fk"] \subseteq mapper'["fk"]
      BY <1>fk, <2>1, <2>4, InsertMaps DEF Mapped
    <3>2. connection_errors \subseteq connection_errors' /\ stage' # "loaded" /\ stage' # "connect"
      BY <1>m, <2>4, InsertReports DEF StageAfter
    <3> QED  BY <2>2, <3>1, <3>2, AddressesKept
  <2> QED  BY <1>8, <2>3, <2>4 DEF EndOfRows
<1>9. CASE Finish
  <2>1. Mapped' /\ mapper["fk"] \subseteq mapper'["fk"]
    BY <1>9 DEF Finish, Mapped
  <2>2. LiveOrReported'
    BY <1>9, <2>1, AddressesKept DEF Finish, fkVars
  <2> QED  BY <2>1, <2>2
<1>10. CASE UNCHANGED vars
  BY <1>10 DEF vars, fkVars, Mapped, LiveOrReported, Live, IsLive
<1> QED
  BY <1>1, <1>2, <1>3, <1>4, <1>5, <1>6, <1>7, <1>8, <1>9, <1>10 DEF Next

(***************************************************************************)
(* The addresses in constraint_name_map of a loaded catalog are those of   *)
(* mapped records (sqlsvr_ddl_fk_map_loader::load_fk_mapper).              *)
(***************************************************************************)
THEOREM NoDanglingRecordCorrect == Spec => []NoDanglingRecord
<1>1. LiveInv => NoDanglingRecord
  BY DEF LiveInv, LiveOrReported, NoDanglingRecord, Live
<1> QED  BY <1>1, LiveInit, LiveStep, PTL DEF Spec
-------------------------------------------------------------------------------
(***************************************************************************)
(* Types.  What a query selects is made of the names of its database, and  *)
(* so is what the loaders map and report.  The rows collected are rows of  *)
(* the query at work.                                                      *)
(***************************************************************************)

\* The joins of a database's constraints with the columns they use.
LEMMA JoinType ==
  ASSUME NEW db \in Database, NEW type, NEW j \in Joined(db, type)
  PROVE  /\ j.constraint \in db.constraints
         /\ j.usage.column \in Name
         /\ j.constraint.schema \in Name /\ j.constraint.table \in Name
         /\ j.constraint.name \in Name
<1>1. j.constraint \in OfType(db, type) /\ j.usage \in Usages(db)
  BY DEF Joined
<1>2. j.constraint \in db.constraints
  BY <1>1 DEF OfType
<1>3. PICK k \in db.constraints : j.usage \in {[constraint |-> k, column |-> c] : c \in k.columns}
  BY <1>1 DEF Usages
<1>4. db.constraints \subseteq
        [type : {"check", "unique", "primary_key"}, schema : Name, table : Name,
         name : Name, columns : SUBSET Name]
  BY DatabaseAssumption DEF IsDatabase
<1>5. j.usage.column \in k.columns
  BY <1>3
<1>6. k.columns \subseteq Name
  BY <1>3, <1>4
<1> QED  BY <1>2, <1>4, <1>5, <1>6

LEMMA JoinedRowType ==
  ASSUME NEW db \in Database, NEW type, NEW j \in Joined(db, type), NEW of
  PROVE  /\ JoinedRow(j, of).name \in Name \X Name \X Name
         /\ JoinedRow(j, of).rec \in Name
  BY JoinType DEF JoinedRow, RowOf

IsRow(kind, row) ==
  /\ row.name \in IF kind = "tc" THEN Name \X Name ELSE Name \X Name \X Name
  /\ kind = "tc" => row.rec.pos \in Nat
  /\ kind \in {"ck", "uq"} => row.rec \in Name
  /\ kind = "fk" => row.rec.constraint \in Name /\ row.rec.ref \in Name \X Name \X Name

LEMMA RowType ==
  ASSUME NEW db \in Database, NEW kind \in Loader, NEW row \in Rows(kind, db)
  PROVE  IsRow(kind, row)
<1>1. CASE kind = "ck"
  <2>1. row \in CkRows(db)
    BY <1>1 DEF Rows
  <2>2. PICK j \in Joined(db, "check") :
          row \in {JoinedRow(j, <<j, k>>) :
                     k \in {l \in OfType(db, "check") : l.name = j.constraint.name}}
    BY <2>1 DEF CkRows
  <2>3. PICK of : row = JoinedRow(j, of)
    BY <2>2
  <2> QED  BY <1>1, <2>3, JoinedRowType DEF IsRow
<1>2. CASE kind = "pk"
  <2>1. row \in PkRows(db)
    BY <1>2 DEF Rows
  <2>2. PICK j \in Joined(db, "primary_key") : row = JoinedRow(j, j)
    BY <2>1 DEF PkRows
  <2> QED  BY <1>2, <2>2, JoinedRowType DEF IsRow
<1>3. CASE kind = "uq"
  <2>1. row \in UqRows(db)
    BY <1>3 DEF Rows
  <2>2. PICK j \in Joined(db, "unique") : row = JoinedRow(j, j)
    BY <2>1 DEF UqRows
  <2> QED  BY <1>3, <2>2, JoinedRowType DEF IsRow
<1>4. CASE kind = "fk"
  <2>1. row \in FkRows(db)
    BY <1>4 DEF Rows
  <2>2. PICK f \in db.foreign_keys :
          row = RowOf(<<f.schema, f.table, f.column>>,
                      [constraint |-> f.name, ref |-> f.ref], f)
    BY <2>1 DEF FkRows
  <2>3. f \in [schema : Name, table : Name, column : Name, name : Name,
               ref : Name \X Name \X Name]
    BY DatabaseAssumption DEF IsDatabase
  <2> QED  BY <1>4, <2>2, <2>3 DEF IsRow, RowOf
<1>5. CASE kind = "tc"
  <2>1. row \in TcRows(db)
    BY <1>5 DEF Rows
  <2>2. PICK c \in db.columns :
          row = RowOf(<<c.schema, c.table>>, [column |-> c.column, pos |-> c.pos], c)
    BY <2>1 DEF TcRows
  <2>3. c \in [schema : Name, table : Name, column : Name, pos : Nat]
    BY DatabaseAssumption DEF IsDatabase
  <2> QED  BY <1>5, <2>2, <2>3 DEF IsRow, RowOf
<1> QED  BY <1>1, <1>2, <1>3, <1>4, <1>5 DEF Loader

LEMMA NormalizedType ==
  ASSUME NEW names \in Seq(Name)
  PROVE  Normalized(names) \in Seq(Name)
<1> DEFINE parts == [i \in DOMAIN names |-> Normal[names[i]]]
<1>1. CASE \E i \in DOMAIN parts : parts[i] = Invalid
  BY <1>1 DEF Normalized
<1>2. CASE \A i \in DOMAIN parts : parts[i] # Invalid
  <2>1. parts \in [1..Len(names) -> Name]
    BY <1>2, NameAssumption
  <2>2. Len(names) \in Nat
    OBVIOUS
  <2>3. parts \in Seq(Name)
    BY <2>1, <2>2
  <2> QED  BY <1>2, <2>3 DEF Normalized
<1> QED  BY <1>1, <1>2

\* A pair or a triple is a sequence.
LEMMA TupleIsSequence ==
  ASSUME NEW S
  PROVE  S \X S \subseteq Seq(S) /\ S \X S \X S \subseteq Seq(S)
<1>1. ASSUME NEW t \in S \X S
      PROVE  t \in Seq(S)
  <2>1. PICK a \in S, b \in S : t = << a, b >>
    BY <1>1
  <2>2. << a, b >> \in Seq(S)
    OBVIOUS
  <2> QED  BY <2>1, <2>2
<1>2. ASSUME NEW t \in S \X S \X S
      PROVE  t \in Seq(S)
  <2>1. PICK a \in S, b \in S, c \in S : t = << a, b, c >>
    BY <1>2
  <2>2. << a, b, c >> \in Seq(S)
    OBVIOUS
  <2> QED  BY <2>1, <2>2
<1> QED  BY <1>1, <1>2

LEMMA RowNameType ==
  ASSUME NEW db \in Database, NEW kind \in Loader, NEW row \in Rows(kind, db)
  PROVE  Normalized(row.name) \in Seq(Name)
<1>1. row.name \in Name \X Name \/ row.name \in Name \X Name \X Name
  BY RowType DEF IsRow
<1>2. row.name \in Seq(Name)
  BY <1>1, TupleIsSequence
<1> QED  BY <1>2, NormalizedType

EntryTyped(e, kind, dbs) ==
  /\ e.name \in Seq(Name)
  /\ e.conn \in 1..Len(dbs)
  /\ e.recs \in Seq(Rows(kind, dbs[e.conn]))
MapperTyped(m, dbs) == \A kind \in Loader : \A e \in m[kind] : EntryTyped(e, kind, dbs)
ErrorTyped(x, dbs) ==
  x \in [loader : Loader \cup {"none"}, conn : 1..Len(dbs), name : Seq(Name)]
ErrorsTyped(errs, dbs) == \A x \in errs : ErrorTyped(x, dbs)
AddressesTyped(ns, dbs) == \A n \in ns : n.rec \in FkRows(dbs[n.conn])
ReversesTyped(rs) == rs \subseteq [ref : Seq(Name), constraint : Name, name : Seq(Name)]

WhereTyped ==
  /\ databases \in Seq(Database)
  /\ stage \in Stage
  /\ loader \in Loader
  /\ conn \in 1..Len(databases)
RowsTyped ==
  /\ stage = "rows" => rows \subseteq Rows(loader, databases[conn])
  /\ last_name \in Seq(Name)
  /\ last_column_pos \in Nat
  /\ recs # << >> => loader \in Grouped \/ stage # "rows"
  /\ stage = "rows" => recs \in Seq(Rows(loader, databases[conn]))
MapsTyped ==
  /\ Mapped
  /\ MapperTyped(mapper, databases)
  /\ AddressesTyped(constraint_name_map, databases)
  /\ ReversesTyped(reverse_map)
  /\ ErrorsTyped(connection_errors, databases)

TypeInv == WhereTyped /\ RowsTyped /\ MapsTyped

\* What an insertion changes, item by item.
LEMMA InsertChanges ==
  ASSUME Mapped, NEW name, NEW records, NEW next, Insert(name, records, next)
  PROVE  LET new == [name |-> name, conn |-> conn, recs |-> records]
         IN /\ \A kind \in Loader : \A e \in mapper'[kind] :
                 e \in mapper[kind] \/ (kind = loader /\ e = new /\ ~IsMapped(name))
            /\ \A x \in connection_errors' :
                 \/ x \in connection_errors
                 \/ x = Error(loader, conn, name) /\ IsMapped(name)
            /\ \/ stage' = next
               \/ stage' = "conn_pos_asserted" /\ conn = 1 /\ IsMapped(name)
            /\ \/ new \in mapper'[loader]
               \/ Error(loader, conn, name) \in connection_errors' /\ IsMapped(name)
               \/ stage' = "conn_pos_asserted"
<1> DEFINE new == [name |-> name, conn |-> conn, recs |-> records]
<1>1. CASE ~IsMapped(name) /\ MapName(name, records) /\ stage' = next
           /\ UNCHANGED connection_errors
  <2>1. \A kind \in Loader :
          mapper'[kind] = IF kind = loader THEN mapper[kind] \cup {new} ELSE mapper[kind]
    BY <1>1 DEF MapName, Mapped
  <2> QED  BY <1>1, <2>1 DEF Mapped
<1>2. CASE IsMapped(name)
           /\ connection_errors' = connection_errors \cup {Error(loader, conn, name)}
           /\ stage' = next /\ UNCHANGED mapper
  BY <1>2
<1>3. CASE IsMapped(name) /\ conn = 1 /\ stage' = "conn_pos_asserted"
           /\ UNCHANGED << mapper, connection_errors >>
  BY <1>3
<1> QED  BY <1>1, <1>2, <1>3 DEF Insert

\* An insertion keeps the types.
LEMMA InsertTyped ==
  ASSUME WhereTyped, MapsTyped, NEW name \in Seq(Name),
         NEW records \in Seq(Rows(loader, databases[conn])), NEW next,
         Insert(name, records, next), UNCHANGED databases
  PROVE  /\ MapperTyped(mapper', databases')
         /\ ErrorsTyped(connection_errors', databases')
         /\ stage' = next \/ stage' = "conn_pos_asserted"
<1> DEFINE new == [name |-> name, conn |-> conn, recs |-> records]
<1>m. Mapped
  BY DEF MapsTyped
<1>1. MapperTyped(mapper', databases')
  <2> SUFFICES ASSUME NEW kind \in Loader, NEW e \in mapper'[kind]
               PROVE  EntryTyped(e, kind, databases)
    BY DEF MapperTyped
  <2>1. e \in mapper[kind] \/ (kind = loader /\ e = new)
    BY <1>m, InsertChanges
  <2>2. EntryTyped(new, loader, databases)
    BY DEF EntryTyped, WhereTyped
  <2> QED  BY <2>1, <2>2 DEF MapsTyped, MapperTyped
<1>2. ErrorsTyped(connection_errors', databases')
  <2> SUFFICES ASSUME NEW x \in connection_errors'
               PROVE  ErrorTyped(x, databases)
    BY DEF ErrorsTyped
  <2>1. x \in connection_errors \/ x = Error(loader, conn, name)
    BY <1>m, InsertChanges
  <2>2. ErrorTyped(Error(loader, conn, name), databases)
    BY DEF ErrorTyped, Error, WhereTyped
  <2> QED  BY <2>1, <2>2 DEF MapsTyped, ErrorsTyped
<1>3. stage' = next \/ stage' = "conn_pos_asserted"
  BY <1>m, InsertMaps
<1> QED  BY <1>1, <1>2, <1>3

\* A row that is fetched, and the query it is of.
LEMMA FetchedRow ==
  ASSUME TypeInv, NEW row \in rows, FetchRow(row)
  PROVE  /\ row \in Rows(loader, databases[conn])
         /\ IsRow(loader, row)
         /\ Normalized(row.name) \in Seq(Name)
         /\ databases[conn] \in Database
         /\ rows' \subseteq Rows(loader, databases[conn])
         /\ stage = "rows" /\ loader \in Loader /\ rows' = rows \ {row}
         /\ UNCHANGED << databases, loader, conn >>
<1>1. databases[conn] \in Database /\ loader \in Loader
  BY DEF TypeInv, WhereTyped
<1>2. row \in Rows(loader, databases[conn]) /\ rows \subseteq Rows(loader, databases[conn])
  BY DEF TypeInv, RowsTyped, FetchRow
<1> QED  BY <1>1, <1>2, RowType, RowNameType DEF FetchRow

LEMMA TypeInit == Init => TypeInv
<1> SUFFICES ASSUME Init
             PROVE  TypeInv
  OBVIOUS
<1>1. PICK n \in 1..MaxDatabases : databases \in [1..n -> Database]
  BY DEF Init
<1>2. n \in Nat \ {0}
  BY MaxDatabasesAssumption
<1>3. databases \in Seq(Database) /\ 1 \in 1..Len(databases)
  BY <1>1, <1>2
<1>4. WhereTyped
  BY <1>3 DEF Init, WhereTyped, Stage, Loader
<1>5. RowsTyped
  BY DEF Init, RowsTyped
<1>6. MapsTyped
  BY DEF Init, MapsTyped, Mapped, MapperTyped, AddressesTyped, ReversesTyped, ErrorsTyped, Loader
<1> QED  BY <1>4, <1>5, <1>6 DEF TypeInv

\* The next query is of a loader and a database too.
LEMMA NextQueryTyped ==
  ASSUME WhereTyped, NextQuery
  PROVE  loader' \in Loader /\ conn' \in 1..Len(databases)
  BY NextLoaderType DEF WhereTyped, NextQuery

LEMMA TypeStep == TypeInv /\ [Next]_vars => TypeInv'
<1> SUFFICES ASSUME TypeInv, [Next]_vars
             PROVE  TypeInv'
  OBVIOUS
<1>t. WhereTyped /\ RowsTyped /\ MapsTyped
  BY DEF TypeInv
<1>d. databases[conn] \in Database /\ loader \in Loader
  BY <1>t DEF WhereTyped
<1>1. CASE Connect
  <2>1. PICK refusing \in SUBSET (1..Len(databases)) :
          /\ connection_errors' = {Error("none", c, << >>) : c \in refusing}
          /\ stage' = IF refusing = {} THEN "query" ELSE "threw"
    BY <1>1 DEF Connect
  <2>2. UNCHANGED << databases, loader, conn, rows, groupVars, mapper, fkVars >>
    BY <1>1 DEF Connect
  <2>3. WhereTyped'
    BY <1>t, <2>1, <2>2 DEF WhereTyped, Stage
  <2>4. RowsTyped'
    BY <1>t, <2>1, <2>2 DEF RowsTyped, groupVars
  <2>5. ErrorsTyped(connection_errors', databases')
    <3> SUFFICES ASSUME NEW x \in connection_errors'
                 PROVE  ErrorTyped(x, databases)
      BY <2>2 DEF ErrorsTyped
    <3>1. PICK c \in refusing : x = Error("none", c, << >>)
      BY <2>1
    <3> QED  BY <3>1 DEF ErrorTyped, Error
  <2>6. MapsTyped'
    BY <1>t, <2>2, <2>5 DEF MapsTyped, Mapped, fkVars
  <2> QED  BY <2>3, <2>4, <2>6 DEF TypeInv
<1>2. CASE Query
  <2>1. WhereTyped'
    BY <1>t, <1>2 DEF Query, WhereTyped, Stage
  <2>2. RowsTyped'
    BY <1>2 DEF Query, RowsTyped
  <2>3. MapsTyped'
    BY <1>t, <1>2 DEF Query, MapsTyped, Mapped, fkVars
  <2> QED  BY <2>1, <2>2, <2>3 DEF TypeInv
<1>3. CASE QueryFails
  <2>1. WhereTyped'
    BY <1>t, <1>3 DEF QueryFails, WhereTyped, Stage
  <2>2. RowsTyped'
    BY <1>t, <1>3 DEF QueryFails, RowsTyped, groupVars
  <2>3. MapsTyped'
    BY <1>t, <1>3 DEF QueryFails, MapsTyped, Mapped, fkVars
  <2> QED  BY <2>1, <2>2, <2>3 DEF TypeInv
<1>4. ASSUME NEW row \in rows, GroupRow(row)
      PROVE  TypeInv'
  <2>f. FetchRow(row) /\ loader \in Grouped
    BY <1>4 DEF GroupRow
  <2>1. /\ row \in Rows(loader, databases[conn])
        /\ IsRow(loader, row)
        /\ Normalized(row.name) \in Seq(Name)
        /\ rows' \subseteq Rows(loader, databases[conn])
        /\ stage = "rows" /\ UNCHANGED << databases, loader, conn >>
    BY <2>f, FetchedRow
  <2>2. last_name' \in Seq(Name) /\ last_column_pos' \in Nat
    BY <1>4, <2>1 DEF GroupRow, IsRow
  <2>3. recs \in Seq(Rows(loader, databases[conn]))
    BY <1>t, <2>1 DEF RowsTyped
  <2>4. UNCHANGED fkVars
    BY <1>4 DEF GroupRow
  <2>5. CASE recs' = Append(recs, row) /\ UNCHANGED << mapper, connection_errors, stage >>
    <3>1. WhereTyped'
      BY <1>t, <2>1, <2>5 DEF WhereTyped
    <3>2. RowsTyped'
      BY <2>f, <2>1, <2>2, <2>3, <2>5 DEF RowsTyped
    <3>3. MapsTyped'
      BY <1>t, <2>1, <2>4, <2>5 DEF MapsTyped, Mapped, fkVars
    <3> QED  BY <3>1, <3>2, <3>3 DEF TypeInv
  <2>6. CASE recs' = << row >> /\ Insert(last_name, recs, "rows")
    <3>0. last_name \in Seq(Name)
      BY <1>t DEF RowsTyped
    <3>1. /\ MapperTyped(mapper', databases')
          /\ ErrorsTyped(connection_errors', databases')
          /\ stage' = "rows" \/ stage' = "conn_pos_asserted"
      BY <1>t, <2>1, <2>3, <2>6, <3>0, InsertTyped
    <3>2. Mapped'
      BY <1>t, <2>1, <2>6, InsertMaps DEF MapsTyped, Mapped
    <3>3. WhereTyped'
      BY <1>t, <2>1, <3>1 DEF WhereTyped, Stage
    <3>4. RowsTyped'
      BY <2>f, <2>1, <2>2, <2>6 DEF RowsTyped
    <3>5. MapsTyped'
      BY <1>t, <2>1, <2>4, <3>1, <3>2 DEF MapsTyped, fkVars
    <3> QED  BY <3>3, <3>4, <3>5 DEF TypeInv
  <2> QED  BY <1>4, <2>5, <2>6 DEF GroupRow
<1>5. ASSUME NEW row \in rows, ColumnPosAsserted(row)
      PROVE  TypeInv'
  <2>1. UNCHANGED << databases, loader, conn, groupVars, mapper, fkVars, connection_errors >>
        /\ stage' = "column_pos_asserted"
    BY <1>5 DEF ColumnPosAsserted, FetchRow
  <2>2. WhereTyped'
    BY <1>t, <2>1 DEF WhereTyped, Stage
  <2>3. RowsTyped'
    BY <1>t, <2>1 DEF RowsTyped, groupVars
  <2>4. MapsTyped'
    BY <1>t, <2>1 DEF MapsTyped, Mapped, fkVars
  <2> QED  BY <2>2, <2>3, <2>4 DEF TypeInv
<1>6. ASSUME NEW row \in rows, PkRow(row)
      PROVE  TypeInv'
  <2>f. FetchRow(row) /\ loader = "pk" /\ Insert(Normalized(row.name), << row >>, "rows")
        /\ UNCHANGED << groupVars, fkVars >>
    BY <1>6 DEF PkRow
  <2>1. /\ row \in Rows(loader, databases[conn])
        /\ Normalized(row.name) \in Seq(Name)
        /\ rows' \subseteq Rows(loader, databases[conn])
        /\ stage = "rows" /\ UNCHANGED << databases, loader, conn >>
    BY <2>f, FetchedRow
  <2>2. << row >> \in Seq(Rows(loader, databases[conn]))
    BY <2>1
  <2>3. /\ MapperTyped(mapper', databases')
        /\ ErrorsTyped(connection_errors', databases')
        /\ stage' = "rows" \/ stage' = "conn_pos_asserted"
    BY <1>t, <2>f, <2>1, <2>2, InsertTyped
  <2>4. Mapped'
    BY <1>t, <2>f, <2>1, InsertMaps DEF MapsTyped, Mapped
  <2>5. WhereTyped'
    BY <1>t, <2>1, <2>3 DEF WhereTyped, Stage
  <2>6. RowsTyped'
    BY <1>t, <2>f, <2>1 DEF RowsTyped, groupVars
  <2>7. MapsTyped'
    BY <1>t, <2>f, <2>1, <2>3, <2>4 DEF MapsTyped, fkVars
  <2> QED  BY <2>5, <2>6, <2>7 DEF TypeInv
<1>7. ASSUME NEW row \in rows, FkRow(row)
      PROVE  TypeInv'
  <2> DEFINE address == [constraint |-> row.rec.constraint, conn |-> conn, rec |-> row]
             reverse == [ref |-> Normalized(row.rec.ref), constraint |-> row.rec.constraint,
                         name |-> Normalized(row.name)]
  <2>f. FetchRow(row) /\ loader = "fk" /\ Insert(Normalized(row.name), << row >>, "rows")
        /\ UNCHANGED groupVars
    BY <1>7 DEF FkRow
  <2>1. /\ row \in Rows(loader, databases[conn])
        /\ IsRow(loader, row)
        /\ Normalized(row.name) \in Seq(Name)
        /\ rows' \subseteq Rows(loader, databases[conn])
        /\ stage = "rows" /\ UNCHANGED << databases, loader, conn >>
    BY <2>f, FetchedRow
  <2>2. << row >> \in Seq(Rows(loader, databases[conn]))
    BY <2>1
  <2>3. /\ MapperTyped(mapper', databases')
        /\ ErrorsTyped(connection_errors', databases')
        /\ stage' = "rows" \/ stage' = "conn_pos_asserted"
    BY <1>t, <2>f, <2>1, <2>2, InsertTyped
  <2>4. Mapped'
    BY <1>t, <2>f, <2>1, InsertMaps DEF MapsTyped, Mapped
  <2>5. WhereTyped'
    BY <1>t, <2>1, <2>3 DEF WhereTyped, Stage
  <2>6. RowsTyped'
    BY <1>t, <2>f, <2>1 DEF RowsTyped, groupVars
  <2>7. AddressesTyped(constraint_name_map', databases')
    <3>1. constraint_name_map' \subseteq constraint_name_map \cup {address}
      BY <1>7 DEF FkRow
    <3>2. row \in FkRows(databases[conn])
      BY <2>f, <2>1 DEF Rows
    <3> QED  BY <1>t, <2>1, <3>1, <3>2 DEF MapsTyped, AddressesTyped
  <2>8. ReversesTyped(reverse_map')
    <3>1. reverse_map' = reverse_map \cup {reverse}
      BY <1>7 DEF FkRow
    <3>2. row.rec.constraint \in Name /\ row.rec.ref \in Name \X Name \X Name
      BY <2>f, <2>1 DEF IsRow
    <3>3. row.rec.ref \in Seq(Name)
      BY <3>2, TupleIsSequence
    <3>4. Normalized(row.rec.ref) \in Seq(Name)
      BY <3>3, NormalizedType
    <3> QED  BY <1>t, <2>1, <3>1, <3>2, <3>4 DEF MapsTyped, ReversesTyped
  <2>9. MapsTyped'
    BY <2>3, <2>4, <2>7, <2>8 DEF MapsTyped
  <2> QED  BY <2>5, <2>6, <2>9 DEF TypeInv
<1>8. CASE EndOfRows
  <2>1. loader' \in Loader /\ conn' \in 1..Len(databases) /\ stage = "rows"
    BY <1>t, <1>8, NextQueryTyped DEF EndOfRows
  <2>2. UNCHANGED << databases, rows, groupVars, fkVars >>
    BY <1>8 DEF EndOfRows
  <2>3. StageAfter \in Stage /\ StageAfter # "rows"
    BY DEF StageAfter, Stage
  <2>4. CASE stage' = StageAfter /\ UNCHANGED << mapper, connection_errors >>
    <3>1. WhereTyped'
      BY <1>t, <2>1, <2>2, <2>3, <2>4 DEF WhereTyped
    <3>2. RowsTyped'
      BY <1>t, <2>2, <2>3, <2>4 DEF RowsTyped, groupVars
    <3>3. MapsTyped'
      BY <1>t, <2>1, <2>2, <2>4 DEF MapsTyped, Mapped, fkVars
    <3> QED  BY <3>1, <3>2, <3>3 DEF TypeInv
  <2>5. CASE Insert(last_name, recs, StageAfter)
    <3>0. last_name \in Seq(Name) /\ recs \in Seq(Rows(loader, databases[conn]))
      BY <1>t, <2>1 DEF RowsTyped
    <3>1. /\ MapperTyped(mapper', databases')
          /\ ErrorsTyped(connection_errors', databases')
          /\ stage' = StageAfter \/ stage' = "conn_pos_asserted"
      BY <1>t, <2>2, <2>5, <3>0, InsertTyped
    <3>2. Mapped'
      BY <1>t, <2>1, <2>5, InsertMaps DEF MapsTyped, Mapped
    <3>3. stage' \in Stage /\ stage' # "rows"
      BY <2>3, <3>1 DEF Stage
    <3>4. WhereTyped'
      BY <1>t, <2>1, <2>2, <3>3 DEF WhereTyped
    <3>5. RowsTyped'
      BY <1>t, <2>2, <3>3 DEF RowsTyped, groupVars
    <3>6. MapsTyped'
      BY <1>t, <2>2, <3>1, <3>2 DEF MapsTyped, fkVars
    <3> QED  BY <3>4, <3>5, <3>6 DEF TypeInv
  <2> QED  BY <1>8, <2>4, <2>5 DEF EndOfRows
<1>9. CASE Finish
  <2>1. WhereTyped'
    BY <1>t, <1>9 DEF Finish, WhereTyped, Stage
  <2>2. RowsTyped'
    BY <1>t, <1>9 DEF Finish, RowsTyped, groupVars
  <2>3. MapsTyped'
    BY <1>t, <1>9 DEF Finish, MapsTyped, Mapped, fkVars
  <2> QED  BY <2>1, <2>2, <2>3 DEF TypeInv
<1>10. CASE UNCHANGED vars
  BY <1>t, <1>10 DEF vars, groupVars, fkVars, TypeInv, WhereTyped, RowsTyped, MapsTyped, Mapped
<1> QED
  BY <1>1, <1>2, <1>3, <1>4, <1>5, <1>6, <1>7, <1>8, <1>9, <1>10 DEF Next

(***************************************************************************)
(* The maps, addresses and errors of the loaders are made of the rows and  *)
(* the names of the databases they are said to be of.                      *)
(***************************************************************************)
THEOREM TypeCorrect == Spec => []TypeOK
<1>1. TypeInv => TypeOK
  <2> SUFFICES ASSUME TypeInv
               PROVE  TypeOK
    OBVIOUS
  <2>1. DOMAIN mapper = Loader
    BY DEF TypeInv, MapsTyped, Mapped
  <2>2. \A kind \in Loader : \A e \in mapper[kind] :
          /\ e.name \in Seq(Name)
          /\ e.conn \in 1..Len(databases)
          /\ e.recs \in Seq(Rows(kind, databases[e.conn]))
    BY DEF TypeInv, MapsTyped, MapperTyped, EntryTyped
  <2>3. connection_errors \subseteq
          [loader : Loader \cup {"none"}, conn : 1..Len(databases), name : Seq(Name)]
    BY DEF TypeInv, MapsTyped, ErrorsTyped, ErrorTyped
  <2>4. /\ \A n \in constraint_name_map : n.rec \in FkRows(databases[n.conn])
        /\ reverse_map \subseteq [ref : Seq(Name), constraint : Name, name : Seq(Name)]
    BY DEF TypeInv, MapsTyped, AddressesTyped, ReversesTyped
  <2> QED  BY <2>1, <2>2, <2>3, <2>4 DEF TypeInv, WhereTyped, RowsTyped, TypeOK
<1> QED  BY <1>1, TypeInit, TypeStep, PTL DEF Spec
-------------------------------------------------------------------------------
(***************************************************************************)
(* What a loaded catalog holds.  The loaders and databases are queried in  *)
(* order, and every row of a query that has ended was handled: its name is *)
(* mapped, and unless there are errors it is among the records of an entry *)
(* that its own database made; a database before that has the name means   *)
(* an error was recorded.  So is every row fetched of the query at work,   *)
(* but for those of the group that is still collected.                     *)
(***************************************************************************)
IndexOf == [ck |-> 1, fk |-> 2, pk |-> 3, uq |-> 4, tc |-> 5]
Earlier(kind, c, l, n) == IndexOf[kind] < IndexOf[l] \/ (kind = l /\ c < n)

Has(kind, c, name, dbs) == \E r \in Rows(kind, dbs[c]) : Normalized(r.name) = name
Among(row, s) == \E i \in DOMAIN s : s[i] = row

Handled(kind, c, row, dbs, m, errs) ==
  /\ \E e \in m[kind] : e.name = Normalized(row.name)
  /\ errs = {} =>
       \E e \in m[kind] :
         e.name = Normalized(row.name) /\ e.conn = c /\ Among(row, e.recs)
  /\ \A d \in 1..(c - 1) :
       Has(kind, d, Normalized(row.name), dbs) =>
         Error(kind, c, Normalized(row.name)) \in errs
QueryHandled(kind, c, dbs, m, errs) ==
  \A row \in Rows(kind, dbs[c]) : Handled(kind, c, row, dbs, m, errs)
AllHandled(dbs, m, errs) ==
  \A kind \in Loader, c \in 1..Len(dbs) : QueryHandled(kind, c, dbs, m, errs)
EarlierHandled(l, n, dbs, m, errs) ==
  \A kind \in Loader, c \in 1..Len(dbs) :
    Earlier(kind, c, l, n) => QueryHandled(kind, c, dbs, m, errs)
FetchedHandled(l, n, rws, s, dbs, m, errs) ==
  \A row \in Rows(l, dbs[n]) : row \in rws \/ Among(row, s) \/ Handled(l, n, row, dbs, m, errs)

\* The records under a name are rows of that name, of one database.
RowsOfName(s, name, rws) == \A i \in DOMAIN s : s[i] \in rws /\ Normalized(s[i].name) = name
EntriesOfNames(kind, dbs, m) == \A e \in m[kind] : RowsOfName(e.recs, e.name, Rows(kind, dbs[e.conn]))
NamesUnique(entries) == \A e, f \in entries : e.name = f.name => e = f
EntriesSound(dbs, m) ==
  \A kind \in Loader : EntriesOfNames(kind, dbs, m) /\ NamesUnique(m[kind])

NoneRefused(errs) == \A x \in errs : x.loader # "none"

CatalogInv ==
  /\ stage = "connect" => loader = "ck" /\ conn = 1
  /\ EntriesSound(databases, mapper)
  /\ stage = "rows" =>
       /\ RowsOfName(recs, last_name, Rows(loader, databases[conn]))
       /\ FetchedHandled(loader, conn, rows, recs, databases, mapper, connection_errors)
  /\ stage \in {"query", "rows"} =>
       EarlierHandled(loader, conn, databases, mapper, connection_errors)
  /\ stage \in {"finish", "loaded"} => AllHandled(databases, mapper, connection_errors)
  /\ stage = "threw" /\ NoneRefused(connection_errors) =>
       AllHandled(databases, mapper, connection_errors)
  /\ stage = "loaded" => connection_errors = {}

\* What was handled stays so, while nothing is unmapped and no error forgotten.
LEMMA HandledStays ==
  ASSUME NEW kind \in Loader, NEW c, NEW row, NEW dbs, NEW m, NEW n, NEW errs, NEW more,
         Handled(kind, c, row, dbs, m, errs),
         m[kind] \subseteq n[kind], errs \subseteq more
  PROVE  Handled(kind, c, row, dbs, n, more)
  BY DEF Handled

LEMMA QueriesStayHandled ==
  ASSUME NEW dbs, NEW m, NEW n, NEW errs, NEW more,
         \A kind \in Loader : m[kind] \subseteq n[kind], errs \subseteq more
  PROVE  /\ AllHandled(dbs, m, errs) => AllHandled(dbs, n, more)
         /\ \A l \in Loader : \A k :
              EarlierHandled(l, k, dbs, m, errs) => EarlierHandled(l, k, dbs, n, more)
<1>1. ASSUME NEW kind \in Loader, NEW c, QueryHandled(kind, c, dbs, m, errs)
      PROVE  QueryHandled(kind, c, dbs, n, more)
  <2> SUFFICES ASSUME NEW row \in Rows(kind, dbs[c])
               PROVE  Handled(kind, c, row, dbs, n, more)
    BY DEF QueryHandled
  <2>1. Handled(kind, c, row, dbs, m, errs)
    BY <1>1 DEF QueryHandled
  <2>2. m[kind] \subseteq n[kind]
    OBVIOUS
  <2> QED  BY <2>1, <2>2, HandledStays
<1> QED  BY <1>1 DEF AllHandled, EarlierHandled

\* A query of the earlier databases that has the name left it mapped.
LEMMA MappedByEarlier ==
  ASSUME WhereTyped, EarlierHandled(loader, conn, databases, mapper, connection_errors),
         NEW d \in 1..(conn - 1), NEW name, Has(loader, d, name, databases)
  PROVE  IsMapped(name)
<1>1. PICK r \in Rows(loader, databases[d]) : Normalized(r.name) = name
  BY DEF Has
<1>2. loader \in Loader /\ d \in 1..Len(databases) /\ d < conn
  BY DEF WhereTyped
<1>3. QueryHandled(loader, d, databases, mapper, connection_errors)
  BY <1>2 DEF EarlierHandled, Earlier
<1>4. Handled(loader, d, r, databases, mapper, connection_errors)
  BY <1>1, <1>3 DEF QueryHandled
<1> QED  BY <1>1, <1>4 DEF Handled, IsMapped

\* The insertion of a group handles its rows.
LEMMA InsertHandles ==
  ASSUME WhereTyped, Mapped,
         EarlierHandled(loader, conn, databases, mapper, connection_errors),
         NEW name, NEW records, NEW next, next # "conn_pos_asserted",
         Insert(name, records, next), stage' = next,
         NEW row, Among(row, records), Normalized(row.name) = name
  PROVE  Handled(loader, conn, row, databases, mapper', connection_errors')
<1> DEFINE new == [name |-> name, conn |-> conn, recs |-> records]
<1>1. CASE ~IsMapped(name) /\ new \in mapper'[loader]
  <2>1. \A d \in 1..(conn - 1) : ~Has(loader, d, name, databases)
    BY <1>1, MappedByEarlier
  <2>2. new.name = name /\ new.conn = conn /\ new.recs = records
    OBVIOUS
  <2> QED  BY <1>1, <2>1, <2>2 DEF Handled
<1>2. CASE IsMapped(name) /\ Error(loader, conn, name) \in connection_errors'
  <2>1. PICK e \in mapper[loader] : e.name = name
    BY <1>2 DEF IsMapped
  <2>2. e \in mapper'[loader]
    BY <2>1, InsertMaps DEF WhereTyped
  <2>3. connection_errors' # {}
    BY <1>2
  <2> QED  BY <1>2, <2>1, <2>2, <2>3 DEF Handled
<1>3. \/ new \in mapper'[loader] /\ ~IsMapped(name)
      \/ IsMapped(name) /\ Error(loader, conn, name) \in connection_errors'
  <2>1. CASE ~IsMapped(name) /\ MapName(name, records)
    BY <2>1 DEF MapName, Mapped, WhereTyped
  <2>2. CASE IsMapped(name)
             /\ connection_errors' = connection_errors \cup {Error(loader, conn, name)}
    BY <2>2
  <2> QED  BY <2>1, <2>2 DEF Insert
<1> QED  BY <1>1, <1>2, <1>3

\* ... and keeps the entries sound.
LEMMA InsertSound ==
  ASSUME Mapped, EntriesSound(databases, mapper), NEW name, NEW records, NEW next,
         Insert(name, records, next),
         RowsOfName(records, name, Rows(loader, databases[conn]))
  PROVE  EntriesSound(databases, mapper')
<1> DEFINE new == [name |-> name, conn |-> conn, recs |-> records]
<1> SUFFICES ASSUME NEW kind \in Loader
             PROVE  EntriesOfNames(kind, databases, mapper') /\ NamesUnique(mapper'[kind])
  BY DEF EntriesSound
<1>1. \A e \in mapper'[kind] :
        e \in mapper[kind] \/ (kind = loader /\ e = new /\ ~IsMapped(name))
  BY InsertChanges
<1>2. EntriesOfNames(kind, databases, mapper) /\ NamesUnique(mapper[kind])
  BY DEF EntriesSound
<1>3. new.name = name /\ new.conn = conn /\ new.recs = records
  OBVIOUS
<1>4. EntriesOfNames(kind, databases, mapper')
  BY <1>1, <1>2, <1>3 DEF EntriesOfNames
<1>5. NamesUnique(mapper'[kind])
  BY <1>1, <1>2, <1>3 DEF NamesUnique, IsMapped
<1> QED  BY <1>4, <1>5

\* After a query, the earlier ones are those that were and the query itself.
LEMMA NextIsEarlier ==
  ASSUME WhereTyped, NextQuery, NEW kind \in Loader, NEW c \in 1..Len(databases),
         LastQuery \/ Earlier(kind, c, loader', conn')
  PROVE  Earlier(kind, c, loader, conn) \/ (kind = loader /\ c = conn)
<1>1. loader \in Loader /\ conn \in 1..Len(databases) /\ Len(databases) \in Nat
  BY DEF WhereTyped
<1>2. CASE conn < Len(databases)
  <2>1. conn' = conn + 1 /\ loader' = loader /\ ~LastQuery
    BY <1>1, <1>2 DEF NextQuery, LastQuery
  <2> QED  BY <1>1, <2>1 DEF Earlier
<1>3. CASE conn = Len(databases)
  <2>1. conn' = 1 /\ loader' = NextLoader[loader]
    BY <1>1, <1>3 DEF NextQuery
  <2>2. IndexOf[kind] =< IndexOf[loader]
    <3>1. CASE loader = "tc"
      BY <3>1 DEF Loader, IndexOf
    <3>2. CASE loader # "tc"
      <4>1. IndexOf[loader'] = IndexOf[loader] + 1 /\ IndexOf[loader] \in Nat
        BY <1>1, <2>1, <3>2 DEF Loader, IndexOf, NextLoader
      <4>2. Earlier(kind, c, loader', 1) /\ c >= 1
        BY <2>1, <3>2 DEF LastQuery
      <4>3. IndexOf[kind] < IndexOf[loader'] /\ IndexOf[kind] \in Nat
        BY <4>2 DEF Earlier, Loader, IndexOf
      <4> QED  BY <4>1, <4>3
    <3> QED  BY <3>1, <3>2
  <2>3. IndexOf[kind] < IndexOf[loader] \/ kind = loader
    BY <1>1, <2>2 DEF Loader, IndexOf
  <2>4. c =< conn
    BY <1>3
  <2> QED  BY <1>1, <2>3, <2>4 DEF Earlier
<1> QED  BY <1>1, <1>2, <1>3

LEMMA CatalogInit == Init => CatalogInv
<1> SUFFICES ASSUME Init
             PROVE  CatalogInv
  OBVIOUS
<1>1. \A kind \in Loader : mapper[kind] = {}
  BY DEF Init
<1>2. EntriesSound(databases, mapper)
  BY <1>1 DEF EntriesSound, EntriesOfNames, NamesUnique
<1> QED  BY <1>2 DEF Init, CatalogInv

\* A program that stops early promises only that its entries are sound.
LEMMA CatalogStopped ==
  ASSUME EntriesSound(databases', mapper'),
         stage' \in {"conn_pos_asserted", "column_pos_asserted", "query_failed"}
  PROVE  CatalogInv'
  BY DEF CatalogInv

LEMMA AmongAppended ==
  ASSUME NEW S, NEW s \in Seq(S), NEW row \in S, NEW x
  PROVE  Among(x, Append(s, row)) <=> Among(x, s) \/ x = row
<1>1. /\ Len(Append(s, row)) = Len(s) + 1
      /\ \A i \in 1..Len(s) : Append(s, row)[i] = s[i]
      /\ Append(s, row)[Len(s) + 1] = row
      /\ DOMAIN s = 1..Len(s) /\ DOMAIN Append(s, row) = 1..(Len(s) + 1)
      /\ Len(s) \in Nat
  OBVIOUS
<1>2. ASSUME Among(x, Append(s, row))
      PROVE  Among(x, s) \/ x = row
  <2>1. PICK i \in 1..(Len(s) + 1) : Append(s, row)[i] = x
    BY <1>1, <1>2 DEF Among
  <2>2. CASE i = Len(s) + 1
    BY <1>1, <2>1, <2>2
  <2>3. CASE i \in 1..Len(s)
    BY <1>1, <2>1, <2>3 DEF Among
  <2> QED  BY <1>1, <2>2, <2>3
<1>3. ASSUME Among(x, s)
      PROVE  Among(x, Append(s, row))
  <2>1. PICK i \in 1..Len(s) : s[i] = x
    BY <1>1, <1>3 DEF Among
  <2>2. i \in 1..(Len(s) + 1)
    BY <1>1
  <2> QED  BY <1>1, <2>1, <2>2 DEF Among
<1>4. Among(row, Append(s, row))
  <2>1. Len(s) + 1 \in 1..(Len(s) + 1)
    BY <1>1
  <2> QED  BY <1>1, <2>1 DEF Among
<1> QED  BY <1>2, <1>3, <1>4

LEMMA AmongOne ==
  ASSUME NEW row, NEW x
  PROVE  Among(x, << row >>) <=> x = row
  BY DEF Among

\* A row joins the group.
LEMMA GroupGrows ==
  ASSUME TypeInv, CatalogInv, NEW row \in rows, FetchRow(row),
         last_name' = Normalized(row.name),
         last_name' = last_name \/ recs = << >>,
         recs' = Append(recs, row),
         UNCHANGED << mapper, connection_errors, stage >>
  PROVE  CatalogInv'
<1> DEFINE Selected == Rows(loader, databases[conn])
<1>1. /\ row \in Selected /\ rows' = rows \ {row} /\ stage = "rows"
      /\ UNCHANGED << databases, loader, conn >>
  BY FetchedRow
<1>2. recs \in Seq(Selected)
  BY <1>1 DEF TypeInv, RowsTyped
<1>3. RowsOfName(recs, last_name, Selected)
      /\ FetchedHandled(loader, conn, rows, recs, databases, mapper, connection_errors)
  BY <1>1 DEF CatalogInv
<1>4. RowsOfName(recs', last_name', Selected)
  <2> SUFFICES ASSUME NEW i \in DOMAIN recs'
               PROVE  recs'[i] \in Selected /\ Normalized(recs'[i].name) = last_name'
    BY DEF RowsOfName
  <2>1. Among(recs'[i], recs')
    BY DEF Among
  <2>2. Among(recs'[i], recs) \/ recs'[i] = row
    BY <1>1, <1>2, <2>1, AmongAppended
  <2>3. CASE Among(recs'[i], recs)
    <3>1. PICK j \in DOMAIN recs : recs[j] = recs'[i]
      BY <2>3 DEF Among
    <3>2. recs # << >>
      BY <3>1
    <3> QED  BY <1>3, <3>1, <3>2 DEF RowsOfName
  <2> QED  BY <1>1, <2>2, <2>3
<1>5. FetchedHandled(loader, conn, rows', recs', databases, mapper, connection_errors)
  <2> SUFFICES ASSUME NEW r \in Selected
               PROVE  \/ r \in rows' \/ Among(r, recs')
                      \/ Handled(loader, conn, r, databases, mapper, connection_errors)
    BY DEF FetchedHandled
  <2>1. \/ r \in rows \/ Among(r, recs)
        \/ Handled(loader, conn, r, databases, mapper, connection_errors)
    BY <1>3 DEF FetchedHandled
  <2>2. r \in rows => r \in rows' \/ r = row
    BY <1>1
  <2> QED  BY <1>1, <1>2, <2>1, <2>2, AmongAppended
<1> QED  BY <1>1, <1>4, <1>5 DEF CatalogInv

\* A row is fetched and records are inserted under a name: those of the group,
\* which the row then starts anew, or those of the row itself.
LEMMA RowInserts ==
  ASSUME TypeInv, CatalogInv, NEW row \in rows, FetchRow(row), NEW name, NEW records,
         Insert(name, records, "rows"),
         RowsOfName(records, name, Rows(loader, databases[conn])),
         RowsOfName(recs', last_name', Rows(loader, databases[conn])),
         \A r : r = row \/ Among(r, recs) => Among(r, records) \/ Among(r, recs')
  PROVE  CatalogInv'
<1> DEFINE Selected == Rows(loader, databases[conn])
<1>t. WhereTyped /\ Mapped /\ loader \in Loader
  BY DEF TypeInv, MapsTyped, WhereTyped
<1>1. /\ row \in Selected /\ rows' = rows \ {row} /\ stage = "rows"
      /\ UNCHANGED << databases, loader, conn >>
  BY FetchedRow
<1>2. /\ EntriesSound(databases, mapper)
      /\ FetchedHandled(loader, conn, rows, recs, databases, mapper, connection_errors)
      /\ EarlierHandled(loader, conn, databases, mapper, connection_errors)
  BY <1>1 DEF CatalogInv
<1>3. EntriesSound(databases, mapper')
  BY <1>t, <1>2, InsertSound
<1>4. /\ \A kind \in Loader : mapper[kind] \subseteq mapper'[kind]
      /\ connection_errors \subseteq connection_errors'
      /\ stage' = "rows" \/ stage' = "conn_pos_asserted"
  BY <1>t, InsertMaps
<1>5. CASE stage' = "conn_pos_asserted"
  BY <1>1, <1>3, <1>5, CatalogStopped
<1>6. CASE stage' = "rows"
  <2>1. EarlierHandled(loader, conn, databases, mapper', connection_errors')
    BY <1>t, <1>2, <1>4, QueriesStayHandled
  <2>2. FetchedHandled(loader, conn, rows', recs', databases, mapper', connection_errors')
    <3> SUFFICES ASSUME NEW r \in Selected
                 PROVE  \/ r \in rows' \/ Among(r, recs')
                        \/ Handled(loader, conn, r, databases, mapper', connection_errors')
      BY DEF FetchedHandled
    <3>1. CASE Handled(loader, conn, r, databases, mapper, connection_errors)
      BY <1>t, <1>4, <3>1, HandledStays
    <3>2. CASE Among(r, records)
      <4>1. Normalized(r.name) = name
        BY <3>2 DEF Among, RowsOfName
      <4> QED  BY <1>t, <1>2, <1>6, <3>2, <4>1, InsertHandles
    <3>3. r \in rows \/ Among(r, recs)
          \/ Handled(loader, conn, r, databases, mapper, connection_errors)
      BY <1>2 DEF FetchedHandled
    <3>4. r \in rows => r \in rows' \/ r = row
      BY <1>1
    <3> QED  BY <3>1, <3>2, <3>3, <3>4
  <2> QED  BY <1>1, <1>3, <1>6, <2>1, <2>2 DEF CatalogInv
<1> QED  BY <1>4, <1>5, <1>6

\* A query has ended: with its rows all of the next one's earlier queries, or
\* if it was the last all queries, are handled.
LEMMA QueryEnds ==
  ASSUME WhereTyped, NextQuery, NEW m, NEW errs,
         EarlierHandled(loader, conn, databases, m, errs),
         QueryHandled(loader, conn, databases, m, errs)
  PROVE  /\ LastQuery => AllHandled(databases, m, errs)
         /\ EarlierHandled(loader', conn', databases, m, errs)
<1>1. ASSUME NEW kind \in Loader, NEW c \in 1..Len(databases),
             LastQuery \/ Earlier(kind, c, loader', conn')
      PROVE  QueryHandled(kind, c, databases, m, errs)
  <2>1. Earlier(kind, c, loader, conn) \/ (kind = loader /\ c = conn)
    BY <1>1, NextIsEarlier
  <2> QED  BY <2>1 DEF EarlierHandled
<1> QED  BY <1>1 DEF EarlierHandled, AllHandled

LEMMA CatalogEndOfRows ==
  ASSUME TypeInv, CatalogInv, EndOfRows
  PROVE  CatalogInv'
<1>t. WhereTyped /\ Mapped /\ loader \in Loader
  BY DEF TypeInv, MapsTyped, WhereTyped
<1>1. /\ stage = "rows" /\ rows = {} /\ NextQuery
      /\ UNCHANGED << databases, rows, groupVars, fkVars >>
  BY DEF EndOfRows
<1>2. /\ EntriesSound(databases, mapper)
      /\ RowsOfName(recs, last_name, Rows(loader, databases[conn]))
      /\ FetchedHandled(loader, conn, rows, recs, databases, mapper, connection_errors)
      /\ EarlierHandled(loader, conn, databases, mapper, connection_errors)
  BY <1>1 DEF CatalogInv
<1>3. ASSUME EntriesSound(databases, mapper'), stage' = StageAfter,
             EarlierHandled(loader, conn, databases, mapper', connection_errors'),
             QueryHandled(loader, conn, databases, mapper', connection_errors')
      PROVE  CatalogInv'
  <2>1. /\ LastQuery => AllHandled(databases, mapper', connection_errors')
        /\ EarlierHandled(loader', conn', databases, mapper', connection_errors')
    BY <1>t, <1>1, <1>3, QueryEnds
  <2>2. stage' = "query" \/ (stage' = "finish" /\ LastQuery)
    BY <1>3 DEF StageAfter
  <2> QED  BY <1>1, <1>3, <2>1, <2>2 DEF CatalogInv
<1>4. CASE recs = << >> /\ stage' = StageAfter /\ UNCHANGED << mapper, connection_errors >>
  <2>1. \A r : ~Among(r, recs)
    BY <1>4 DEF Among
  <2>2. QueryHandled(loader, conn, databases, mapper, connection_errors)
    BY <1>1, <1>2, <2>1 DEF FetchedHandled, QueryHandled
  <2> QED  BY <1>2, <1>3, <1>4, <2>2
<1>5. CASE Insert(last_name, recs, StageAfter)
  <2>1. EntriesSound(databases, mapper')
    BY <1>t, <1>2, <1>5, InsertSound
  <2>2. /\ \A kind \in Loader : mapper[kind] \subseteq mapper'[kind]
        /\ connection_errors \subseteq connection_errors'
        /\ stage' = StageAfter \/ stage' = "conn_pos_asserted"
    BY <1>t, <1>5, InsertMaps
  <2>3. CASE stage' = "conn_pos_asserted"
    BY <1>1, <2>1, <2>3, CatalogStopped
  <2>4. CASE stage' = StageAfter
    <3>1. EarlierHandled(loader, conn, databases, mapper', connection_errors')
      BY <1>t, <1>2, <2>2, QueriesStayHandled
    <3>2. QueryHandled(loader, conn, databases, mapper', connection_errors')
      <4> SUFFICES ASSUME NEW r \in Rows(loader, databases[conn])
                   PROVE  Handled(loader, conn, r, databases, mapper', connection_errors')
        BY DEF QueryHandled
      <4>1. CASE Handled(loader, conn, r, databases, mapper, connection_errors)
        BY <1>t, <2>2, <4>1, HandledStays
      <4>2. CASE Among(r, recs)
        <5>1. Normalized(r.name) = last_name
          BY <1>2, <4>2 DEF Among, RowsOfName
        <5>2. StageAfter # "conn_pos_asserted"
          BY DEF StageAfter
        <5> QED  BY <1>t, <1>2, <1>5, <2>4, <4>2, <5>1, <5>2, InsertHandles
      <4> QED  BY <1>1, <1>2, <4>1, <4>2 DEF FetchedHandled
    <3> QED  BY <1>3, <2>1, <2>4, <3>1, <3>2
  <2> QED  BY <2>2, <2>3, <2>4
<1> QED  BY <1>4, <1>5 DEF EndOfRows

LEMMA CatalogStep == TypeInv /\ CatalogInv /\ [Next]_vars => CatalogInv'
<1> SUFFICES ASSUME TypeInv, CatalogInv, [Next]_vars
             PROVE  CatalogInv'
  OBVIOUS
<1>s. EntriesSound(databases, mapper)
  BY DEF CatalogInv
<1>1. CASE Connect
  <2>1. PICK refusing \in SUBSET (1..Len(databases)) :
          /\ connection_errors' = {Error("none", c, << >>) : c \in refusing}
          /\ stage' = IF refusing = {} THEN "query" ELSE "threw"
    BY <1>1 DEF Connect
  <2>2. /\ UNCHANGED << databases, loader, conn, mapper >>
        /\ loader = "ck" /\ conn = 1
    BY <1>1 DEF Connect, CatalogInv
  <2>3. CASE refusing = {}
    <3>1. \A kind \in Loader, c \in 1..Len(databases) : ~Earlier(kind, c, "ck", 1)
      BY DEF Earlier, Loader, IndexOf
    <3>2. EarlierHandled(loader', conn', databases', mapper', connection_errors')
      BY <2>2, <3>1 DEF EarlierHandled
    <3> QED  BY <1>s, <2>1, <2>2, <2>3, <3>2 DEF CatalogInv
  <2>4. CASE refusing # {}
    <3>1. PICK c \in refusing : Error("none", c, << >>) \in connection_errors'
      BY <2>1, <2>4
    <3>2. ~NoneRefused(connection_errors')
      BY <3>1 DEF NoneRefused, Error
    <3> QED  BY <1>s, <2>1, <2>2, <2>4, <3>2 DEF CatalogInv
  <2> QED  BY <2>3, <2>4
<1>2. CASE Query
  <2>1. /\ stage = "query" /\ stage' = "rows" /\ rows' = Rows(loader, databases[conn])
        /\ recs' = << >>
        /\ UNCHANGED << databases, loader, conn, mapper, connection_errors >>
    BY <1>2 DEF Query
  <2>2. RowsOfName(recs', last_name', Rows(loader', databases'[conn']))
    BY <2>1 DEF RowsOfName
  <2>3. FetchedHandled(loader', conn', rows', recs', databases', mapper', connection_errors')
    BY <2>1 DEF FetchedHandled
  <2>4. EarlierHandled(loader, conn, databases, mapper, connection_errors)
    BY <2>1 DEF CatalogInv
  <2> QED  BY <1>s, <2>1, <2>2, <2>3, <2>4 DEF CatalogInv
<1>3. CASE QueryFails
  BY <1>s, <1>3, CatalogStopped DEF QueryFails
<1>4. ASSUME NEW row \in rows, GroupRow(row)
      PROVE  CatalogInv'
  <2>f. FetchRow(row) /\ last_name' = Normalized(row.name)
    BY <1>4 DEF GroupRow
  <2>1. CASE /\ last_name' = last_name \/ recs = << >>
             /\ recs' = Append(recs, row)
             /\ UNCHANGED << mapper, connection_errors, stage >>
    BY <2>f, <2>1, GroupGrows
  <2>2. CASE recs' = << row >> /\ Insert(last_name, recs, "rows")
    <3>1. row \in Rows(loader, databases[conn]) /\ stage = "rows"
      BY <2>f, FetchedRow
    <3>2. RowsOfName(recs, last_name, Rows(loader, databases[conn]))
      BY <3>1 DEF CatalogInv
    <3>3. RowsOfName(recs', last_name', Rows(loader, databases[conn]))
      BY <2>f, <2>2, <3>1 DEF RowsOfName
    <3>4. \A r : r = row \/ Among(r, recs) => Among(r, recs) \/ Among(r, recs')
      BY <2>2, AmongOne
    <3> QED  BY <2>f, <2>2, <3>2, <3>3, <3>4, RowInserts
  <2> QED  BY <1>4, <2>1, <2>2 DEF GroupRow
<1>5. ASSUME NEW row \in rows, ColumnPosAsserted(row)
      PROVE  CatalogInv'
  BY <1>s, <1>5, CatalogStopped DEF ColumnPosAsserted, FetchRow
<1>6. ASSUME NEW row \in rows, FetchRow(row), UNCHANGED groupVars,
             Insert(Normalized(row.name), << row >>, "rows")
      PROVE  CatalogInv'
  <2>1. row \in Rows(loader, databases[conn]) /\ stage = "rows"
    BY <1>6, FetchedRow
  <2>2. RowsOfName(<< row >>, Normalized(row.name), Rows(loader, databases[conn]))
    BY <2>1 DEF RowsOfName
  <2>3. recs' = recs /\ last_name' = last_name
    BY <1>6 DEF groupVars
  <2>4. RowsOfName(recs', last_name', Rows(loader, databases[conn]))
    BY <2>1, <2>3 DEF CatalogInv
  <2>5. \A r : r = row \/ Among(r, recs) => Among(r, << row >>) \/ Among(r, recs')
    BY <2>3, AmongOne
  <2> QED  BY <1>6, <2>2, <2>4, <2>5, RowInserts
<1>7. ASSUME NEW row \in rows, PkRow(row) \/ FkRow(row)
      PROVE  CatalogInv'
  <2>1. /\ FetchRow(row) /\ UNCHANGED groupVars
        /\ Insert(Normalized(row.name), << row >>, "rows")
    BY <1>7 DEF PkRow, FkRow
  <2> QED  BY <1>6, <2>1
<1>8. CASE EndOfRows
  BY <1>8, CatalogEndOfRows
<1>9. CASE Finish
  BY <1>9 DEF Finish, CatalogInv
<1>10. CASE UNCHANGED vars
  BY <1>10 DEF vars, groupVars, CatalogInv
<1> QED
  BY <1>1, <1>2, <1>3, <1>4, <1>5, <1>7, <1>8, <1>9, <1>10 DEF Next

LEMMA CatalogCorrect == Spec => [](TypeInv /\ CatalogInv)
<1>1. Init => TypeInv /\ CatalogInv
  BY TypeInit, CatalogInit
<1>2. TypeInv /\ CatalogInv /\ [Next]_vars => (TypeInv /\ CatalogInv)'
  BY TypeStep, CatalogStep
<1> QED  BY <1>1, <1>2, PTL DEF Spec

\* Two databases that have a name, and the error that is recorded for it.
LEMMA RedefinitionRecorded ==
  ASSUME WhereTyped, AllHandled(databases, mapper, connection_errors),
         NEW kind \in Loader, NEW c \in 1..Len(databases), NEW d \in 1..Len(databases),
         c < d, NEW name \in NamesOf(kind, c) \cap NamesOf(kind, d)
  PROVE  Error(kind, d, name) \in connection_errors
<1>1. PICK r \in Rows(kind, databases[d]) : Normalized(r.name) = name
  BY DEF NamesOf
<1>2. Has(kind, c, name, databases)
  BY DEF NamesOf, Has
<1>3. Handled(kind, d, r, databases, mapper, connection_errors)
  BY <1>1 DEF AllHandled, QueryHandled
<1>4. c \in 1..(d - 1)
  BY DEF WhereTyped
<1> QED  BY <1>1, <1>2, <1>3, <1>4 DEF Handled

(***************************************************************************)
(* No table, and no column's constraint, of a loaded catalog is defined by *)
(* two databases (sqlsvr_ddl_queries_impl).                                *)
(***************************************************************************)
THEOREM OneDatabaseCorrect == Spec => []OneDatabase
<1>1. TypeInv /\ CatalogInv => OneDatabase
  <2> SUFFICES ASSUME TypeInv, CatalogInv, stage = "loaded", NEW kind \in Loader,
                      NEW c \in 1..Len(databases), NEW d \in 1..Len(databases), c # d,
                      NEW name \in NamesOf(kind, c) \cap NamesOf(kind, d)
               PROVE  FALSE
    BY DEF OneDatabase
  <2>1. WhereTyped /\ AllHandled(databases, mapper, connection_errors) /\ connection_errors = {}
    BY DEF TypeInv, CatalogInv
  <2>2. c < d \/ d < c
    OBVIOUS
  <2>3. CASE c < d
    BY <2>1, <2>3, RedefinitionRecorded
  <2>4. CASE d < c
    <3>1. name \in NamesOf(kind, d) \cap NamesOf(kind, c)
      OBVIOUS
    <3> QED  BY <2>1, <2>4, <3>1, RedefinitionRecorded
  <2> QED  BY <2>2, <2>3, <2>4
<1> QED  BY <1>1, CatalogCorrect, PTL

(***************************************************************************)
(* Every redefinition, by whichever loader and database, is among the      *)
(* errors that are thrown after loading.                                   *)
(***************************************************************************)
THEOREM AllRedefinitionsThrownCorrect == Spec => []AllRedefinitionsThrown
<1>1. TypeInv /\ CatalogInv => AllRedefinitionsThrown
  <2> SUFFICES ASSUME TypeInv, CatalogInv, stage = "threw",
                      \A e \in connection_errors : e.loader # "none",
                      NEW kind \in Loader,
                      NEW c \in 1..Len(databases), NEW d \in 1..Len(databases),
                      NEW name \in NamesOf(kind, c) \cap NamesOf(kind, d), c < d
               PROVE  Error(kind, d, name) \in connection_errors
    BY DEF AllRedefinitionsThrown
  <2>1. WhereTyped /\ AllHandled(databases, mapper, connection_errors)
    BY DEF TypeInv, CatalogInv, NoneRefused
  <2> QED  BY <2>1, RedefinitionRecorded
<1> QED  BY <1>1, CatalogCorrect, PTL

(***************************************************************************)
(* A loaded catalog has under every name all rows that the name's database *)
(* has for it, and no others: no group is torn, and the last of a query is *)
(* not lost (load_ck_mapper, load_uq_mapper, load_tc_mapper).              *)
(***************************************************************************)
THEOREM GroupsCompleteCorrect == Spec => []GroupsComplete
<1>1. TypeInv /\ CatalogInv => GroupsComplete
  <2> SUFFICES ASSUME TypeInv, CatalogInv, stage = "loaded", NEW kind \in Loader,
                      NEW c \in 1..Len(databases), NEW name \in NamesOf(kind, c)
               PROVE  \E e \in mapper[kind] :
                        /\ e.name = name
                        /\ {e.recs[i] : i \in DOMAIN e.recs} =
                             {row \in Rows(kind, databases[c]) : Normalized(row.name) = name}
    BY DEF GroupsComplete
  <2>1. AllHandled(databases, mapper, connection_errors) /\ connection_errors = {}
        /\ EntriesSound(databases, mapper)
    BY DEF CatalogInv
  <2>2. \A row \in Rows(kind, databases[c]) :
          \E e \in mapper[kind] :
            e.name = Normalized(row.name) /\ e.conn = c /\ Among(row, e.recs)
    BY <2>1 DEF AllHandled, QueryHandled, Handled
  <2>3. PICK r \in Rows(kind, databases[c]) : Normalized(r.name) = name
    BY DEF NamesOf
  <2>4. PICK e \in mapper[kind] : e.name = name /\ e.conn = c
    BY <2>2, <2>3
  <2>5. \A row \in Rows(kind, databases[c]) :
          Normalized(row.name) = name => Among(row, e.recs)
    BY <2>1, <2>2, <2>4 DEF EntriesSound, NamesUnique
  <2>6. \A i \in DOMAIN e.recs :
          e.recs[i] \in Rows(kind, databases[c]) /\ Normalized(e.recs[i].name) = name
    BY <2>1, <2>4 DEF EntriesSound, EntriesOfNames, RowsOfName
  <2>7. {e.recs[i] : i \in DOMAIN e.recs} =
          {row \in Rows(kind, databases[c]) : Normalized(row.name) = name}
    BY <2>5, <2>6 DEF Among
  <2> QED  BY <2>4, <2>7
<1> QED  BY <1>1, CatalogCorrect, PTL
-------------------------------------------------------------------------------
(***************************************************************************)
(* That no redefinition is spurious needs the order of the rows: a group   *)
(* is closed by the first row of another name, and that its name does not  *)
(* return depends on the ORDER BY, whose collation must not tie names that *)
(* normalize differently.  That columns are numbered from 1 is likewise    *)
(* for the databases to keep.  The theorem has both as hypotheses.         *)
(***************************************************************************)
\* The order of tuples of three and of four.
LEMMA BeforeThree ==
  ASSUME NEW s \in Nat \X Nat \X Nat, NEW t \in Nat \X Nat \X Nat
  PROVE  Before(s, t) <=> \/ s[1] < t[1]
                          \/ s[1] = t[1] /\ s[2] < t[2]
                          \/ s[1] = t[1] /\ s[2] = t[2] /\ s[3] < t[3]
<1>1. DOMAIN s = {1, 2, 3}
  OBVIOUS
<1>2. 1..0 = {} /\ 1..1 = {1} /\ 1..2 = {1, 2}
  OBVIOUS
<1>3. Before(s, t) <=> \E i \in {1, 2, 3} : s[i] < t[i] /\ \A j \in 1..(i - 1) : s[j] = t[j]
  BY <1>1 DEF Before
<1>4. /\ (\A j \in 1..(1 - 1) : s[j] = t[j])
      /\ (\A j \in 1..(2 - 1) : s[j] = t[j]) <=> s[1] = t[1]
      /\ (\A j \in 1..(3 - 1) : s[j] = t[j]) <=> s[1] = t[1] /\ s[2] = t[2]
  BY <1>2
<1> QED  BY <1>3, <1>4

LEMMA BeforeFour ==
  ASSUME NEW s \in Nat \X Nat \X Nat \X Nat, NEW t \in Nat \X Nat \X Nat \X Nat
  PROVE  Before(s, t) <=> \/ s[1] < t[1]
                          \/ s[1] = t[1] /\ s[2] < t[2]
                          \/ s[1] = t[1] /\ s[2] = t[2] /\ s[3] < t[3]
                          \/ s[1] = t[1] /\ s[2] = t[2] /\ s[3] = t[3] /\ s[4] < t[4]
<1>1. DOMAIN s = {1, 2, 3, 4}
  OBVIOUS
<1>2. 1..0 = {} /\ 1..1 = {1} /\ 1..2 = {1, 2} /\ 1..3 = {1, 2, 3}
  OBVIOUS
<1>3. Before(s, t) <=> \E i \in {1, 2, 3, 4} : s[i] < t[i] /\ \A j \in 1..(i - 1) : s[j] = t[j]
  BY <1>1 DEF Before
<1>4. /\ (\A j \in 1..(1 - 1) : s[j] = t[j])
      /\ (\A j \in 1..(2 - 1) : s[j] = t[j]) <=> s[1] = t[1]
      /\ (\A j \in 1..(3 - 1) : s[j] = t[j]) <=> s[1] = t[1] /\ s[2] = t[2]
      /\ (\A j \in 1..(4 - 1) : s[j] = t[j]) <=> s[1] = t[1] /\ s[2] = t[2] /\ s[3] = t[3]
  BY <1>2
<1> QED  BY <1>3, <1>4

LEMMA PairsEqual ==
  ASSUME NEW a, NEW b, NEW c, NEW d
  PROVE  << a, b >> = << c, d >> <=> a = c /\ b = d
<1>1. << a, b >>[1] = a /\ << a, b >>[2] = b /\ << c, d >>[1] = c /\ << c, d >>[2] = d
  OBVIOUS
<1> QED  BY <1>1

LEMMA TriplesEqual ==
  ASSUME NEW a, NEW b, NEW c, NEW x, NEW y, NEW z
  PROVE  << a, b, c >> = << x, y, z >> <=> a = x /\ b = y /\ c = z
<1>1. /\ << a, b, c >>[1] = a /\ << a, b, c >>[2] = b /\ << a, b, c >>[3] = c
      /\ << x, y, z >>[1] = x /\ << x, y, z >>[2] = y /\ << x, y, z >>[3] = z
  OBVIOUS
<1> QED  BY <1>1

\* What the rows of the collecting loaders are sorted by.
LEMMA RanksOfPair ==
  ASSUME NEW a \in Name, NEW b \in Name
  PROVE  Ranks(<< a, b >>) = << Rank[a], Rank[b] >>
  BY DEF Ranks

LEMMA RanksOfTriple ==
  ASSUME NEW a \in Name, NEW b \in Name, NEW c \in Name
  PROVE  Ranks(<< a, b, c >>) = << Rank[a], Rank[b], Rank[c] >>
  BY DEF Ranks

LEMMA AppendDomain ==
  ASSUME NEW S, NEW s \in Seq(S), NEW d \in S
  PROVE  /\ DOMAIN Append(s, d) = 1..(Len(s) + 1)
         /\ \A i \in 1..Len(s) : Append(s, d)[i] = s[i]
         /\ Append(s, d)[Len(s) + 1] = d
  OBVIOUS

LEMMA RanksOfFour ==
  ASSUME NEW a \in Name, NEW b \in Name, NEW c \in Name, NEW d \in Name
  PROVE  Ranks(Append(<< a, b, c >>, d)) = << Rank[a], Rank[b], Rank[c], Rank[d] >>
<1> DEFINE s == << a, b, c >>
           t == Append(s, d)
<1>1. s \in Seq(Name) /\ Len(s) = 3 /\ s[1] = a /\ s[2] = b /\ s[3] = c
  OBVIOUS
<1>2. /\ DOMAIN t = 1..(Len(s) + 1)
      /\ \A i \in 1..Len(s) : t[i] = s[i]
      /\ t[Len(s) + 1] = d
  <2>1. s \in Seq(Name)
    BY <1>1
  <2> HIDE DEF s
  <2> QED  BY ONLY <2>1, d \in Name, AppendDomain
<1> HIDE DEF s, t
<1>3. DOMAIN t = 1..4 /\ t[1] = a /\ t[2] = b /\ t[3] = c /\ t[4] = d
  BY ONLY <1>1, <1>2
<1>4. Ranks(t) = [i \in 1..4 |-> Rank[t[i]]]
  BY <1>3 DEF Ranks
<1>5. [i \in 1..4 |-> Rank[t[i]]] = << Rank[t[1]], Rank[t[2]], Rank[t[3]], Rank[t[4]] >>
  OBVIOUS
<1>6. Ranks(t) = << Rank[a], Rank[b], Rank[c], Rank[d] >>
  BY <1>3, <1>4, <1>5
<1> QED  BY <1>6 DEF s, t

LEMMA ColumnKey ==
  ASSUME NEW kind \in {"ck", "uq"}, NEW row, IsRow(kind, row)
  PROVE  LET k == SortKey(kind, row)
         IN /\ k \in Nat \X Nat \X Nat \X Nat
            /\ Ranks(row.name) = << k[1], k[2], k[3] >>
<1>1. row.name \in Name \X Name \X Name /\ row.rec \in Name
  BY DEF IsRow
<1>2. PICK a \in Name, b \in Name, c \in Name : row.name = << a, b, c >>
  BY <1>1
<1>3. SortKey(kind, row) = << Rank[a], Rank[b], Rank[c], Rank[row.rec] >>
  <2>1. SortKey(kind, row) = Ranks(Append(row.name, row.rec))
    BY DEF SortKey
  <2> QED  BY <1>1, <1>2, <2>1, RanksOfFour
<1>4. Ranks(row.name) = << Rank[a], Rank[b], Rank[c] >>
  BY <1>2, RanksOfTriple
<1>5. \A n \in Name : Rank[n] \in Nat
  BY NameAssumption
<1> QED  BY <1>1, <1>3, <1>4, <1>5

LEMMA TableKey ==
  ASSUME NEW row, IsRow("tc", row)
  PROVE  LET k == SortKey("tc", row)
         IN /\ k \in Nat \X Nat \X Nat
            /\ Ranks(row.name) = << k[1], k[2] >>
            /\ k[3] = row.rec.pos
<1>1. row.name \in Name \X Name /\ row.rec.pos \in Nat
  BY DEF IsRow
<1>2. PICK a \in Name, b \in Name : row.name = << a, b >>
  BY <1>1
<1>3. Ranks(row.name) = << Rank[a], Rank[b] >>
  BY <1>2, RanksOfPair
<1>4. SortKey("tc", row) = << Rank[a], Rank[b], row.rec.pos >>
  <2>1. SortKey("tc", row) = Append(Ranks(row.name), row.rec.pos)
    BY DEF SortKey
  <2> QED  BY <1>3, <2>1
<1>5. \A n \in Name : Rank[n] \in Nat
  BY NameAssumption
<1> QED  BY <1>1, <1>3, <1>4, <1>5

InOrder(kind, r, s) == ~Before(SortKey(kind, s), SortKey(kind, r))

\* Between two rows of one name there is none of another.
LEMMA NothingBetween ==
  ASSUME NEW kind \in Grouped, NEW r, NEW x, NEW s,
         IsRow(kind, r), IsRow(kind, x), IsRow(kind, s),
         InOrder(kind, r, x), InOrder(kind, x, s), Ranks(r.name) = Ranks(s.name)
  PROVE  Ranks(x.name) = Ranks(r.name)
<1> DEFINE kr == SortKey(kind, r)
           kx == SortKey(kind, x)
           ks == SortKey(kind, s)
<1>1. CASE kind = "tc"
  <2>1. /\ kr \in Nat \X Nat \X Nat /\ kx \in Nat \X Nat \X Nat /\ ks \in Nat \X Nat \X Nat
        /\ Ranks(r.name) = << kr[1], kr[2] >> /\ Ranks(x.name) = << kx[1], kx[2] >>
        /\ Ranks(s.name) = << ks[1], ks[2] >>
    BY <1>1, TableKey
  <2>2. ~Before(kx, kr) /\ ~Before(ks, kx)
    BY DEF InOrder
  <2> HIDE DEF kr, kx, ks
  <2>3. kr[1] = ks[1] /\ kr[2] = ks[2]
    <3>1. << kr[1], kr[2] >> = << ks[1], ks[2] >>
      BY <2>1
    <3> QED  BY ONLY <3>1, PairsEqual
  <2>4. ~(kx[1] < kr[1]) /\ ~(kx[1] = kr[1] /\ kx[2] < kr[2])
    BY <2>1, <2>2, BeforeThree
  <2>5. ~(ks[1] < kx[1]) /\ ~(ks[1] = kx[1] /\ ks[2] < kx[2])
    BY <2>1, <2>2, BeforeThree
  <2>6. /\ kr[1] \in Nat /\ kr[2] \in Nat /\ kx[1] \in Nat /\ kx[2] \in Nat
    BY <2>1
  <2>7. kx[1] = kr[1] /\ kx[2] = kr[2]
    BY <2>3, <2>4, <2>5, <2>6
  <2> QED  BY <2>1, <2>7
<1>2. CASE kind \in {"ck", "uq"}
  <2>1. /\ kr \in Nat \X Nat \X Nat \X Nat /\ kx \in Nat \X Nat \X Nat \X Nat
        /\ ks \in Nat \X Nat \X Nat \X Nat
        /\ Ranks(r.name) = << kr[1], kr[2], kr[3] >>
        /\ Ranks(x.name) = << kx[1], kx[2], kx[3] >>
        /\ Ranks(s.name) = << ks[1], ks[2], ks[3] >>
    BY <1>2, ColumnKey
  <2>2. ~Before(kx, kr) /\ ~Before(ks, kx)
    BY DEF InOrder
  <2> HIDE DEF kr, kx, ks
  <2>3. kr[1] = ks[1] /\ kr[2] = ks[2] /\ kr[3] = ks[3]
    <3>1. << kr[1], kr[2], kr[3] >> = << ks[1], ks[2], ks[3] >>
      BY <2>1
    <3> QED  BY ONLY <3>1, TriplesEqual
  <2>4. /\ ~(kx[1] < kr[1]) /\ ~(kx[1] = kr[1] /\ kx[2] < kr[2])
        /\ ~(kx[1] = kr[1] /\ kx[2] = kr[2] /\ kx[3] < kr[3])
    BY <2>1, <2>2, BeforeFour
  <2>5. /\ ~(ks[1] < kx[1]) /\ ~(ks[1] = kx[1] /\ ks[2] < kx[2])
        /\ ~(ks[1] = kx[1] /\ ks[2] = kx[2] /\ ks[3] < kx[3])
    BY <2>1, <2>2, BeforeFour
  <2>6. /\ kr[1] \in Nat /\ kr[2] \in Nat /\ kr[3] \in Nat
        /\ kx[1] \in Nat /\ kx[2] \in Nat /\ kx[3] \in Nat
    BY <2>1
  <2>7. kx[1] = kr[1] /\ kx[2] = kr[2] /\ kx[3] = kr[3]
    BY <2>3, <2>4, <2>5, <2>6
  <2> QED  BY <2>1, <2>7
<1> QED  BY <1>1, <1>2 DEF Grouped

\* Rows of one table are in the order of their positions.
LEMMA PositionOrder ==
  ASSUME NEW r, NEW s, IsRow("tc", r), IsRow("tc", s), Ranks(r.name) = Ranks(s.name)
  PROVE  InOrder("tc", r, s) <=> r.rec.pos =< s.rec.pos
<1> DEFINE kr == SortKey("tc", r)
           ks == SortKey("tc", s)
<1>1. /\ kr \in Nat \X Nat \X Nat /\ ks \in Nat \X Nat \X Nat
      /\ Ranks(r.name) = << kr[1], kr[2] >> /\ Ranks(s.name) = << ks[1], ks[2] >>
      /\ kr[3] = r.rec.pos /\ ks[3] = s.rec.pos
  BY TableKey
<1>2. InOrder("tc", r, s) <=> ~Before(ks, kr)
  BY DEF InOrder
<1> HIDE DEF kr, ks
<1>3. kr[1] = ks[1] /\ kr[2] = ks[2]
  <2>1. << kr[1], kr[2] >> = << ks[1], ks[2] >>
    BY <1>1
  <2> QED  BY ONLY <2>1, PairsEqual
<1>4. Before(ks, kr) <=> ks[3] < kr[3]
  <2>1. kr[1] \in Nat /\ kr[2] \in Nat
    BY <1>1
  <2> QED  BY <1>1, <1>3, <2>1, BeforeThree
<1>5. r.rec.pos \in Nat /\ s.rec.pos \in Nat
  BY DEF IsRow
<1> QED  BY <1>1, <1>2, <1>4, <1>5

\* Names that the collation cannot tell apart normalize to the same.
LEMMA RanksNormalize ==
  ASSUME TiesNormalizeAlike, NEW kind \in Loader, NEW r, NEW s,
         IsRow(kind, r), IsRow(kind, s), Ranks(r.name) = Ranks(s.name)
  PROVE  Normalized(r.name) = Normalized(s.name)
<1>1. r.name \in Seq(Name) /\ s.name \in Seq(Name)
  BY TupleIsSequence DEF IsRow
<1>2. /\ DOMAIN r.name = DOMAIN s.name
      /\ \A i \in DOMAIN r.name : Rank[r.name[i]] = Rank[s.name[i]]
  <2>1. /\ DOMAIN Ranks(r.name) = DOMAIN r.name
        /\ \A i \in DOMAIN r.name : Ranks(r.name)[i] = Rank[r.name[i]]
        /\ DOMAIN Ranks(s.name) = DOMAIN s.name
        /\ \A i \in DOMAIN s.name : Ranks(s.name)[i] = Rank[s.name[i]]
    BY DEF Ranks
  <2> QED  BY <2>1
<1>3. \A i \in DOMAIN r.name : r.name[i] \in Name /\ s.name[i] \in Name
  BY <1>1, <1>2
<1>4. \A i \in DOMAIN r.name : Normal[r.name[i]] = Normal[s.name[i]]
  BY <1>2, <1>3 DEF TiesNormalizeAlike
<1>5. [i \in DOMAIN r.name |-> Normal[r.name[i]]] = [i \in DOMAIN s.name |-> Normal[s.name[i]]]
  BY <1>2, <1>4
<1> QED  BY <1>5 DEF Normalized

\* The rows of a table are numbered from 1.
LEMMA RowsNumbered ==
  ASSUME ColumnsNumbered, NEW db \in Database, NEW r \in Rows("tc", db)
  PROVE  /\ r.rec.pos >= 1
         /\ \A p \in 1..r.rec.pos : \E t \in Rows("tc", db) : t.name = r.name /\ t.rec.pos = p
         /\ \A t \in Rows("tc", db) : t.name = r.name /\ t.rec.pos = r.rec.pos => t = r
<1> DEFINE RowFor(c) == RowOf(<<c.schema, c.table>>, [column |-> c.column, pos |-> c.pos], c)
<1>1. Rows("tc", db) = {RowFor(c) : c \in db.columns}
  BY DEF Rows, TcRows
<1>2. \A c : /\ RowFor(c).name = <<c.schema, c.table>>
             /\ RowFor(c).rec.pos = c.pos
  BY DEF RowOf
<1> HIDE DEF RowFor
<1>3. ASSUME NEW c, NEW d
      PROVE  RowFor(c).name = RowFor(d).name <=> SameTable(c, d)
  <2>1. RowFor(c).name = <<c.schema, c.table>> /\ RowFor(d).name = <<d.schema, d.table>>
    BY <1>2
  <2> QED  BY <2>1, PairsEqual DEF SameTable
<1>4. PICK c \in db.columns : r = RowFor(c)
  BY <1>1
<1>5. c.pos >= 1
  BY DEF ColumnsNumbered
<1>6. ASSUME NEW p \in 1..c.pos
      PROVE  \E t \in Rows("tc", db) : t.name = r.name /\ t.rec.pos = p
  <2>1. PICK d \in db.columns : SameTable(c, d) /\ d.pos = p
    BY DEF ColumnsNumbered
  <2> QED  BY <1>1, <1>2, <1>3, <1>4, <2>1
<1>7. ASSUME NEW t \in Rows("tc", db), t.name = r.name, t.rec.pos = r.rec.pos
      PROVE  t = r
  <2>1. PICK d \in db.columns : t = RowFor(d)
    BY <1>1
  <2>2. SameTable(c, d) /\ d.pos = c.pos
    BY <1>2, <1>3, <1>4, <1>7, <2>1
  <2> QED  BY <1>4, <2>1, <2>2 DEF ColumnsNumbered
<1> QED  BY <1>2, <1>4, <1>5, <1>6, <1>7

AmbiguousIn(kind, c, name, dbs) ==
  \E r, s \in Rows(kind, dbs[c]) :
    /\ r # s /\ Normalized(r.name) = name /\ Normalized(s.name) = name
    /\ kind \in Grouped => r.name # s.name
Explained(kind, c, name, dbs) ==
  (\E d \in 1..(c - 1) : Has(kind, d, name, dbs)) \/ AmbiguousIn(kind, c, name, dbs)
ErrorsExplained(errs, dbs) ==
  \A x \in errs : x.loader # "none" => Explained(x.loader, x.conn, x.name, dbs)
FirstAmbiguous(dbs) == \E kind \in Loader : \E name : AmbiguousIn(kind, 1, name, dbs)

\* A row that was fetched, and is not of the group that is collected.
Closed(row, rws, s) == row \notin rws /\ ~Among(row, s)

\* The entries that there are; those of the query at work hold closed rows.
NoneEmpty(m) == \A kind \in Loader : \A e \in m[kind] : e.recs # << >>
EntriesEarlier(m, l, n) == \A kind \in Loader : \A e \in m[kind] : Earlier(kind, e.conn, l, n)
EntriesClosed(m, l, n, rws, s) ==
  \A kind \in Loader : \A e \in m[kind] :
    \/ Earlier(kind, e.conn, l, n)
    \/ kind = l /\ e.conn = n /\ \A i \in DOMAIN e.recs : Closed(e.recs[i], rws, s)

\* Rows are fetched in order, and what a closed group is of does not return.
FetchedInOrder(kind, all, rws) ==
  \A r \in all, t \in rws : r \notin rws => InOrder(kind, r, t)
GroupsApart(kind, all, rws, s) ==
  kind \in Grouped =>
    \A r, t \in all : Closed(r, rws, s) /\ ~Closed(t, rws, s) => Ranks(r.name) # Ranks(t.name)
GroupFetched(rws, s) == \A i \in DOMAIN s : s[i] \notin rws

\* tc: where in its table the loader is.
AtPosition(all, rws, s, pos) ==
  /\ s = << >> => all \subseteq rws /\ pos = 0
  /\ s # << >> => /\ pos = s[Len(s)].rec.pos
                  /\ \A i \in DOMAIN s : InOrder("tc", s[i], s[Len(s)])

OrderInv ==
  LET all == Rows(loader, databases[conn])
  IN /\ EntriesClosed(mapper, loader, conn, rows, recs)
     /\ FetchedInOrder(loader, all, rows)
     /\ GroupsApart(loader, all, rows, recs)
     /\ GroupFetched(rows, recs)
     /\ loader = "tc" => AtPosition(all, rows, recs, last_column_pos)

ExplainedInv ==
  /\ stage = "connect" => \A kind \in Loader : mapper[kind] = {}
  /\ NoneEmpty(mapper)
  /\ ErrorsExplained(connection_errors, databases)
  /\ stage = "conn_pos_asserted" => FirstAmbiguous(databases)
  /\ stage = "column_pos_asserted" => \E name : AmbiguousIn("tc", conn, name, databases)
  /\ stage = "query" => EntriesEarlier(mapper, loader, conn)
  /\ stage = "rows" => OrderInv

\* A name that is mapped already when a row of it is at hand.
LEMMA RedefinitionExplained ==
  ASSUME TypeInv, CatalogInv, ExplainedInv, stage = "rows",
         NEW s \in Rows(loader, databases[conn]), ~Closed(s, rows, recs),
         IsMapped(Normalized(s.name))
  PROVE  /\ Explained(loader, conn, Normalized(s.name), databases)
         /\ conn = 1 => AmbiguousIn(loader, conn, Normalized(s.name), databases)
<1>1. PICK e \in mapper[loader] : e.name = Normalized(s.name)
  BY DEF IsMapped
<1>2. loader \in Loader /\ conn \in 1..Len(databases) /\ e.conn \in 1..Len(databases)
  BY <1>1 DEF TypeInv, WhereTyped, MapsTyped, MapperTyped, EntryTyped
<1>3. /\ e.recs # << >> /\ e.recs \in Seq(Rows(loader, databases[e.conn]))
      /\ RowsOfName(e.recs, e.name, Rows(loader, databases[e.conn]))
  BY <1>1, <1>2 DEF ExplainedInv, NoneEmpty, TypeInv, MapsTyped, MapperTyped, EntryTyped,
                    CatalogInv, EntriesSound, EntriesOfNames
<1>4. 1 \in DOMAIN e.recs
  BY <1>3
<1>5. e.recs[1] \in Rows(loader, databases[e.conn])
      /\ Normalized(e.recs[1].name) = Normalized(s.name)
  BY <1>1, <1>3, <1>4 DEF RowsOfName
<1>6. \/ Earlier(loader, e.conn, loader, conn)
      \/ e.conn = conn /\ Closed(e.recs[1], rows, recs)
  BY <1>1, <1>2, <1>4 DEF ExplainedInv, OrderInv, EntriesClosed
<1>7. CASE Earlier(loader, e.conn, loader, conn)
  <2>1. e.conn < conn
    BY <1>2, <1>7 DEF Earlier, IndexOf, Loader
  <2>2. Has(loader, e.conn, Normalized(s.name), databases)
    BY <1>5 DEF Has
  <2>3. e.conn \in 1..(conn - 1) /\ conn # 1
    BY <1>2, <2>1
  <2> QED  BY <2>2, <2>3 DEF Explained
<1>8. CASE e.conn = conn /\ Closed(e.recs[1], rows, recs)
  <2>1. e.recs[1] # s
    BY <1>8
  <2>2. GroupsApart(loader, Rows(loader, databases[conn]), rows, recs)
    BY DEF ExplainedInv, OrderInv
  <2>3. loader \in Grouped => Ranks(e.recs[1].name) # Ranks(s.name)
    BY <1>5, <1>8, <2>2 DEF GroupsApart
  <2>4. loader \in Grouped => e.recs[1].name # s.name
    BY <2>3
  <2>5. AmbiguousIn(loader, conn, Normalized(s.name), databases)
    BY <1>5, <1>8, <2>1, <2>4 DEF AmbiguousIn
  <2> QED  BY <2>5 DEF Explained
<1> QED  BY <1>6, <1>7, <1>8

LEMMA ErrorInserted ==
  ASSUME Mapped, NEW name, NEW records, NEW next, Insert(name, records, next)
  PROVE  \A x \in connection_errors' :
           x \in connection_errors \/ (x = Error(loader, conn, name) /\ IsMapped(name))
<1>1. \/ UNCHANGED connection_errors
      \/ /\ IsMapped(name)
         /\ connection_errors' = connection_errors \cup {Error(loader, conn, name)}
  BY Zenon DEF Insert
<1>2. CASE UNCHANGED connection_errors
  BY <1>2
<1>3. CASE IsMapped(name) /\ connection_errors' = connection_errors \cup {Error(loader, conn, name)}
  BY <1>3
<1> QED  BY <1>1, <1>2, <1>3

\* What an insertion may report, and an assertion that it may violate.
LEMMA InsertExplained ==
  ASSUME TypeInv, CatalogInv, ExplainedInv, stage = "rows",
         NEW s \in Rows(loader, databases[conn]), ~Closed(s, rows, recs),
         NEW records, records # << >>, NEW next, next # "conn_pos_asserted",
         Insert(Normalized(s.name), records, next)
  PROVE  /\ ErrorsExplained(connection_errors', databases)
         /\ stage' = "conn_pos_asserted" => FirstAmbiguous(databases)
         /\ NoneEmpty(mapper')
<1>m. Mapped /\ loader \in Loader
  BY DEF TypeInv, MapsTyped, WhereTyped
<1> DEFINE name == Normalized(s.name)
           new == [name |-> name, conn |-> conn, recs |-> records]
           x0 == Error(loader, conn, name)
<1>1. ErrorsExplained(connection_errors, databases)
  BY DEF ExplainedInv
<1>c. \A x \in connection_errors' : x \in connection_errors \/ (x = x0 /\ IsMapped(name))
  BY <1>m, ErrorInserted
<1>2. ASSUME NEW x \in connection_errors', x.loader # "none"
      PROVE  Explained(x.loader, x.conn, x.name, databases)
  <2>1. x \in connection_errors \/ (x = x0 /\ IsMapped(name))
    BY <1>c
  <2>2. CASE x = x0 /\ IsMapped(name)
    <3>1. x.loader = loader /\ x.conn = conn /\ x.name = name
      BY <2>2 DEF Error
    <3> QED  BY <2>2, <3>1, RedefinitionExplained
  <2> QED  BY <1>1, <1>2, <2>1, <2>2 DEF ErrorsExplained
<1>3. ASSUME stage' = "conn_pos_asserted"
      PROVE  FirstAmbiguous(databases)
  <2>1. conn = 1 /\ IsMapped(name)
    BY <1>m, <1>3, InsertChanges
  <2> QED  BY <1>m, <2>1, RedefinitionExplained DEF FirstAmbiguous
<1>4. NoneEmpty(mapper')
  <2> SUFFICES ASSUME NEW kind \in Loader, NEW e \in mapper'[kind]
               PROVE  e.recs # << >>
    BY DEF NoneEmpty
  <2>1. e \in mapper[kind] \/ e = new
    BY <1>m, InsertChanges
  <2> QED  BY <2>1 DEF ExplainedInv, NoneEmpty
<1> QED  BY <1>2, <1>3, <1>4 DEF ErrorsExplained

\* The rows to come once one is fetched.
LEMMA OrderKept ==
  ASSUME TypeInv, ExplainedInv, NEW row \in rows, FetchRow(row)
  PROVE  /\ FetchedInOrder(loader, Rows(loader, databases[conn]), rows')
         /\ \A r \in Rows(loader, databases[conn]) : r \notin rows => InOrder(loader, r, row)
         /\ \A t \in rows' : InOrder(loader, row, t)
<1>1. /\ row \in Rows(loader, databases[conn]) /\ rows' = rows \ {row} /\ stage = "rows"
  BY FetchedRow
<1>2. FetchedInOrder(loader, Rows(loader, databases[conn]), rows)
  BY <1>1 DEF ExplainedInv, OrderInv
<1>3. \A t \in rows : InOrder(loader, row, t)
  BY DEF FetchRow, InOrder
<1> QED  BY <1>1, <1>2, <1>3 DEF FetchedInOrder

\* Entries of the query at work stay closed.
LEMMA EntriesStayClosed ==
  ASSUME TypeInv, ExplainedInv, NEW row \in rows, FetchRow(row),
         \A r : Among(r, recs') => Among(r, recs) \/ r = row
  PROVE  /\ \A r : Closed(r, rows, recs) => Closed(r, rows', recs')
         /\ EntriesClosed(mapper, loader, conn, rows', recs')
<1>1. rows' = rows \ {row} /\ stage = "rows"
  BY FetchedRow
<1>2. EntriesClosed(mapper, loader, conn, rows, recs)
  BY <1>1 DEF ExplainedInv, OrderInv
<1>3. \A r : Closed(r, rows, recs) => Closed(r, rows', recs')
  BY <1>1 DEF Closed
<1> QED  BY <1>2, <1>3 DEF EntriesClosed

LEMMA EntriesInsertedClosed ==
  ASSUME TypeInv, ExplainedInv, NEW row \in rows, FetchRow(row),
         \A r : Among(r, recs') => Among(r, recs) \/ r = row,
         NEW name, NEW records, NEW next, Insert(name, records, next),
         \A i \in DOMAIN records : Closed(records[i], rows', recs')
  PROVE  EntriesClosed(mapper', loader, conn, rows', recs')
<1> DEFINE new == [name |-> name, conn |-> conn, recs |-> records]
<1> SUFFICES ASSUME NEW kind \in Loader, NEW e \in mapper'[kind]
             PROVE  \/ Earlier(kind, e.conn, loader, conn)
                    \/ /\ kind = loader /\ e.conn = conn
                       /\ \A i \in DOMAIN e.recs : Closed(e.recs[i], rows', recs')
  BY DEF EntriesClosed
<1>1. e \in mapper[kind] \/ (kind = loader /\ e = new)
  BY InsertChanges DEF TypeInv, MapsTyped
<1>2. EntriesClosed(mapper, loader, conn, rows', recs')
  BY EntriesStayClosed
<1> QED  BY <1>1, <1>2 DEF EntriesClosed

\* A program that stops at an assertion or a failed query.
LEMMA ExplainedStopped ==
  ASSUME NoneEmpty(mapper'), ErrorsExplained(connection_errors', databases'),
         stage' \notin {"connect", "query", "rows"},
         stage' = "conn_pos_asserted" => FirstAmbiguous(databases'),
         stage' = "column_pos_asserted" => \E name : AmbiguousIn("tc", conn', name, databases')
  PROVE  ExplainedInv'
  BY DEF ExplainedInv

LEMMA ExplainedGroupGrows ==
  ASSUME TypeInv, CatalogInv, ExplainedInv, NEW row \in rows, FetchRow(row),
         loader = "tc" => last_column_pos' = row.rec.pos,
         recs' = Append(recs, row),
         UNCHANGED << mapper, connection_errors, stage >>
  PROVE  ExplainedInv'
<1> DEFINE Selected == Rows(loader, databases[conn])
<1>1. /\ row \in Selected /\ rows' = rows \ {row} /\ stage = "rows" /\ IsRow(loader, row)
      /\ UNCHANGED << databases, loader, conn >>
  BY FetchedRow
<1>2. recs \in Seq(Selected)
  BY <1>1 DEF TypeInv, RowsTyped
<1>3. OrderInv
  BY <1>1 DEF ExplainedInv
<1>4. \A r : Among(r, recs') <=> Among(r, recs) \/ r = row
  BY <1>1, <1>2, AmongAppended
<1>5. EntriesClosed(mapper, loader, conn, rows', recs')
  BY <1>4, EntriesStayClosed
<1>6. FetchedInOrder(loader, Selected, rows')
  BY OrderKept
<1>7. \A r : Closed(r, rows', recs') <=> Closed(r, rows, recs)
  BY <1>1, <1>4 DEF Closed
<1>8. GroupsApart(loader, Selected, rows', recs')
  BY <1>3, <1>7 DEF OrderInv, GroupsApart
<1>9. GroupFetched(rows', recs')
  <2> SUFFICES ASSUME NEW i \in DOMAIN recs'
               PROVE  recs'[i] \notin rows'
    BY DEF GroupFetched
  <2>1. Among(recs'[i], recs) \/ recs'[i] = row
    BY <1>4 DEF Among
  <2> QED  BY <1>1, <1>3, <2>1 DEF Among, OrderInv, GroupFetched
<1>10. ASSUME loader = "tc"
       PROVE  AtPosition(Selected, rows', recs', last_column_pos')
  <2>1. /\ recs' # << >> /\ Len(recs') = Len(recs) + 1 /\ recs'[Len(recs')] = row
    BY <1>1, <1>2
  <2>2. ASSUME NEW i \in DOMAIN recs'
        PROVE  InOrder("tc", recs'[i], row)
    <3>1. Among(recs'[i], recs) \/ recs'[i] = row
      BY <1>4 DEF Among
    <3>2. CASE Among(recs'[i], recs)
      <4>1. recs'[i] \in Selected /\ recs'[i] \notin rows
        BY <1>1, <1>3, <3>2 DEF Among, OrderInv, GroupFetched, CatalogInv, RowsOfName
      <4> QED  BY <1>10, <4>1, OrderKept
    <3>3. CASE recs'[i] = row
      <4>1. IsRow("tc", row) /\ row.rec.pos =< row.rec.pos
        BY <1>1, <1>10 DEF IsRow
      <4> QED  BY <3>3, <4>1, PositionOrder
    <3> QED  BY <3>1, <3>2, <3>3
  <2> QED  BY <1>10, <2>1, <2>2 DEF AtPosition
<1>11. OrderInv'
  BY <1>1, <1>5, <1>6, <1>8, <1>9, <1>10 DEF OrderInv
<1> QED  BY <1>1, <1>11 DEF ExplainedInv

\* A row starts a new group: the rows of the last are of another name, and in
\* the order of the query no row of that name follows.
LEMMA GroupClosed ==
  ASSUME TiesNormalizeAlike, TypeInv, CatalogInv, ExplainedInv, loader \in Grouped,
         NEW row \in rows, FetchRow(row), Normalized(row.name) # last_name,
         recs' = << row >>
  PROVE  GroupsApart(loader, Rows(loader, databases[conn]), rows', recs')
<1> DEFINE Selected == Rows(loader, databases[conn])
<1>1. /\ row \in Selected /\ rows' = rows \ {row} /\ stage = "rows" /\ IsRow(loader, row)
      /\ databases[conn] \in Database /\ loader \in Loader
      /\ rows \subseteq Selected
  BY FetchedRow DEF TypeInv, RowsTyped
<1>2. OrderInv /\ RowsOfName(recs, last_name, Selected)
  BY <1>1 DEF ExplainedInv, CatalogInv
<1>3. SUFFICES ASSUME NEW r \in Selected, NEW t \in Selected,
                      Closed(r, rows', recs'), ~Closed(t, rows', recs'),
                      Ranks(r.name) = Ranks(t.name)
               PROVE  FALSE
  BY DEF GroupsApart
<1>4. r # row /\ r \notin rows
  BY <1>1, <1>3, AmongOne DEF Closed
<1>5. t = row \/ t \in rows'
  BY <1>1, <1>3, AmongOne DEF Closed
<1>6. ~Closed(t, rows, recs)
  BY <1>1, <1>5 DEF Closed
<1>7. Among(r, recs)
  BY <1>2, <1>3, <1>4, <1>6 DEF OrderInv, GroupsApart, Closed
<1>8. Normalized(r.name) = last_name
  BY <1>2, <1>7 DEF Among, RowsOfName
<1>9. IsRow(loader, r) /\ IsRow(loader, t)
  BY <1>1, RowType
<1>10. Ranks(row.name) = Ranks(r.name)
  <2>1. CASE t = row
    BY <1>3, <2>1
  <2>2. CASE t \in rows'
    <3>1. InOrder(loader, r, row) /\ InOrder(loader, row, t)
      BY <1>4, <2>2, OrderKept
    <3> QED  BY <1>1, <1>3, <1>9, <3>1, NothingBetween
  <2> QED  BY <1>5, <2>1, <2>2
<1> QED  BY <1>1, <1>8, <1>9, <1>10, RanksNormalize

LEMMA ExplainedNewGroup ==
  ASSUME TiesNormalizeAlike, TypeInv, CatalogInv, ExplainedInv, loader \in Grouped,
         NEW row \in rows, FetchRow(row), Normalized(row.name) # last_name, recs # << >>,
         loader = "tc" => last_column_pos' = row.rec.pos,
         recs' = << row >>, Insert(last_name, recs, "rows")
  PROVE  ExplainedInv'
<1> DEFINE Selected == Rows(loader, databases[conn])
<1>1. /\ row \in Selected /\ rows' = rows \ {row} /\ stage = "rows" /\ IsRow(loader, row)
      /\ UNCHANGED << databases, loader, conn >>
  BY FetchedRow
<1>2. OrderInv /\ RowsOfName(recs, last_name, Selected) /\ recs \in Seq(Selected)
  BY <1>1 DEF ExplainedInv, CatalogInv, TypeInv, RowsTyped
<1>3. \A r : Among(r, recs') <=> r = row
  BY AmongOne
<1>4. /\ ErrorsExplained(connection_errors', databases)
      /\ stage' = "conn_pos_asserted" => FirstAmbiguous(databases)
      /\ NoneEmpty(mapper')
  <2>1. 1 \in DOMAIN recs
    BY <1>2
  <2>2. /\ recs[1] \in Selected /\ Normalized(recs[1].name) = last_name
        /\ ~Closed(recs[1], rows, recs)
    BY <1>2, <2>1 DEF RowsOfName, Closed, Among
  <2> QED  BY <1>1, <2>2, InsertExplained
<1>5. stage' = "rows" \/ stage' = "conn_pos_asserted"
  BY InsertMaps DEF TypeInv, MapsTyped
<1>6. \A i \in DOMAIN recs : Closed(recs[i], rows', recs')
  BY <1>1, <1>2, <1>3 DEF OrderInv, GroupFetched, Closed
<1>7. EntriesClosed(mapper', loader, conn, rows', recs')
  BY <1>3, <1>6, EntriesInsertedClosed
<1>8. FetchedInOrder(loader, Selected, rows')
  BY OrderKept
<1>9. GroupsApart(loader, Selected, rows', recs')
  BY GroupClosed
<1>10. GroupFetched(rows', recs')
  BY <1>1 DEF GroupFetched
<1>11. ASSUME loader = "tc"
       PROVE  AtPosition(Selected, rows', recs', last_column_pos')
  <2>1. IsRow("tc", row) /\ row.rec.pos =< row.rec.pos
    BY <1>1, <1>11 DEF IsRow
  <2>2. InOrder("tc", row, row)
    BY <2>1, PositionOrder
  <2> QED  BY <1>11, <2>2 DEF AtPosition
<1>12. OrderInv'
  BY <1>1, <1>7, <1>8, <1>9, <1>10, <1>11 DEF OrderInv
<1> QED  BY <1>1, <1>4, <1>5, <1>12 DEF ExplainedInv

\* pk, fk: each row is mapped by itself.
LEMMA ExplainedSingleRow ==
  ASSUME TypeInv, CatalogInv, ExplainedInv, loader \in {"pk", "fk"},
         NEW row \in rows, FetchRow(row), UNCHANGED groupVars,
         Insert(Normalized(row.name), << row >>, "rows")
  PROVE  ExplainedInv'
<1> DEFINE Selected == Rows(loader, databases[conn])
<1>1. /\ row \in Selected /\ rows' = rows \ {row} /\ stage = "rows"
      /\ UNCHANGED << databases, loader, conn >> /\ recs' = recs
  BY FetchedRow DEF groupVars
<1>2. OrderInv
  BY <1>1 DEF ExplainedInv
<1>3. ~Closed(row, rows, recs) /\ << row >> # << >>
  BY DEF Closed
<1>4. /\ ErrorsExplained(connection_errors', databases)
      /\ stage' = "conn_pos_asserted" => FirstAmbiguous(databases)
      /\ NoneEmpty(mapper')
  BY <1>1, <1>3, InsertExplained
<1>5. stage' = "rows" \/ stage' = "conn_pos_asserted"
  BY InsertMaps DEF TypeInv, MapsTyped
<1>6. \A i \in DOMAIN << row >> : Closed(<< row >>[i], rows', recs')
  BY <1>1, <1>2 DEF OrderInv, GroupFetched, Closed, Among
<1>7. EntriesClosed(mapper', loader, conn, rows', recs')
  BY <1>1, <1>6, EntriesInsertedClosed
<1>8. FetchedInOrder(loader, Selected, rows')
  BY OrderKept
<1>9. GroupsApart(loader, Selected, rows', recs')
  BY DEF GroupsApart, Grouped
<1>10. GroupFetched(rows', recs')
  BY <1>1, <1>2 DEF OrderInv, GroupFetched
<1>11. OrderInv'
  BY <1>1, <1>7, <1>8, <1>9, <1>10 DEF OrderInv
<1> QED  BY <1>1, <1>4, <1>5, <1>11 DEF ExplainedInv

\* The loaders' assertion on the positions of columns holds, unless two tables'
\* names normalize to the same.
LEMMA PositionExplained ==
  ASSUME TiesNormalizeAlike, ColumnsNumbered, TypeInv, CatalogInv, ExplainedInv,
         NEW row \in rows, ColumnPosAsserted(row)
  PROVE  AmbiguousIn("tc", conn, Normalized(row.name), databases)
<1> DEFINE Selected == Rows("tc", databases[conn])
           name == Normalized(row.name)
<1>1. loader = "tc" /\ FetchRow(row)
      /\ row.rec.pos # IF name = last_name THEN last_column_pos + 1 ELSE 1
  BY DEF ColumnPosAsserted
<1>2. /\ row \in Selected /\ stage = "rows" /\ databases[conn] \in Database
      /\ IsRow("tc", row) /\ rows \subseteq Selected /\ recs \in Seq(Selected)
  BY <1>1, FetchedRow DEF TypeInv, RowsTyped
<1>3. OrderInv /\ RowsOfName(recs, last_name, Selected)
  BY <1>1, <1>2 DEF ExplainedInv, CatalogInv
<1>4. SUFFICES ASSUME ~AmbiguousIn("tc", conn, name, databases)
               PROVE  FALSE
  OBVIOUS
<1>5. \A t \in Selected : Normalized(t.name) = name => t.name = row.name
  BY <1>2, <1>4 DEF AmbiguousIn, Grouped
<1>6. /\ row.rec.pos >= 1 /\ row.rec.pos \in Nat
      /\ \A p \in 1..row.rec.pos : \E t \in Selected : t.name = row.name /\ t.rec.pos = p
      /\ \A t \in Selected : t.name = row.name /\ t.rec.pos = row.rec.pos => t = row
  BY <1>2, RowsNumbered DEF IsRow
\* An earlier row of the table has been fetched, into the group.
<1>7. ASSUME NEW t \in Selected, t.name = row.name, t.rec.pos < row.rec.pos
      PROVE  Among(t, recs)
  <2>1. IsRow("tc", t)
    BY <1>2, RowType DEF Loader
  <2>2. ~InOrder("tc", row, t)
    <3>1. InOrder("tc", row, t) <=> row.rec.pos =< t.rec.pos
      BY <1>2, <1>7, <2>1, PositionOrder
    <3>2. t.rec.pos \in Nat
      BY <2>1 DEF IsRow
    <3> QED  BY <1>6, <1>7, <3>1, <3>2
  <2>3. t \notin rows
    BY <1>1, <2>2 DEF FetchRow, InOrder
  <2>4. ~Closed(row, rows, recs)
    BY DEF Closed
  <2>5. ~Closed(t, rows, recs)
    BY <1>1, <1>2, <1>3, <1>7, <2>4 DEF OrderInv, GroupsApart, Grouped
  <2> QED  BY <2>3, <2>5 DEF Closed
<1>8. CASE name # last_name \/ recs = << >>
  <2>1. row.rec.pos # 1
    BY <1>1, <1>3, <1>8 DEF OrderInv, AtPosition
  <2>2. 1 \in 1..row.rec.pos /\ 1 < row.rec.pos
    BY <1>6, <2>1
  <2>3. PICK t \in Selected : t.name = row.name /\ t.rec.pos = 1
    BY <1>6, <2>2
  <2>4. Among(t, recs)
    BY <1>7, <2>2, <2>3
  <2>5. Normalized(t.name) = last_name /\ recs # << >>
    BY <1>3, <2>4 DEF Among, RowsOfName
  <2> QED  BY <1>8, <2>3, <2>5
<1>9. CASE name = last_name /\ recs # << >>
  <2> DEFINE last == recs[Len(recs)]
  <2>1. Len(recs) \in DOMAIN recs
    BY <1>2, <1>9
  <2>2. /\ last \in Selected /\ Normalized(last.name) = name /\ last \notin rows
        /\ last_column_pos = last.rec.pos
        /\ \A i \in DOMAIN recs : InOrder("tc", recs[i], last)
    BY <1>1, <1>3, <1>9, <2>1 DEF RowsOfName, OrderInv, GroupFetched, AtPosition
  <2> HIDE DEF last
  <2>3. last.name = row.name /\ IsRow("tc", last) /\ last # row
    BY <1>2, <1>5, <2>2, RowType DEF Loader
  <2>4. last.rec.pos \in Nat
    BY <2>3 DEF IsRow
  <2>5. last.rec.pos =< row.rec.pos
    <3>1. InOrder("tc", last, row)
      BY <1>1, <1>2, <1>3, <2>2 DEF OrderInv, FetchedInOrder
    <3> QED  BY <1>2, <2>3, <3>1, PositionOrder
  <2>6. last.rec.pos # row.rec.pos
    BY <1>6, <2>2, <2>3
  <2>7. row.rec.pos # last.rec.pos + 1
    BY <1>1, <1>9, <2>2
  <2>8. last.rec.pos + 1 < row.rec.pos /\ last.rec.pos + 1 \in 1..row.rec.pos
    BY <1>6, <2>4, <2>5, <2>6, <2>7
  <2>9. PICK t \in Selected : t.name = row.name /\ t.rec.pos = last.rec.pos + 1
    BY <1>6, <2>8
  <2>10. Among(t, recs)
    BY <1>7, <2>8, <2>9
  <2>11. InOrder("tc", t, last)
    BY <2>2, <2>10 DEF Among
  <2>12. t.rec.pos =< last.rec.pos
    <3>1. IsRow("tc", t)
      BY <1>2, RowType DEF Loader
    <3> QED  BY <2>3, <2>9, <2>11, <3>1, PositionOrder
  <2> QED  BY <2>4, <2>9, <2>12
<1> QED  BY <1>8, <1>9

\* The entries of the query that has ended are of an earlier one.
LEMMA EarlierThanNext ==
  ASSUME WhereTyped, NextQuery, ~LastQuery, NEW kind \in Loader, NEW c \in 1..Len(databases),
         Earlier(kind, c, loader, conn) \/ (kind = loader /\ c = conn)
  PROVE  Earlier(kind, c, loader', conn')
<1>1. loader \in Loader /\ conn \in 1..Len(databases) /\ Len(databases) \in Nat
  BY DEF WhereTyped
<1>2. CASE conn < Len(databases)
  <2>1. conn' = conn + 1 /\ loader' = loader
    BY <1>2 DEF NextQuery
  <2> QED  BY <1>1, <2>1 DEF Earlier
<1>3. CASE conn = Len(databases)
  <2>1. loader' = NextLoader[loader] /\ loader # "tc"
    BY <1>1, <1>3 DEF NextQuery, LastQuery
  <2>2. IndexOf[loader'] = IndexOf[loader] + 1 /\ IndexOf[loader] \in Nat /\ IndexOf[kind] \in Nat
    BY <1>1, <2>1 DEF Loader, IndexOf, NextLoader
  <2>3. IndexOf[kind] =< IndexOf[loader]
    BY <1>1, <2>2 DEF Earlier
  <2> QED  BY <2>2, <2>3 DEF Earlier
<1> QED  BY <1>1, <1>2, <1>3

LEMMA ExplainedEndOfRows ==
  ASSUME TypeInv, CatalogInv, ExplainedInv, EndOfRows, MapsTyped'
  PROVE  ExplainedInv'
<1>t. WhereTyped /\ Mapped /\ loader \in Loader
  BY DEF TypeInv, MapsTyped, WhereTyped
<1>1. /\ stage = "rows" /\ NextQuery /\ UNCHANGED databases
  BY DEF EndOfRows
<1>2. /\ OrderInv /\ NoneEmpty(mapper) /\ ErrorsExplained(connection_errors, databases)
  BY <1>1 DEF ExplainedInv
<1>3. ASSUME stage' = StageAfter, NoneEmpty(mapper'),
             ErrorsExplained(connection_errors', databases),
             \A kind \in Loader : \A e \in mapper'[kind] :
               e \in mapper[kind] \/ (kind = loader /\ e.conn = conn)
      PROVE  ExplainedInv'
  <2>1. CASE LastQuery
    <3>1. stage' = "finish"
      BY <1>3, <2>1 DEF StageAfter
    <3> QED  BY <1>1, <1>3, <3>1, ExplainedStopped
  <2>2. CASE ~LastQuery
    <3>1. stage' = "query"
      BY <1>3, <2>2 DEF StageAfter
    <3>2. EntriesEarlier(mapper', loader', conn')
      <4> SUFFICES ASSUME NEW kind \in Loader, NEW e \in mapper'[kind]
                   PROVE  Earlier(kind, e.conn, loader', conn')
        BY DEF EntriesEarlier
      <4>1. Earlier(kind, e.conn, loader, conn) \/ (kind = loader /\ e.conn = conn)
        BY <1>2, <1>3 DEF OrderInv, EntriesClosed
      <4>2. e.conn \in 1..Len(databases)
        BY <1>1 DEF MapsTyped, MapperTyped, EntryTyped
      <4> QED  BY <1>t, <1>1, <2>2, <4>1, <4>2, EarlierThanNext
    <3> QED  BY <1>1, <1>3, <3>1, <3>2 DEF ExplainedInv
  <2> QED  BY <2>1, <2>2
<1>4. CASE stage' = StageAfter /\ UNCHANGED << mapper, connection_errors >>
  BY <1>2, <1>3, <1>4
<1>5. CASE recs # << >> /\ Insert(last_name, recs, StageAfter)
  <2> DEFINE new == [name |-> last_name, conn |-> conn, recs |-> recs]
  <2>1. /\ ErrorsExplained(connection_errors', databases)
        /\ stage' = "conn_pos_asserted" => FirstAmbiguous(databases)
        /\ NoneEmpty(mapper')
    <3>1. recs \in Seq(Rows(loader, databases[conn]))
          /\ RowsOfName(recs, last_name, Rows(loader, databases[conn]))
      BY <1>1 DEF TypeInv, RowsTyped, CatalogInv
    <3>2. 1 \in DOMAIN recs
      BY <1>5, <3>1
    <3>3. /\ recs[1] \in Rows(loader, databases[conn])
          /\ Normalized(recs[1].name) = last_name /\ ~Closed(recs[1], rows, recs)
      BY <3>1, <3>2 DEF RowsOfName, Closed, Among
    <3>4. StageAfter # "conn_pos_asserted"
      BY DEF StageAfter
    <3> QED  BY <1>1, <1>5, <3>3, <3>4, InsertExplained
  <2>2. stage' = StageAfter \/ stage' = "conn_pos_asserted"
    BY <1>t, <1>5, InsertMaps
  <2>3. CASE stage' = "conn_pos_asserted"
    BY <1>1, <2>1, <2>3, ExplainedStopped
  <2>4. CASE stage' = StageAfter
    <3>1. \A kind \in Loader : \A e \in mapper'[kind] :
            e \in mapper[kind] \/ (kind = loader /\ e = new)
      BY <1>t, <1>5, InsertChanges
    <3>2. \A kind \in Loader : \A e \in mapper'[kind] :
            e \in mapper[kind] \/ (kind = loader /\ e.conn = conn)
      BY <3>1
    <3> QED  BY <1>3, <2>1, <2>4, <3>2
  <2> QED  BY <2>2, <2>3, <2>4
<1> QED  BY <1>4, <1>5 DEF EndOfRows

LEMMA ExplainedInit == Init => ExplainedInv
  BY DEF Init, ExplainedInv, NoneEmpty, ErrorsExplained

LEMMA ExplainedStep ==
  ASSUME TiesNormalizeAlike, ColumnsNumbered
  PROVE  TypeInv /\ TypeInv' /\ CatalogInv /\ ExplainedInv /\ [Next]_vars => ExplainedInv'
<1> SUFFICES ASSUME TypeInv, TypeInv', CatalogInv, ExplainedInv, [Next]_vars
             PROVE  ExplainedInv'
  OBVIOUS
<1>e. NoneEmpty(mapper) /\ ErrorsExplained(connection_errors, databases)
  BY DEF ExplainedInv
<1>1. CASE Connect
  <2>1. PICK refusing \in SUBSET (1..Len(databases)) :
          /\ connection_errors' = {Error("none", c, << >>) : c \in refusing}
          /\ stage' = IF refusing = {} THEN "query" ELSE "threw"
    BY <1>1 DEF Connect
  <2>2. UNCHANGED << databases, loader, conn, mapper >> /\ stage = "connect"
    BY <1>1 DEF Connect
  <2>3. ErrorsExplained(connection_errors', databases')
    BY <2>1 DEF ErrorsExplained, Error
  <2>4. \A kind \in Loader : mapper'[kind] = {}
    BY <2>2 DEF ExplainedInv
  <2>5. NoneEmpty(mapper') /\ EntriesEarlier(mapper', loader', conn')
    BY <2>4 DEF NoneEmpty, EntriesEarlier
  <2> QED  BY <2>1, <2>3, <2>5 DEF ExplainedInv
<1>2. CASE Query
  <2>1. /\ stage = "query" /\ stage' = "rows" /\ rows' = Rows(loader, databases[conn])
        /\ recs' = << >> /\ last_column_pos' = 0
        /\ UNCHANGED << databases, loader, conn, mapper, connection_errors >>
    BY <1>2 DEF Query
  <2>2. EntriesClosed(mapper', loader', conn', rows', recs')
    BY <2>1 DEF ExplainedInv, EntriesEarlier, EntriesClosed
  <2>3. \A r \in Rows(loader, databases[conn]) : r \in rows' /\ ~Closed(r, rows', recs')
    BY <2>1 DEF Closed
  <2>4. /\ FetchedInOrder(loader, Rows(loader, databases[conn]), rows')
        /\ GroupsApart(loader, Rows(loader, databases[conn]), rows', recs')
    BY <2>3 DEF FetchedInOrder, GroupsApart
  <2>5. GroupFetched(rows', recs')
    BY <2>1 DEF GroupFetched
  <2>6. AtPosition(Rows(loader, databases[conn]), rows', recs', last_column_pos')
    BY <2>1 DEF AtPosition
  <2>7. OrderInv'
    BY <2>1, <2>2, <2>4, <2>5, <2>6 DEF OrderInv
  <2> QED  BY <1>e, <2>1, <2>7 DEF ExplainedInv
<1>3. CASE QueryFails
  BY <1>e, <1>3, ExplainedStopped DEF QueryFails
<1>4. ASSUME NEW row \in rows, GroupRow(row)
      PROVE  ExplainedInv'
  <2>1. /\ FetchRow(row) /\ loader \in Grouped
        /\ loader = "tc" => last_column_pos' = row.rec.pos
    BY <1>4 DEF GroupRow
  <2>2. CASE recs' = Append(recs, row) /\ UNCHANGED << mapper, connection_errors, stage >>
    BY <2>1, <2>2, ExplainedGroupGrows
  <2>3. CASE /\ Normalized(row.name) # last_name /\ recs # << >>
             /\ recs' = << row >>
             /\ Insert(last_name, recs, "rows")
    BY <2>1, <2>3, ExplainedNewGroup
  <2> QED  BY <1>4, <2>2, <2>3 DEF GroupRow
<1>5. ASSUME NEW row \in rows, ColumnPosAsserted(row)
      PROVE  ExplainedInv'
  <2>1. AmbiguousIn("tc", conn, Normalized(row.name), databases)
    BY <1>5, PositionExplained
  <2>2. UNCHANGED << databases, conn, mapper, connection_errors >>
        /\ stage' = "column_pos_asserted"
    BY <1>5 DEF ColumnPosAsserted, FetchRow
  <2> QED  BY <1>e, <2>1, <2>2, ExplainedStopped
<1>6. ASSUME NEW row \in rows, PkRow(row) \/ FkRow(row)
      PROVE  ExplainedInv'
  <2>1. /\ FetchRow(row) /\ UNCHANGED groupVars /\ loader \in {"pk", "fk"}
        /\ Insert(Normalized(row.name), << row >>, "rows")
    BY <1>6 DEF PkRow, FkRow
  <2> QED  BY <2>1, ExplainedSingleRow
<1>7. CASE EndOfRows
  BY <1>7, ExplainedEndOfRows DEF TypeInv
<1>8. CASE Finish
  BY <1>e, <1>8, ExplainedStopped DEF Finish
<1>9. CASE UNCHANGED vars
  BY <1>9 DEF vars, groupVars, ExplainedInv, OrderInv
<1> QED
  BY <1>1, <1>2, <1>3, <1>4, <1>5, <1>6, <1>7, <1>8, <1>9 DEF Next

(***************************************************************************)
(* Where the collation ties only names that normalize alike, and the       *)
(* columns of every table are numbered from 1, an error names a name that  *)
(* an earlier database has too, or two things of one database, and only    *)
(* for two such things does an assertion of the loaders fail               *)
(* (insert_ck_map_rec, insert_tc_map_rec and their like).                  *)
(***************************************************************************)
THEOREM NoSpuriousRedefinitionCorrect ==
  ASSUME TiesNormalizeAlike, ColumnsNumbered
  PROVE  Spec => []NoSpuriousRedefinition
<1>1. Init => ExplainedInv
  BY ExplainedInit
<1>2. TypeInv /\ TypeInv' /\ CatalogInv /\ ExplainedInv /\ [Next]_vars => ExplainedInv'
  BY ExplainedStep
<1>3. TypeInv /\ ExplainedInv => NoSpuriousRedefinition
  <2> SUFFICES ASSUME TypeInv, ExplainedInv
               PROVE  NoSpuriousRedefinition
    OBVIOUS
  <2>1. \A kind, c, name : AmbiguousIn(kind, c, name, databases) =>
          Ambiguous(kind, c, name) /\ name \in NamesOf(kind, c)
    BY DEF AmbiguousIn, Ambiguous, NamesOf
  <2>2. ASSUME NEW e \in connection_errors, e.loader # "none"
        PROVE  \/ \E c \in 1..(e.conn - 1) : e.name \in NamesOf(e.loader, c)
               \/ Ambiguous(e.loader, e.conn, e.name)
    <3>1. Explained(e.loader, e.conn, e.name, databases)
      BY <2>2 DEF ExplainedInv, ErrorsExplained
    <3> QED  BY <2>1, <3>1 DEF Explained, Has, NamesOf
  <2>3. stage = "conn_pos_asserted" =>
          \E kind \in Loader : \E name \in NamesOf(kind, 1) : Ambiguous(kind, 1, name)
    BY <2>1 DEF ExplainedInv, FirstAmbiguous
  <2>4. stage = "column_pos_asserted" =>
          \E name \in NamesOf("tc", conn) : Ambiguous("tc", conn, name)
    BY <2>1 DEF ExplainedInv
  <2> QED  BY <2>2, <2>3, <2>4 DEF NoSpuriousRedefinition
<1> QED  BY <1>1, <1>2, <1>3, CatalogCorrect, PTL DEF Spec
===============================================================================
