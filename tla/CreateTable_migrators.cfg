CONSTANTS
  Column = {a, b, c}
  TableMigrators = {"dbunit_hsqldb", "dbunit_pkvsid"}
SYMMETRY ColumnSymmetry
SPECIFICATION CreateTableSpec
INVARIANTS
  CreateTableTypeOK
  HsqldbStatement
  SeparatorDiscipline
  PkvsidSingleIdentity
  PkvsidStatement
PROPERTY ImplementsTableStatement
