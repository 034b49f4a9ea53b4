CONSTANTS
  Column = {a, b, c}
  TableMigrators = {"dbunit_hsqldb"}
SYMMETRY ColumnSymmetry
SPECIFICATION CreateTableSpec
INVARIANTS
  NoTrailingSeparator
