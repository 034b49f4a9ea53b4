CONSTANTS
  None = None
  Column <- MCColumn
  Table <- MCTable
  Schema <- MCSchema
  Name <- MCName
  SchemaOf <- MCSchemaOf
  Rank <- MCRank
  IdentityUnique <- MCIdentityUnique
  TableMigrators = {"dbunit_hsqldb", "dbunit_pkvsid"}
  Catalog <- AllCatalog
  SourceFile <- AllSourceFile
  MaxFiles = 3
SPECIFICATION Spec
\* A run ends after its last file, or when it is aborted.
CHECK_DEADLOCK FALSE
INVARIANTS
  TypeOK
  RejectedNowhere
  ConstraintsOnCreated
  SchemaOnce
  HistoryFreeConstraints
  UsedForeignKeyTarget
PROPERTIES
  HidesOnlyRejected
  ImplementsTableStatement
