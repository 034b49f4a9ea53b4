CONSTANTS
  None = None
  Column <- MCColumn
  Table <- MCTable
  Schema <- MCSchema
  Name <- MCName
  SchemaOf <- MCSchemaOf
  Rank <- MCRank
  IdentityUnique <- MCIdentityUnique
  TableMigrators = {"dbunit_hsqldb"}
  Catalog <- CompositeCatalog
  SourceFile <- MCSourceFile
  MaxFiles = 1
SPECIFICATION Spec
\* A run ends after its last file, or when it is aborted.
CHECK_DEADLOCK FALSE
INVARIANT RejectedNowhere
