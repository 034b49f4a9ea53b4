CONSTANTS
  Invalid = Invalid
  Name <- MCName
  Normal <- MCNormal
  Rank <- MCRank
  Database <- MCDatabase
  MaxDatabases = 3
SPECIFICATION Spec
\* Loading ends.
CHECK_DEADLOCK FALSE
INVARIANTS
  TypeOK
  OneDatabase
  GroupsComplete
  NoDanglingRecord
  AllRedefinitionsThrown
  NoSpuriousRedefinition
