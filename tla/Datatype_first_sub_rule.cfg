CONSTANTS
  Undefined = Undefined
  DatatypeRule <- MCDatatypeRule
  Datatype <- MCDatatype
SPECIFICATION Spec
\* One column: its migration ends.
CHECK_DEADLOCK FALSE
INVARIANTS
  TypeOK
  FirstSubRuleApplied
