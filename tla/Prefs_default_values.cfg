SPECIFICATION Spec
CONSTANTS
  Word <- MCWord
  Cont <- MCCont
  Other <- MCOther
  Placeholder <- MCPlaceholder
  Name <- MCName
  Upper <- MCUpper
  DefaultValue <- MCDefaultValue
  Document <- MCDocument
  NotAnInt32 = NotAnInt32
  MaxLength = 4
INVARIANTS
  TypeOK
  NoRuleLost
  RewriteValidated
  NoMacroLeft
  UnchangedKept
  LiteralsKept
  ParenthesesInPairs
PROPERTY
  Terminates
CHECK_DEADLOCK FALSE
