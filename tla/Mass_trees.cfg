CONSTANTS
  r1 = r1
  r2 = r2
  p = p
  q = q
  xml = xml
  old = old
  t = t
  u = u
  v = v
  w = w
  c = c
  d = d
  Invalid = Invalid
  NoRoot = NoRoot
  Root <- MCRoot
  Path <- MCPath
  Extension <- MCExtension
  Table <- MCTable
  Column <- MCColumn
  Undefined <- MCUndefined
  FkTarget <- MCFkTarget
  Hides <- MCHides
  Place <- MCPlace
  Options <- MCOptions
  Tree <- MCTree
SPECIFICATION Spec
\* A run ends.
CHECK_DEADLOCK FALSE
INVARIANTS
  TypeOK
  ScriptOfItsFiles
  NoFileLost
  TornScriptIsLast
  MessagesOfFiles
  MessagesOrdered
PROPERTY
  RunEnds
