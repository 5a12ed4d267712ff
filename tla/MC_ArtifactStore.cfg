SPECIFICATION Spec
CONSTANTS
  Actor = {a1, a2}
  Content = {c1, c2}
  Size = 2
INVARIANTS
  TypeOK
  HandleNamesFile
PROPERTIES
  CompleteStays
  HandleCompletes
