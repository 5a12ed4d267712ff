SPECIFICATION Spec
CONSTANTS
  Actor = {a1, a2}
  Content = {c1}
  Size = 2
INVARIANTS
  ContentAddressed
