SPECIFICATION Spec
CONSTANTS
  Session = {s1, s2}
  Binary = {b1, b2}
  Path = {p1, p2}
  Profile = {"lean", "full"}
  MaxRun = 2
  MaxFn = 2
  FlushAt = 2
  None = None
SYMMETRY Symmetry
INVARIANTS
  TypeOK
  WholeRun
  EvidenceBacked
  ImportsOnce
PROPERTIES
  ImplementsSnapshot
