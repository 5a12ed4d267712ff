SPECIFICATION Spec
CONSTANTS
  Session = {s1}
  Binary = {b1, b2}
  Path = {p1}
  Profile = {"full"}
  MaxRun = 2
  MaxFn = 1
  FlushAt = 2
  None = None
INVARIANTS
  EvidenceTraceable
