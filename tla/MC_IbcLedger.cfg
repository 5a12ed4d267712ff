SPECIFICATION Spec
CONSTANTS
  Caller = {c1, c2}
  Ns = {n1, n2}
  Orbit = {}
  Hyp = {h1}
  MaxSessions = 1
  MaxEpoch = 1
  WritesMayFail = TRUE
  None = None
SYMMETRY Symmetry
INVARIANTS
  TypeOK
  ActiveHasSession
  
