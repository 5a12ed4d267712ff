SPECIFICATION Spec
CONSTANTS
  Caller = {c1, c2}
  Ns = {n1, n2}
  Orbit = {o1}
  Hyp = {h1, h2}
  MaxSessions = 1
  MaxEpoch = 1
  WritesMayFail = FALSE
  None = None
SYMMETRY Symmetry
INVARIANTS
  BoundToItsOrbit
PROPERTIES
  NoSecondHypothesis
