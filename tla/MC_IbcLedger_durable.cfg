SPECIFICATION Spec
CONSTANTS
  Caller = {c1, c2}
  Ns = {n1, n2}
  Orbit = {}
  Hyp = {h1}
  MaxSessions = 2
  MaxEpoch = 1
  WritesMayFail = FALSE
  None = None
PROPERTIES
  DurableAtReply
