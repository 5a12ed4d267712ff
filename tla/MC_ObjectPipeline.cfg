SPECIFICATION Spec
CONSTANTS
  Actor = {"loop", "call"}
  Pipeline = {"loop"}
  Obj = {"r", "p", "m", "f", "n", "t"}
  Native = {"n", "f", "t"}
  Root <- MCRoot
  BinaryId <- MCBinaryId
  Entry <- MCEntry
  Dig <- MCDig
  Member <- MCMember
  Carve <- MCCarve
  MaxDepth = 2
  PromoteLimit = 4
  Limits = {3, 10}
  MaxFaults = 1
  None = "none"
CHECK_DEADLOCK FALSE
INVARIANTS
  TypeOK
  Covers
  
  
PROPERTIES
  Terminates
