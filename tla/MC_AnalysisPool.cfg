SPECIFICATION Spec
CONSTANTS
  N = 13
  Jobs = 3
INVARIANTS
  TypeOK
  InOrder
  CompleteOnSuccess
PROPERTIES
  ImplementsStream
  Terminates
