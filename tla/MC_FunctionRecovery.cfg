SPECIFICATION Spec
CONSTANTS
  Text <- TextSections
  Stubs = {6}
  Seeds = {0, 2, 4}
  Targets = {1, 3, 5, 6}
  Prologues = {3, 7}
  Window = 1
  MaxBytes = 3
  SweepBytes = 2
  Batch = 2
  Budget = 4
INVARIANTS
  TypeOK
  ClaimsDisjoint
  WithinBudget
  BoundariesTried
PROPERTIES
  BoundariesCut
  Terminates
