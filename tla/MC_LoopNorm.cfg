SPECIFICATION Spec
CONSTANTS
  Original = {1, 2, 3, 4}
  Entry = 1
  Shapes <- MCShapes
  Hole = Hole
  None = None
  Protected = {{}, {3}}
  MaxNewBlocks = 5
  MaxBlocks = 256
CHECK_DEADLOCK FALSE
INVARIANTS
  MergedReads
  SingleEntries
  SameTraces
  ValuesCarried
