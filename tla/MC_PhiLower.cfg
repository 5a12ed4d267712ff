SPECIFICATION Spec
CONSTANTS
  First = 4
  Block = {1, 2, 3, 4}
  EntryBlock = 1
  Shapes <- MCShapes
  Input = {0, 1}
  Protected = {{}, {3}}
  MaxNewBlocks = 2
  Undef = 99
CHECK_DEADLOCK FALSE
INVARIANTS
  Simultaneous
  FewTemporaries
  Preserved
