SPECIFICATION Spec
CONSTANTS
  BSize = 4
  CSize = 4
  Chunk = 2
  Direct = 2
  PhysBlocks = 5
  FileSet <- MCFiles
INVARIANTS
  WrittenRight
CHECK_DEADLOCK FALSE
