SPECIFICATION Spec
CONSTANTS
  Files <- MCFiles
  Originals <- MCOriginals
  Locked <- MCOther
  Foreign <- MCOther
  MaxFaults = 2
  MaxRevisits = 1
  MaxRuns = 3
INVARIANTS
  PayloadKept
  FinalForm
  Tidy
PROPERTIES
  OnlyOwnFile
CHECK_DEADLOCK FALSE
