SPECIFICATION Spec
CONSTANTS
  Jobs <- MCJobs
  Fold <- MCFold
INVARIANTS
  MatchIsGlob
  WholeTree
  NamedUnpacked
  StopCutsDirectory
PROPERTIES
  WalkEnds
CHECK_DEADLOCK FALSE
