SPECIFICATION Spec
CONSTANTS
  Elfs <- MCElfs
  Align = 4
INVARIANTS
  NoGaps
  SharersFollow
  PointersFollow
CHECK_DEADLOCK FALSE
