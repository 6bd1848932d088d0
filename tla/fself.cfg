SPECIFICATION Spec
CONSTANTS
  Elfs <- MCElfs
  Types = {"LOAD", "NESTED", "VERSION"}
  Sizes = {0, 1, 3, 4, 5}
  Align = 2
  Block = 4
  Digest = 2
  MaxEntries = 4
INVARIANTS
  LayoutSound
  RoundTrip
CHECK_DEADLOCK FALSE
