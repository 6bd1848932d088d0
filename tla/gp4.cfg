SPECIFICATION Spec
CONSTANTS
  B = 4
  Jobs <- MCJobs
INVARIANTS
  ChunksRight
  MetaRoundTrip
  ProjectComplete
CHECK_DEADLOCK FALSE
