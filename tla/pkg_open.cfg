SPECIFICATION Spec
CONSTANTS
  Jobs <- MCJobs
INVARIANTS
  RightKeyOpens
  KeysFit
  ReleasedOnce
  Sc0Plain
  EntriesComplete
  NoCrash
CHECK_DEADLOCK FALSE
