SPECIFICATION Spec
CONSTANTS
  NBlocks = 7
  Files <- MCFiles
  NDirect = 1
  MaxCount = 3
  IndFlag <- MCIndFlag
  Images <- MCImages
INVARIANTS
  NoSharing
  Accounted
  WellPlaced
PROPERTY
  BackupUntouched
  LedgerKept
