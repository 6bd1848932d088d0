SPECIFICATION Spec
CONSTANTS
  NBlocks = 16
  BBS = 5
  NDirect = 2
  NPtr = 2
  NInodes = 10
  IPB = 5
  NSuper = 2
  BitmapIno = 1
  BatIno = 2
  InoBitmapIno = 3
  URootIno = 4
  MaxDepth = 2
  IndFlag = 100
  Images <- OneImage
  HostDirs <- UnderFileHost
  Manifests <- NoManifest
  KeySets <- AllKeys
  SdKeyVer = 3
  MaxRemoves = 4
  MaxRuns = 1
INVARIANT NotProvidedKept
