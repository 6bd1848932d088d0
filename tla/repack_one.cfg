SPECIFICATION Spec
CONSTANTS
  NBlocks = 20
  BBS = 5
  NDirect = 2
  NPtr = 2
  NInodes = 10
  IPB = 5
  NSuper = 2
  BitmapIno = 1
  BatIno = 2
  InoBitmapIno = 3
  URootIno = 4
  MaxDepth = 2
  IndFlag = 100
  Images <- MCImages
  HostDirs <- WideHosts
  Manifests <- WideManifests
  KeySets <- AllKeys
  SdKeyVer = 3
  MaxRemoves = 3
  MaxRuns = 1
INVARIANTS
  OnePurpose
  BatNamesOwner
  MerkleIntact
  TreeSound
  OutputReloads
  VerbatimIfUnchanged
  Delivered
PROPERTY
  TreeRefined
