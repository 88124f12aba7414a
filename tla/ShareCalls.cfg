CONSTANTS
  f1 = f1  f2 = f2  p1 = p1  p2 = p2  s1 = s1  s2 = s2  s3 = s3
  NoName = NoName
  NoPsp = NoPsp
  Psps <- MCPsps
  Sfts <- MCSfts
  MaxOff = 5
  MaxDrift = 1
  Names = {f1}
  FileTableSize = 3
  LockTableSize = 2
  OpenRequests <- MCRequests
  Regions <- MCCallRegions
SYMMETRY Symmetries
SPECIFICATION Spec
INVARIANTS
  TypeOK
  EntriesHeld
  LocksOnOpenFiles
  LocksDisjointOrNested
  CountersExact
  FirstModesAgree
  FirstOpenHonoured
