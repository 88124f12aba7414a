CONSTANTS
  f1 = f1  f2 = f2  p1 = p1  p2 = p2  s1 = s1  s2 = s2  s3 = s3
  NoName = NoName
  NoPsp = NoPsp
  Psps <- MCPsps
  Sfts <- MCSfts
  MaxOff = 5
  MaxDrift = 1
  Names <- MCNames
  FileTableSize = 2
  LockTableSize = 2
  OpenRequests <- MCFewRequests
  Regions <- MCRegions
SPECIFICATION Spec
INVARIANT
  EntryPerOpenFile
