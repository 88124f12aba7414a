CONSTANTS
  f1 = f1  f2 = f2  p1 = p1
  Shell = Shell
  Device = Device
  NoName = NoName
  NoPsp = NoPsp
  Names <- MCNames
  Psps = {Shell, p1}
  FileTableSize = 2
  LockTableSize = 1
  MaxOff = 2
  NSft = 2
  PspFiles = 1
  MaxFiles = 1
  TableSizes = {}
  OpenRequests <- MCOpenRequests
  Regions <- MCRegions
  MaxCount = 2
  MaxForced = 0
  MaxDrift = 0
SYMMETRY NameSymmetries
SPECIFICATION Spec
INVARIANT
  OpenFilesExist
PROPERTY
  IsShareClient
