CONSTANTS
  f1 = f1  f2 = f2  p1 = p1
  Shell = Shell
  Device = Device
  NoName = NoName
  NoPsp = NoPsp
  Names = {f1}
  Psps = {Shell, p1}
  FileTableSize = 2
  LockTableSize = 0
  MaxOff = 2
  NSft = 2
  PspFiles = 1
  MaxFiles = 1
  TableSizes = {}
  OpenRequests <- MCOpenRequests
  Regions = {}
  MaxCount = 3
  MaxForced = 0
  MaxDrift = 0
SPECIFICATION Spec
PROPERTY
  FcbsClosed
