CONSTANTS
  f1 = f1  f2 = f2  p1 = p1
  Shell = Shell
  Device = Device
  NoName = NoName
  NoPsp = NoPsp
  Names = {f1}
  Psps = {Shell, p1}
  FileTableSize = 2
  LockTableSize = 0
  MaxOff = 2
  NSft = 2
  PspFiles = 2
  MaxFiles = 2
  TableSizes = {1}
  OpenRequests <- MCOpenRequests
  Regions = {}
  MaxCount = 2
  MaxForced = 1
  MaxDrift = 0
SPECIFICATION FairSpec
INVARIANTS
  TypeOK
  ParentsLive
  EntriesPaired
  FilesHaveEntries
  NeverReleasedTwice
  CountsExact
PROPERTIES
  ExitCompletes
