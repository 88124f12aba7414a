CONSTANTS
  Bufs = {b1, b2}
  Kept = {b1, b2}
  NoBuf = NoBuf
  Blocks <- MCBlocks
  FatBlocks <- MCFirst
  Data = {x, y}
  Garbage = Garbage
  Weak <- MCBlocks
  Raw <- MCFirst
SYMMETRY MCSymmetry
SPECIFICATION Spec
INVARIANTS
  OneCopy
  CleanOnDisk
  MirrorsAgree
PROPERTIES
  
  FlushIsDurable
  DirectReadsCurrent
