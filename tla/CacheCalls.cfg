CONSTANTS
  Bufs = {b1, b2, b3}
  Kept = {b1, b2}
  NoBuf = NoBuf
  Blocks <- MCBlocks
  FatBlocks <- MCBlocks
  Data = {x, y}
  Garbage = Garbage
  Weak <- MCSecond
  Raw <- MCNone
SYMMETRY MCSymmetry
SPECIFICATION Spec
INVARIANTS
  PairHeld
