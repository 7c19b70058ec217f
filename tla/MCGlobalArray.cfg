CONSTANTS
  N = 3
  ArraySizes = {3, 6, 9}
  SizeMod = 65536
  MaxCalls = 2
SPECIFICATION ArraySpec
INVARIANTS SlicesHoldArray GetsReadArray PiecesInSlices
