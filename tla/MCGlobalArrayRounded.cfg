CONSTANTS
  N = 4
  ArraySizes = {5}
  SizeMod = 65536
  MaxCalls = 1
SPECIFICATION ArraySpec
INVARIANTS PiecesInSlices
