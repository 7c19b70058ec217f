CONSTANTS
  N = 2
  Sizes = {0, 44}
  ReqMin = 1
  DelivMin = 9
  MaxCalls = 4
  MaxSync = 2
SPECIFICATION Spec
INVARIANTS TypeOK Fits GrowthBounded
