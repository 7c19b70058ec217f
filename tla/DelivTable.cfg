CONSTANTS
  NProcs = 3
  Types = {"put", "send"}
  Sizes = {0, 44}
  Extra = {0, 24}
  MinRows = 10
  MaxPush = 3
SPECIFICATION Spec
INVARIANTS TypeOK ListsIntact ReceivedIntact ChainIsQueue
