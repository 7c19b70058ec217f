CONSTANTS
  N = 3
  x = x
  y = y
  Addr = {x, y}
  Val <- MCVal
  InitMem <- MCInitMem
  Payload = {1}
  Programs <- ControlPrograms
SPECIFICATION FairSpec
INVARIANTS CollectivesMatch ControlInv
PROPERTIES Barrier SyncCompletes
