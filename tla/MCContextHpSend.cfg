CONSTANTS
  processors = 4
  nprocs = 3
  x = x
  y = y
  Addr = {x, y}
  Val <- MCVal
  InitMem <- MCInitMem
  NewVal <- MCNewVal
  Payload = {1}
  Programs <- Astray
SPECIFICATION HSpec
INVARIANT MessagesArrive
