CONSTANTS
  N = 2
  x = x
  y = y
  Addr = {x, y}
  Val <- MCVal
  InitMem <- MCInitMem
  Payload = {1, 2}
  Programs <- RefPrograms
SPECIFICATION RefSpec
INVARIANTS TypeOK RegistersAgree TagsAgree
PROPERTIES ImplementsBsplib
