CONSTANTS
  MaxArrays = 2
  MaxAllocs = 3
  Thread = {1, 2}
  Main = 1
  Nobody = 0
  Calls <- MCCalls
  Arriving = 2
  MaxCalls = 5
  MaxSyncs = 2
SPECIFICATION ThreadsSpec
INVARIANTS HandlesKeepArrays NothingLost TakenOnce
PROPERTIES CallsReturn
