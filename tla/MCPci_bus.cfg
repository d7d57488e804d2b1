SPECIFICATION FairSpec
CONSTANTS
  Buses <- SomeBuses
  Boards <- TheirBoards
  NumCards = 5
  MaxInterrupts = 2
  MemStart = 0
  IoStart = 0
INVARIANTS ScanComplete WindowsApart CallSafe
PROPERTIES ConfigIsolated Served
CHECK_DEADLOCK FALSE
