SPECIFICATION SpoolSpec
CONSTANTS
  NBoards = 2
  MaxFiles = 2
  MaxSaved = 4
  MaxRuns = 2
  MaxConverts = 2
INVARIANTS
  
  
  BoardOrder
PROPERTY StopDrains
CHECK_DEADLOCK FALSE
