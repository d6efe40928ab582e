SPECIFICATION MeasureSpec
CONSTANTS
  NBoards = 2
  Totals = {0, 2}
  FifoCap = 1
  MaxRuns = 2
INVARIANTS
  UnmapAfterJoin
  
  FreshEvents
PROPERTY StopEnds
CHECK_DEADLOCK FALSE
