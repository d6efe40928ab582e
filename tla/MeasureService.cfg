SPECIFICATION ServiceSpec
CONSTANTS
  Patience = 1
  MaxStarts = 2
  MaxFiles = 1
INVARIANTS
  OneMeasurement
  
PROPERTY StopReturns
CHECK_DEADLOCK FALSE
