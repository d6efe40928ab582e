SPECIFICATION DmaSpec
CONSTANTS
  NULL = NULL
  Blocks = 9
  MaxLists = 3
  TooBig = 4
  Singles = {1, 2, 3, 4}
  Counts = {0, 1, 2, 3, 4}
  Tests = 3
  MaxBuffers = 4
  MaxSize = 8
  Again = FALSE
INVARIANTS
  ListIsReference
  EventsAreWhole
  
  TransfersIntoMemory
