SPECIFICATION CoreSpec
CONSTANTS
  NULL = NULL
  Boards = {b1, b2}
  Addresses = {a1, a2}
  Files = {f1}
  HotUnplug = TRUE
INVARIANTS
  BoardsInUseAreThere
  
  EntriesMatchBoards
CHECK_DEADLOCK FALSE
