SPECIFICATION TcwSpec
CONSTANTS
  Families <- MCFamilies
  Leftovers <- MCLeftovers
  Numbers = {1, 3}
  TimeUnits = {0, 1}
  Reloads = {65535, 65536}
  Flags = {0, 1, 2}
  Levels = {1, 2}
  Modes = {1, 2}
  Edges = {1}
  Directions = {1}
  Inputs = {1}
INVARIANTS
  TcwTypeOK
  
  
  
PROPERTY TriggeredOnRequest
