SPECIFICATION AnalogSpec
CONSTANTS
  NONE = NONE
  Families <- MCFamilies
  Positions = {0, 1}
  Ranges = {"a", "b"}
  Singles <- MCSingles
  Plans <- MCPlans
  Times = {9, 10}
  Flags = {0, 1, 2}
  Levels = {0, 1}
  Actions = {1, 4}
INVARIANTS
  AcquiresAsAsked
  SourcesFit
  
PROPERTY RunningUndisturbed
