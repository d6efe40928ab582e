SPECIFICATION FairAiSpec
CONSTANTS
  FifoSize = 2
  Readers = {r1}
  Sources <- Words
  Payload <- MCPayload
  NoData = NoData
  Single <- MCSingle
  Continuous <- MCContinuous
  Values = Values
  NoDesc = NoDesc
  MaxFilled = 3
  MaxRuns = 1
  MaxTimers = 1
  Disciplined = TRUE
INVARIANTS
  AiTypeOK
  DescriptorPresent
  
PROPERTIES
  ReportsInOrder
  SingleEnds
  UsesFifo
