SPECIFICATION FairFifoSpec
CONSTANTS
  FifoSize = 3
  Readers = {r1, r2}
  Sources <- MCSources
  NoData = NoData
  Payload = {p, q}
INVARIANTS
  FifoTypeOK
  WaitingEventsIntact
  NoLostWakeUp
PROPERTIES
  ImplementsQueue
  SleeperServed
