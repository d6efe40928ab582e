SPECIFICATION FifoSpec
CONSTANTS
  FifoSize = 3
  Readers = {r1}
  Sources <- MCDmaOnly
  NoData = NoData
  Payload = {p}
INVARIANT LossReported
