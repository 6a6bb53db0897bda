SPECIFICATION Spec
CONSTANTS
  Scenarios <- MixedSizes
  HdrCells = 2
  RelaxedStores = FALSE
  MaxMsgs = 6
INVARIANT Fifo
