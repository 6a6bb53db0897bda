SPECIFICATION FairSpec
CONSTANTS
  Scenarios <- Every
  RingSize = 2
  SmallBuffers = FALSE
  ReadFails = FALSE
  SameId = FALSE
  MaxMsgs = 4
INVARIANTS TypeOK NoLoss InFlightOnce AckIsFinal Reclaimed
PROPERTY Delivered
