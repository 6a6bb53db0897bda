SPECIFICATION FairSpec
CONSTANTS
  Scenarios <- Uses
  HdrCells = 2
  RelaxedStores = FALSE
  MaxMsgs = 8
INVARIANTS TypeOK  NoTornRead DepthSettles
PROPERTIES ClaimStable ImplementsChannel AllDelivered
