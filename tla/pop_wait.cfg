SPECIFICATION FairSpec
CONSTANTS
  Kinds = {"plain", "ttl", "delayed"}
  RingMessages = 2
  RelaxedAtomics = FALSE
  MaxPush = 4
INVARIANTS NoLostWakeup 
PROPERTY PopReturns
