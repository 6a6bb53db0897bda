SPECIFICATION Spec
CONSTANTS
  Kinds = {"plain", "ttl"}
  RingMessages = 2
  RelaxedAtomics = FALSE
  MaxPush = 3
INVARIANT NoSleepOverLog
