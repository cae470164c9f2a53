CONSTANTS
  SIZE = 2
  CtrSpace = 3
  COUNTER_REKEY_THRESHOLD = 3
  Lengths <- MCLengths
  Single = 3
  Chunk = 2
  MaxFrags = 3
  FragSpace = 2
  MaxSets = 2
  MaxBytes = 5
  Peer = peer
  Other = other
SPECIFICATION FragSpec
INVARIANTS
  WindowExact
  NonceUnique
  HeldWithinLimits
  Reassembled
PROPERTY ImplementsAtMostOnce
CHECK_DEADLOCK FALSE
