SPECIFICATION Spec
CONSTANTS
  Me = "R"
  Neighbours = {"S", "L", "D"}
  Leaves = {"L"}
  Remote = {"X"}
  Adverts <- MCAdverts
  Scenarios <- MCScenarios
  SeenSize = 1
  MaxPending = 2
  CounterThreshold = 2
  DensityThreshold = 1
  HopRetries = 1
  MaxHopPending = 2
  MaxTxQueue = 2
  MaxHeld = 1
  MaxRepairs = 1
  MaxQueued = 1
  Attempts = 2
  MaxNeighbours = 2
  LinkCost = 2
  Broadcast = "all"
  None = None
INVARIANT OneNextHop
PROPERTIES RelayedOnce CustodyEnds
CHECK_DEADLOCK FALSE
