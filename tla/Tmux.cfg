SPECIFICATION MCSpec
CONSTANTS
  LaneIds = {g1}
  Clients = {c1}
  Pruners = {"poll", "http", "event"}
  Configured = TRUE
  MaxGeneration = 2
  MaxRevision = 1
  MaxRestarts = 1
  MaxFailures = 1
  Wrappers = TRUE
  Panes = {1}
  Plain = {}
  Keyed = {"error"}
  Depth = 2
  Window = 1
  StaleAfter = 2
  MaxTime = 1
  MaxPrints = 3
  MaxTroubles = 1
INVARIANTS RegistryInv PanesInv
PROPERTIES GoneForCause AbsentWatchesGo
CHECK_DEADLOCK FALSE
