SPECIFICATION RegistrySpec
CONSTANTS
  LaneIds = {g1}
  Clients = {c1}
  Pruners = {"http"}
  Configured = TRUE
  MaxGeneration = 2
  MaxRevision = 1
  MaxRestarts = 0
  MaxFailures = 0
PROPERTY PrunedWasGone
CHECK_DEADLOCK FALSE
