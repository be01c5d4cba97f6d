SPECIFICATION PagesSpec
CONSTANTS
  Threads = {1, 2, 3, 4, 5}
  MaxPages = 3
  PerPage = 1
  Reconcile = 1
  Delay = 0
  Changing = TRUE
  MaxTime = 3
  MaxUpdates = 1
  MaxFailures = 0
INVARIANT WatermarkCovers
CHECK_DEADLOCK FALSE
