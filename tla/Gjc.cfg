\* The pipeline: two passes on one alert with one destination, and everything that
\* may go wrong.  The lane: two passes, two turns and a gate, an endpoint that may
\* be replaced, and one incident: a request or a fault.
SPECIFICATION MCSpec
CONSTANTS
  d1 = d1
  d2 = d2
  loop = loop
  http = http
  Dests = {d1}
  Passes = {loop, http}
  NumAlerts = 1
  Route <- OneDest
  FailureAlerts = {1}
  QueueCap = 2
  MaxPending = 1
  LedgerOn = TRUE
  Faults = {"timeout", "crash", "persist", "ledger", "route", "sink", "mutation"}
  Ends = {"complete"}
  Pollers = {loop, http}
  PendingCap = 2
  MaxAttempts = 2
  Grace = 2
  MaxRev = 3
  MaxTurn = 2
  MaxGate = 1
  MaxGen = 2
  MaxHead = 2
  LaneFaults = {"crash", "down", "ambiguous", "full", "refused"}
  MaxIncidents = 1
SYMMETRY PassSymmetry
INVARIANTS PipelineInv JournaledAtMostOnce LaneInv EvidenceSound
PROPERTIES DeliveredIsFinal TombstonesStay
CHECK_DEADLOCK FALSE
