\* The pipeline: one pass, three alerts with different routes; no timeout and no
\* write that fails.  The lane: one pass and two incidents; an ended lane whose
\* session stays away.
SPECIFICATION MCFairSpec
CONSTANTS
  d1 = d1
  d2 = d2
  loop = loop
  http = http
  Dests = {d1, d2}
  Passes = {loop}
  NumAlerts = 3
  Route <- OneThenBoth
  FailureAlerts = {2}
  QueueCap = 2
  MaxPending = 2
  LedgerOn = TRUE
  Faults = {"crash", "ledger", "route", "sink", "mutation"}
  Ends = {"complete"}
  Pollers = {loop}
  PendingCap = 2
  MaxAttempts = 2
  Grace = 2
  MaxRev = 3
  MaxTurn = 1
  MaxGate = 1
  MaxGen = 2
  MaxHead = 1
  LaneFaults = {"crash", "down", "ambiguous", "full", "refused"}
  MaxIncidents = 2
INVARIANTS AtMostOnce RetiredInOrder
PROPERTIES ImplementsOutbox EveryAlertSettles GhostsGo
CHECK_DEADLOCK FALSE
