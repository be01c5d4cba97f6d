\* One pass that may give up on its acceptance.
SPECIFICATION Spec
CONSTANTS
  d1 = d1
  d2 = d2
  loop = loop
  http = http
  Dests = {d1, d2}
  Passes = {loop}
  NumAlerts = 1
  Route <- BothDests
  FailureAlerts = {}
  QueueCap = 2
  MaxPending = 2
  LedgerOn = TRUE
  Faults = {"timeout", "sink"}
INVARIANT AtMostOnce
CHECK_DEADLOCK FALSE
