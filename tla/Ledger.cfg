\* The ledger: three events and one fault, a crash or a failed append or compaction.
SPECIFICATION MCSpec
CONSTANTS
  k1 = k1
  k2 = k2
  k3 = k3
  Keys = {k1, k2, k3}
  MaxDay = 4
  RawDays = 1
  SummaryDays = 2
  MaxRecords = 3
  MaxPerPass = 2
  ShardSize = 2
  MaxFaults = 1
  Torn = FALSE
  Models = {m1, m2}
  Turns = {1, 2}
  MaxSeen = 4
  MaxUnderWay = 2
  MaxCrashes = 1
  MaxRefusals = 1
  Topics = {"turn", "retry", "prompt", "gate", "model", "endpoint"}
INVARIANTS LedgerInv BridgeInv
PROPERTY SummarisedFirst
CHECK_DEADLOCK FALSE
SYMMETRY Events
