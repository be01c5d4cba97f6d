\* Discord: two targets that take turns with the one caller.
SPECIFICATION MCSpec
CONSTANTS
  Keys = {k1, k2}
  MaxAttempts = 2
  Threshold = 2
  Cooldown = 2
  Capacity = 2
  TokenTicks = 2
  RetryWaits = {0, 1}
  Window = 2
  r1 = r1
  r2 = r2
  Runs = {r1, r2}
  MaxTries = 3
  RetryAfter = 1
  Retention = 9
  MaxAge = 1
  Faults = {"crash", "unsaved", "unsynced", "partial", "fetch", "closed"}
  MaxFaults = 4
  MaxMinute = 2
  NJobs = 2
  Schedule <- TwoSchedules
  Ttl <- TwoTtls
  Receipts <- TwoReceipts
  CronFaults = {"crash", "torn", "save", "back"}
  MaxMishaps = 1
INVARIANTS
  DeliveryInv
  BreakerSound
  OutboxInv
  ReportsKept
  CronInv
PROPERTIES
  Recovers
  AckedIsFinal
  ReportsSettle
  CaughtUp
CHECK_DEADLOCK FALSE
