SPECIFICATION OutboxSpec
CONSTANTS
  r1 = r1
  r2 = r2
  Runs = {r1, r2}
  MaxTries = 3
  RetryAfter = 1
  Retention = 1
  MaxAge = 1
  Faults = {}
  MaxFaults = 0
INVARIANT NothingLost
