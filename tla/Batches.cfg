\* The wheel: a clock that jumps in both directions.  Routine: two keys, four
\* deliveries; batches of up to four items around the limit.  CI: one run with two
\* jobs under a clock that may be set back.
SPECIFICATION MCSpec
CONSTANTS
  x = x
  y = y
  Ids = {x, y}
  WheelEnd = 18
  Levels = 3
  Unit <- Units
  Slots <- Rings
  k1 = k1
  k2 = k2
  Keys = {k1, k2}
  NumItems = 4
  Window = 2
  MaxTime = 5
  Limit = 4
  MaxItems = 4
  run = run
  build = build
  test = test
  Runs = {run}
  Jobs = {build, test}
  MaxEvents = 4
  CiWindow = 2
  CiEnd = 3
  SetBack = TRUE
INVARIANTS
  BatcherInv
  Conserved
  ChunksSound
  CiInv
PROPERTIES
  ImplementsDelayQueue
  WindowHonoured
CHECK_DEADLOCK FALSE
