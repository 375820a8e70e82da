SPECIFICATION FairSpec
CONSTANTS
  Target = {v1}
  Concept = {c1}
  Drainer = {d1, d2}
  MaxAttempts = 2
  BatchSize = 1
  Slots = 1
  MaxMemories = 2
  MaxFaults = 1
  MaxCrashes = 1
INVARIANTS TypeOK OneCopyUnlessRaced
PROPERTIES LeavesAnsweredOrExpired RowsSettle
CHECK_DEADLOCK FALSE
