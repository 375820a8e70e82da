SPECIFICATION Spec
CONSTANTS
  NumRuns = 2
  Scenarios <- PingThenTool
  MaxEvictions = 0
INVARIANT
  HistoryKeepsAsks
CHECK_DEADLOCK FALSE
