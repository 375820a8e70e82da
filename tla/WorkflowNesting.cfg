SPECIFICATION FairSpec
CONSTANTS
  Workflow = {"a", "b"}
  Steps <- NestedSteps
  Chain <- AThenB
  Notify <- OnFailure
  Scheduled = {}
  Slots = 2
  MaxRuns = 2
  MaxCrashes = 1
  Faults = {"cancel", "timeout", "panic"}
INVARIANTS
  StatusTellsTheSteps NoOrphanNotification NestingIsSimple
PROPERTY RunsEnd
