SPECIFICATION Spec
CONSTANTS
  Workflow = {"a", "b"}
  Steps <- OneStep
  Chain <- AThenB
  Notify <- OnFailure
  Scheduled = {"a", "b"}
  Slots = 1
  MaxRuns = 3
  MaxCrashes = 1
  Faults = {"cancel", "panic", "refuse"}
INVARIANTS
  TypeOK OneRunPerWorkflow SlotsAccounted Cancellable
