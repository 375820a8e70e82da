SPECIFICATION Spec
CHECK_DEADLOCK FALSE
CONSTANTS
  N = 2
  a1 = a1
  a2 = a2
  f1 = f1
  f2 = f2
  Agent <- MCAgent
  AgentOf <- MCAgentOf
  Path <- MCPath2
  Intents <- MCOverlap
  HintChoices <- MCOneHint
  Creators = {"delegate"}
  Limit = 2
  MaxTurns = 2
  Faults = {"cancel", "cleanup", "error", "capture"}
INVARIANTS
  RunsUnderItsLeases
  CaptureBeforeTools
PROPERTIES
  KeepsLifecycle
