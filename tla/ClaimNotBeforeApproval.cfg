SPECIFICATION Spec
CHECK_DEADLOCK FALSE
CONSTANTS
  N = 2
  a1 = a1
  a2 = a2
  f1 = f1
  f2 = f2
  Agent <- MCAgent
  AgentOf <- MCAgentOf
  Path <- MCPath
  Intents <- MCNoIntents
  HintChoices <- MCNoHints
  Creators = {"delegate"}
  Limit = 2
  MaxTurns = 1
  Faults = {}
INVARIANTS
  NotBeforeApproval
