SPECIFICATION FairSpec
CHECK_DEADLOCK FALSE
CONSTANTS
  N = 2
  a1 = a1
  a2 = a2
  f1 = f1
  f2 = f2
  Agent <- MCAgent
  AgentOf <- MCAgentOf
  Path <- MCPath
  Intents <- MCNoIntents
  HintChoices <- MCOneHint
  Creators = {"delegate", "request"}
  Limit = 2
  MaxTurns = 2
  Faults = {"cancel", "help"}
PROPERTIES
  StartedOnce
  NoLostWakeup
  CancelStopsGoroutine
