SPECIFICATION Spec
CHECK_DEADLOCK FALSE
CONSTANTS
  N = 2
  a1 = a1
  a2 = a2
  f1 = f1
  f2 = f2
  Agent <- MCAgent
  AgentOf <- MCAgentOf
  Path <- MCPath2
  Intents <- MCOverlap
  HintChoices <- MCAllHints
  Creators = {"delegate", "request"}
  Limit = 2
  MaxTurns = 1
  Faults = {"cancel", "watchdog", "cleanup", "help", "error"}
INVARIANTS
  TypeOK
  ActiveHasGoroutine
PROPERTIES
  DoneIsFinal
