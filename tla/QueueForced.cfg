SPECIFICATION Spec
CONSTANTS
  e1 = e1
  e2 = e2
  e3 = e3
  k1 = k1
  k2 = k2
  Entry <- MCEntry2
  Key <- MCOneKey
  KeyOf <- MCKeyOf
  Ticker = worker
  Forced = {w1}
  MaxAttempts = 2
  circuitBreakThreshold = 2
  MaxCrashes = 0
INVARIANT TypeOK
INVARIANT CircuitMatchesFailures
INVARIANT AttemptBudget
INVARIANT FailedIsEscalated
