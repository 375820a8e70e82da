SPECIFICATION FairSpec
CONSTANTS
  e1 = e1
  e2 = e2
  e3 = e3
  k1 = k1
  k2 = k2
  Entry <- MCEntry3
  Key <- MCKey
  KeyOf <- MCKeyOf
  Ticker = worker
  Forced = {}
  MaxAttempts = 2
  circuitBreakThreshold = 2
  MaxCrashes = 1
INVARIANT NoResend
PROPERTY Settles
