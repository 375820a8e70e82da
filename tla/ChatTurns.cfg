SPECIFICATION FairSpec
CONSTANTS
  NumRuns = 3
  Scenarios <- Bursts
  MaxEvictions = 1
INVARIANTS
  TypeOK FifoUnlessDisturbed QueueAccounted AnswersItsHistory TurnsKept StoredBeforeTold
PROPERTY
  EveryTurnEnds
CHECK_DEADLOCK FALSE
