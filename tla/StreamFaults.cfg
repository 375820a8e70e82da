SPECIFICATION FairSpec
CONSTANTS
  Sender = {b1, b2}
  MaxSeq = 4
  RingSize = 2
  SendBuf = 2
  MaxDrops = 2
  SeqBufferMax = 1
  MaxDisconnects = 1
  MaxRestarts = 1
INVARIANTS
  TypeOK ReplayIsExact SkipsAreWarned DispatchedInOrder ResumeCatchesUp
PROPERTY
  GapsHeal
CHECK_DEADLOCK FALSE
