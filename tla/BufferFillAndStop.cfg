SPECIFICATION FairSpec
CONSTANTS
  t1 = t1
  t2 = t2
  t3 = t3
  Threads = {t1, t2, t3}
  DataFields <- MCDataFields
  MaxEventCount = 2
  FillAndStop = TRUE
  MaxCalls = 2
  Invalid = Invalid
  Garbage = Garbage
INVARIANTS
  TypeOK
  ExclusiveUnlessLapped
  CompleteIsIntact
  NothingLost
PROPERTIES
  ImplementsLog
  EveryCallReturns
CHECK_DEADLOCK FALSE
