SPECIFICATION Spec
CONSTANTS
  t1 = t1
  t2 = t2
  Threads = {t1, t2}
  DataFields <- MCDataFields
  MaxEventCount = 2
  FillAndStop = FALSE
  MaxCalls = 3
  Invalid = Invalid
  Garbage = Garbage
SYMMETRY MCSymmetry
INVARIANTS
  IntactUnlessLapped
  ExclusiveUnlessLapped
  MarkedUntilComplete
  RingHoldsNewest
  NothingLost
PROPERTIES
  ImplementsLog
CHECK_DEADLOCK FALSE
