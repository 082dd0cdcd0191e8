SPECIFICATION DumpSpec
CONSTANTS
  t1 = t1
  t2 = t2
  Threads = {t1, t2}
  DataFields <- MCDataFields
  MaxEventCount = 2
  FillAndStop = FALSE
  MaxCalls = 2
  Invalid = Invalid
  Garbage = Garbage
  Chunks <- MCChunks
SYMMETRY MCSymmetry
INVARIANTS
  ExactlyFullIsDumped
CHECK_DEADLOCK FALSE
