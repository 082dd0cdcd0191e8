SPECIFICATION FairDumpSpec
CONSTANTS
  t1 = t1
  t2 = t2
  Threads = {t1, t2}
  DataFields <- MCDataFields
  MaxEventCount = 2
  FillAndStop = TRUE
  MaxCalls = 2
  Invalid = Invalid
  Garbage = Garbage
  Chunks <- MCChunks
INVARIANTS
  QuietDumpIsNewest
  WindowInBuffer
PROPERTIES
  DumpEnds
CHECK_DEADLOCK FALSE
