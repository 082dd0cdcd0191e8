SPECIFICATION Spec
CONSTANTS
  main = main
  t1 = t1
  Threads = {main, t1}
  Main = main
  HeaderBytes = 3
  EventBytes = 2
  WordSize = 16
  Sizes <- MCSizes
  DefaultBytes <- MCDefaultBytes
  Junk = 9
  QuietOnly = FALSE
  MainFirst = FALSE
  FailingBuilds <- MCEveryBuild
  MaxCalls = 3
  MaxBlocks = 2
INVARIANTS
  DropMeansFull
CHECK_DEADLOCK FALSE
