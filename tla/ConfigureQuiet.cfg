SPECIFICATION Spec
CONSTANTS
  main = main
  t1 = t1
  Threads = {main, t1}
  Main = main
  HeaderBytes = 3
  EventBytes = 2
  WordSize = 16
  Sizes <- MCSizes
  DefaultBytes <- MCDefaultBytes
  Junk = 9
  QuietOnly = TRUE
  MainFirst = TRUE
  FailingBuilds <- MCExplicitOnly
  MaxCalls = 2
  MaxBlocks = 2
INVARIANTS
  OnlyLiveBlocks
  WritesInRoom
  DropMeansFull
  CountersOfThisBuffer
  ExitDumpsBuffer
CHECK_DEADLOCK FALSE
