SPECIFICATION DecodersSpec
CONSTANTS
  Absent = Absent
  MaxAddress = 8
  Inputs <- MCInputs
  Base = 16
  IntMax = 3
INVARIANTS
  NamedByFirstCover
  RangesDisjoint
  DecodersAgree
  PrintsNewest
  LevelsShowNesting
  LeavesNothingOpen
CHECK_DEADLOCK FALSE
