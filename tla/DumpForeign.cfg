SPECIFICATION Spec
CONSTANTS
  Absent = Absent
  MaxAddress = 8
  Inputs <- MCInputs
  Base = 16
INVARIANTS
  ForeignIsConverted
CHECK_DEADLOCK FALSE
