SPECIFICATION Spec
CONSTANTS
  c1 = c1
  j1 = j1
  j2 = j2
  CiftDumps <- MCCiftDumps
  JavaDumpers <- MCJavaDumpers
  Blocks = 2
  MaxBuilds = 2
  MaxTime = 2
SYMMETRY MCSymmetry
PROPERTIES
  CiftDumpIsCurrent
  JavaIsCurrent
CHECK_DEADLOCK FALSE
