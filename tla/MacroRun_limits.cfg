SPECIFICATION Spec
CONSTANTS
  MIFLEVEL = 10
  MDOLEVEL = 10
  MaxItems = 2
  MaxRuns = 11
  MaxLength = 3
  Words = {"IF", "MACROQUIT"}
  Programs <- AllTexts
INVARIANTS
  WithinLimits
CHECK_DEADLOCK FALSE
