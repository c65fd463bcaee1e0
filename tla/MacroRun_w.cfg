SPECIFICATION Spec
CONSTANTS
  MIFLEVEL = 10
  MDOLEVEL = 10
  MaxItems = 2
  MaxRuns = 1
  MaxLength = 5
  Words = {"DOLIST", "WHILE", "W"}
  Programs <- AllTexts
PROPERTIES
  NestingKept
CHECK_DEADLOCK FALSE
