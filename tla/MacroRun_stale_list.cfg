SPECIFICATION Spec
CONSTANTS
  MIFLEVEL = 10
  MDOLEVEL = 10
  MaxItems = 2
  MaxRuns = 2
  MaxLength = 4
  Words = {"CMD", "DO", "BREAK"}
  Programs <- AllTexts
PROPERTIES
  EmptyLoopRunsNoBody
CHECK_DEADLOCK FALSE
