SPECIFICATION Spec
CONSTANTS
  MIFLEVEL = 10
  MDOLEVEL = 10
  MaxItems = 2
  MaxRuns = 2
  Inputs <- MCInputs
  Programs <- Leaves
  Opened <- Both
PROPERTIES
  SpoiledReadsNoLine
CHECK_DEADLOCK FALSE
