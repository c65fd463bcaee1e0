SPECIFICATION Spec
CONSTANTS
  MIFLEVEL = 10
  MDOLEVEL = 10
  MaxItems = 2
  MaxRuns = 3
  Inputs <- MCInputs
  Programs <- Separate
  Opened <- Always
INVARIANTS
  TypeOK
  FilesNest
PROPERTIES
  SpoiledReadsNoLine
  CallerFindsItsLoops
  PromptReturns
CHECK_DEADLOCK FALSE
