SPECIFICATION Spec
CONSTANTS
  MIFLEVEL = 10
  MDOLEVEL = 10
  MaxItems = 2
  MaxRuns = 1
  MaxLength = 4
  Words = {"CMD", "IF", "IFFT"}
  Programs <- AllTexts
PROPERTIES
  NoSpuriousError
CHECK_DEADLOCK FALSE
