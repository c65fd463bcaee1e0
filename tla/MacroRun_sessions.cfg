SPECIFICATION Spec
CONSTANTS
  MIFLEVEL = 10
  MDOLEVEL = 10
  MaxItems = 2
  MaxRuns = 2
  MaxLength = 4
  Words = {"CMD", "MACROQUIT", "IF", "ELSE", "DOLIST", "WHILE", "BREAK"}
  Programs <- AllTexts
INVARIANTS
  LoopsRemembered
PROPERTIES
  RunsAsStructured
  NestingKept
  NoSpuriousError
  MacrosEnd
CHECK_DEADLOCK FALSE
