SPECIFICATION Spec
CONSTANTS
  MIFLEVEL = 2
  MDOLEVEL = 2
  MaxItems = 2
  MaxRuns = 1
  MaxLength = 5
  Words = {"CMD", "MACROQUIT", "IF", "ELSEIF", "ELSE", "DO", "DOLIST", "WHILE", "BREAK"}
  Programs <- MCUnspoiled
INVARIANTS
  TypeOK
  LoopsRemembered
  WithinLimits
PROPERTIES
  RunsAsStructured
  NestingKept
  NoSpuriousError
CHECK_DEADLOCK FALSE
