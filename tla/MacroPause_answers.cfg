SPECIFICATION Spec
CONSTANTS
  MaxRuns = 2
  MaxLength = 3
  Programs <- Texts
  Typed <- Answers
  Fails <- InFile
INVARIANTS
  TypeOK
  ReadsItsOwnFile
  NothingLeftOpen
CHECK_DEADLOCK FALSE
