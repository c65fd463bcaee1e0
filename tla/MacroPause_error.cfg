SPECIFICATION Spec
CONSTANTS
  MaxRuns = 1
  MaxLength = 2
  Programs <- Pauses
  Typed <- Answers
  Fails <- Anywhere
INVARIANTS
  StdinStaysOpen
CHECK_DEADLOCK FALSE
