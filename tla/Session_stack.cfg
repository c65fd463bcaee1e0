SPECIFICATION Spec
CONSTANTS
  Null = Null
  Elsewhere = Elsewhere
  NoRows = NoRows
  Unset = Unset
  c = c
  Files = {a, b, c}
  header <- Stacked
  Names <- MCNames
  Begins <- MCBegins
  MaxFiles = 3
  Lists <- TwoGood
  Samples <- None
  Generated = {}
  Deletions <- None
  DeletedNames <- None
  Cuts = {}
  CutsFail = FALSE
  SeismogramNamed = TRUE
  MemoryActions = {}
  Subprocesses = {"sss"}
  Whitenings = {}
  Mistakes = FALSE
  MaxWhitened = 1
  Properties <- OneDelayed
  OnDisk = {a, b, c}
  StackDeletions <- Ends
  Checks = {FALSE}
  Windows = {2}
  MaxDelay = 1
SYMMETRY Alike
INVARIANTS
  PropertiesFollowFiles
  SumAllocated
PROPERTIES
  DeletesTheNamed
