SPECIFICATION Spec
CONSTANTS
  Null = Null
  Elsewhere = Elsewhere
  NoRows = NoRows
  Unset = Unset
  c = c
  Files = {a, b, c}
  header <- Spectral
  Names <- MCNames
  Begins <- MCBegins
  MaxFiles = 3
  Lists <- Readable
  Samples <- Missing
  Generated = {1}
  Deletions <- Twice
  DeletedNames <- None
  Cuts = {}
  CutsFail = FALSE
  SeismogramNamed = TRUE
  MemoryActions = {}
  Subprocesses = {}
  Whitenings = {}
  Mistakes = FALSE
  MaxWhitened = 1
  Properties <- None
  OnDisk = {}
  StackDeletions <- None
  Checks = {}
  Windows = {}
  MaxDelay = 1
SYMMETRY Alike
INVARIANTS
  CommitsAgree
