SPECIFICATION Spec
CONSTANTS
  Null = Null
  Elsewhere = Elsewhere
  NoRows = NoRows
  Unset = Unset
  c = c
  Files = {a, b, c, d}
  header <- Spectral
  Names <- MCNames
  Begins <- MCBegins
  MaxFiles = 3
  Lists <- Readable
  Samples <- Missing
  Generated = {1}
  Deletions <- None
  DeletedNames <- None
  Cuts = {1}
  CutsFail = TRUE
  SeismogramNamed = TRUE
  MemoryActions = {}
  Subprocesses = {}
  Whitenings = {}
  Mistakes = FALSE
  MaxWhitened = 1
  Properties <- None
  OnDisk = {}
  StackDeletions <- None
  Checks = {}
  Windows = {}
  MaxDelay = 1
SYMMETRY Alike
INVARIANTS
  CommitsAgree
