SPECIFICATION Spec
CONSTANTS
  Null = Null
  Elsewhere = Elsewhere
  NoRows = NoRows
  Unset = Unset
  c = c
  Files = {a, b, c, d, e, f}
  header <- Spectral
  Names <- MCNames
  Begins <- MCBegins
  MaxFiles = 3
  Lists <- AnyList
  Samples <- Missing
  Generated = {0, 1, 3}
  Deletions <- Distinct
  DeletedNames <- NameLists
  Cuts = {0, 1, 2}
  CutsFail = FALSE
  SeismogramNamed = FALSE
  MemoryActions = {"SAVE", "DELETE"}
  Subprocesses = {}
  Whitenings = {}
  Mistakes = FALSE
  MaxWhitened = 1
  Properties <- None
  OnDisk = {}
  StackDeletions <- None
  Checks = {}
  Windows = {}
  MaxDelay = 1
SYMMETRY Alike
INVARIANTS
  CommitsAgree
  CurrentInMemory
PROPERTIES
  DeletesTheNamed
