SPECIFICATION Spec
CONSTANTS
  Null = Null
  Elsewhere = Elsewhere
  NoRows = NoRows
  Unset = Unset
  c = c
  Files = {a, b, c}
  header <- Spectral
  Names <- MCNames
  Begins <- MCBegins
  MaxFiles = 3
  Lists <- Readable
  Samples <- Missing
  Generated = {0, 1, 3}
  Deletions <- Distinct
  DeletedNames <- NameLists
  Cuts = {0, 1, 2}
  CutsFail = FALSE
  SeismogramNamed = FALSE
  MemoryActions = {"SAVE"}
  Subprocesses = {"spe"}
  Whitenings = {TRUE, FALSE}
  Mistakes = FALSE
  MaxWhitened = 1
  Properties <- None
  OnDisk = {}
  StackDeletions <- None
  Checks = {}
  Windows = {}
  MaxDelay = 1
SYMMETRY Alike
INVARIANTS
  TypeOK
  CommitsAgree
  CurrentInMemory
  ResultsComputed
  SpectrumOfCorrelation
  LabelTrue
  SpeFile
PROPERTIES
  DeletesTheNamed
