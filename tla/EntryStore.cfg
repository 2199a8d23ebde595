SPECIFICATION Spec
CONSTANTS
  Paths = {"/"}
  Names = {a, b}
  Chunks = {"x"}
  MaxTry = 10
  Careful = TRUE
  Failures = TRUE
  Jobs = {"store"}
  MaxFileId = 2
  MaxRevision = 2
  MaxFolders = 1
  MaxFiles = 2
  MaxChunks = 1
  MaxClock = 1
  MaxRestarts = 1
SYMMETRY Symmetry
INVARIANT TypeOK
INVARIANT IdsAreUnique
INVARIANT OwnerIsFound
 
 
PROPERTY DataFileStays
CHECK_DEADLOCK FALSE
