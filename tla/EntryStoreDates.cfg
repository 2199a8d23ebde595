SPECIFICATION Spec
CONSTANTS
  Paths = {"/"}
  Names = {a}
  Chunks = {"x"}
  MaxTry = 10
  Careful = TRUE
  Failures = FALSE
  Jobs = {"store", "restore"}
  MaxFileId = 1
  MaxRevision = 3
  MaxFolders = 2
  MaxFiles = 2
  MaxChunks = 1
  MaxClock = 3
  MaxRestarts = 0
 
PROPERTY RestorePointStays
CHECK_DEADLOCK FALSE
