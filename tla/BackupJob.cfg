SPECIFICATION Spec
CONSTANTS
  Root = "/"
  Nodes <- MCNodes
  Parent <- MCParent
  Kind <- MCKind
  Contents <- MCContents
  Size <- MCSize
  Trigger = 1
  Modes = {1, 2}
  DefaultMode = 1
  Settings <- MCSettings
  MaxClock = 3
INVARIANTS
  TypeOK
  
  RestoreIsExact
  UnchangedIsQuiet
  ErrorsAreTold
PROPERTIES
  JobEnds
CHECK_DEADLOCK FALSE
