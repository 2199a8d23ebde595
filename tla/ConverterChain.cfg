SPECIFICATION Spec
CONSTANTS
  Worlds <- MCWorlds
  BufferSize <- MCBufferSize
  InSize <- MCInSize
  StoreBuffer = 4
  RestoreBuffer = 2
  MaxRun = 2
INVARIANTS
  TypeOK
  NothingIsLost
  RestoreIsWhole
  FaultlessSucceeds
PROPERTIES
  TransferEnds
CHECK_DEADLOCK FALSE
