SPECIFICATION Spec
CONSTANTS
  MaxRequest = 3
  Kind <- MCKind
  MaxConns = 2
INVARIANT PostponedAreSent
CHECK_DEADLOCK FALSE
