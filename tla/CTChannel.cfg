SPECIFICATION Spec
CONSTANTS
  MaxRequest = 3
  Kind <- MCKind
  MaxConns = 2
INVARIANTS
  TypeOK
  AtMostOnce
  KeysAgree

  
CHECK_DEADLOCK FALSE
