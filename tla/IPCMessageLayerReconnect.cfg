SPECIFICATION Spec
CONSTANTS
  Sizes = {3}
  Capacity = 2
  MaxConnects = 2
  ClientSends = 3
  ServerSends = 1
  MaxFaults = 1
INVARIANT CursorBelongs
INVARIANT InOrderOnce
CHECK_DEADLOCK FALSE
