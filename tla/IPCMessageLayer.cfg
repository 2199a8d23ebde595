SPECIFICATION FairSpec
CONSTANTS
  Sizes = {3}
  Capacity = 9
  MaxConnects = 1
  ClientSends = 3
  ServerSends = 1
  MaxFaults = 1
PROPERTY BothAreChannels
PROPERTY HeadArrives
CHECK_DEADLOCK FALSE
