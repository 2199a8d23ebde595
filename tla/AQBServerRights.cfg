SPECIFICATION Spec
CONSTANTS
  alice = alice
  bob = bob
  NoOne = NoOne
  Users <- MCUsers
  Creators <- MCCreators
  AccessLists <- MCAccessLists
  Names = {"home"}
  MaxClients = 2
  MaxRepositories = 1
  MaxUsage = 2
  MaxRestarts = 0
INVARIANT RightsAreDecided
CHECK_DEADLOCK FALSE
