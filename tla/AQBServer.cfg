SPECIFICATION Spec
CONSTANTS
  alice = alice
  bob = bob
  NoOne = NoOne
  Users <- MCUsers
  Creators <- MCCreators
  AccessLists <- MCAccessLists
  Names = {"home", "etc"}
  MaxClients = 2
  MaxRepositories = 3
  MaxUsage = 3
  MaxRestarts = 1
INVARIANT TypeOK
INVARIANT UsageCoversHolders
INVARIANT AttachedIsListed
INVARIANT OneListingPerName
INVARIANT OneWriter
INVARIANT UnsavedIsListed
PROPERTY ForgottenOnlyUnused
CHECK_DEADLOCK FALSE
