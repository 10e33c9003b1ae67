SPECIFICATION FairSpec
CONSTANT Scopes <- MCScopes
INVARIANTS
  BlocksAreOwn
  OwnershipExact
PROPERTIES
  ResetIsQuiet
  WorkEnds
CHECK_DEADLOCK FALSE
