SPECIFICATION FairSpec
CONSTANTS
  a = a
  b = b
  Clients = {a, b}
  Scopes <- MCScopes
INVARIANTS
  RequestsAreOwn
  PublishesAreWhole
  ChargesExact
PROPERTIES
  PublishingEnds
CHECK_DEADLOCK FALSE
