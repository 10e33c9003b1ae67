SPECIFICATION FairSpec
CONSTANTS
  Clients = {"a", "b"}
  Instances = {"x", "y"}
  MaxTokens = 2
  MaxAttempts = 2
  MaxJobs = 1
  Align = 2
  NumaOf <- MCNumaOf
  Scopes <- MCScopes
INVARIANTS
  CreditsBalance
  MappingsHeld
  PlansExact
PROPERTIES
  SessionsEnd
  ShutdownCompletes
CHECK_DEADLOCK FALSE
