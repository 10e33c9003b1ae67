SPECIFICATION FairSpec
CONSTANTS
  Requests = {r1}
  Instances = {i1}
  InstanceOf <- MCInstanceOf
  MaxOps = 2
  MaxRev = 2
  RemoteOps = 1
  RemoteRevs = 1
  MaxInterests = 1
  MaxGen = 2
  Global = 4
  PerInstance = 4
  WorldSize = 1
  BatchBlocks = 1
  MaxBatches = 2
  Limits <- MCLimits
  Scopes <- MCScopes
INVARIANTS
  BudgetExact
  LeasesOwned
PROPERTIES
  QueriesEnd
CHECK_DEADLOCK FALSE
