SPECIFICATION FairSpec
CONSTANTS
  Slots = 2
  MaxOps = 3
  MaxParts <- MCMaxParts
  Managing <- MCManaging
  PlanRoom = 2
  MaxPending = 2
  Scopes <- MCScopes
INVARIANTS
  CopiesAreSafe
  OutcomesAreTrue
PROPERTIES
  SlotReuseIsSafe
  RestoresEnd
CHECK_DEADLOCK FALSE
