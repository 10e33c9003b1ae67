CONSTANTS
    r1 = r1
    r2 = r2
    Requesters <- TwoRequesters
    NumSlots = 1
    MaxGen = 1
    WindowIds = 2
    MaxWindows = 2
    MaxSessions = 2
    Budget = 3
    Footprints <- Bytes
    MaxCompletions = 1
SPECIFICATION Spec
SYMMETRY Symmetry
INVARIANTS
  SourceHeldWhileReading
  NoOrphanedGrant
  BooksBalance
CHECK_DEADLOCK FALSE
