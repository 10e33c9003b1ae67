CONSTANTS
    r1 = r1
    r2 = r2
    Requesters <- OneRequester
    NumSlots = 1
    MaxGen = 2
    WindowIds = 2
    MaxWindows = 1
    MaxSessions = 1
    Budget = 1
    Footprints <- OneByte
    MaxCompletions = 1
SPECIFICATION FairSpec
INVARIANTS
  SessionWindowsStayOpen
PROPERTIES
  TicketsHold
  TransfersEnd
CHECK_DEADLOCK FALSE
