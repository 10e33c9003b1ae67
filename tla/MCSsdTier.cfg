CONSTANTS
    k1 = k1
    k2 = k2
    Keys = {k1, k2}
    Size <- MCSize
    NumShards = 1
    Capacity = 3
    MaxHead = 5
    GpuWorkers = {g1}
    ReadTasks = {r1}
    Encoded = {k1, k2}
    ReusePolicy = TRUE
    QueueDepth = 1
    BatchLimit = 2
    WriteInflight = 2
    t1 = t1
    t2 = t2
    Tasks = {t1, t2}
    Scopes <- MCScopes
    Extents = {1, 2}
    Staging = 2
    LoadRoom = 2
    SaveRoom = 2
    ReadBurst = 1
    AdmitBurst = 2
    MaxBatches = 2
    Page = 2
    MaxSegments = 2
SPECIFICATION TierSpec
INVARIANTS
  ExtentsHeld
  EntriesAccounted
  LaneIsSafe
  AnswersAreTrue
PROPERTIES
  WritesEnd
  LaneEnds
CHECK_DEADLOCK FALSE
