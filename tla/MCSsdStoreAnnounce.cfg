CONSTANTS
    k1 = k1
    k2 = k2
    Keys = {k1, k2}
    Size <- MCSize
    NumShards = 1
    Capacity = 3
    MaxHead = 6
    GpuWorkers = {g1}
    ReadTasks = {}
    Encoded = {k1, k2}
    ReusePolicy = FALSE
    QueueDepth = 1
    BatchLimit = 2
    WriteInflight = 2
SPECIFICATION Spec
INVARIANT InventoryAgrees
CHECK_DEADLOCK FALSE
