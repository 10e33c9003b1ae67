SPECIFICATION FairSpec
CONSTANTS
  k1 = k1
  k2 = k2
  q1 = q1
  q2 = q2
  Keys = {k1, k2}
  Footprint <- MCFootprint
  ProtectedLimit = 3
  LfuAdmission = TRUE
  Queries = {q1}
  Blockwise = TRUE
  BatchSize = 1
  Shapes <- MCShapes
INVARIANTS
  ResidencyExact
PROPERTIES
  ReclaimIsRight
  StorageProgress
CHECK_DEADLOCK FALSE
