CONSTANTS
    a = a
    b = b
    Owners = {a, b}
    NumResidences = 3
    Scope = {1, 3}
    Metadata = {m1}
    MaxSequence = 3
    JournalRecords = 1
    BatchRecords = 1
    OwnerBytes = 1
    EntryBytes = 1
    ByteLimits = {3, 5}
    ReplicaLimits = {1, 2}
    StreamCredit = 1
    SnapshotSessions = 1
    RetireBatch = 1
    Bounds <- MCRespawn
SPECIFICATION FairSpec
PROPERTY Converges
CHECK_DEADLOCK FALSE
