SPECIFICATION Spec
CONSTANTS
    t1 = t1
    t2 = t2
    k1 = k1
    i1 = i1
    i2 = i2
    Threads = {t1, t2}
    Keys = {k1}
    Indexes = {i1, i2}
    Submitted <- MCSubmitted
    MaxSlot = 3
    MaxActive = 1
    MaxFaults = 1
    SnapshotInterval = 2
    MaxCacheEntries = 1
    MaxAge = 1
    QueueAge = 2
SYMMETRY Symmetry
INVARIANTS
    StatusIsExact
    DeltasAreCached
    SnapshotVerifies
    CommitsAsReplayed
PROPERTIES
    ProcessedAtMostOnce
CHECK_DEADLOCK FALSE
