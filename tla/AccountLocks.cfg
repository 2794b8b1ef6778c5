SPECIFICATION FairSpec
CONSTANTS
    k1 = k1
    b1 = b1
    b2 = b2
    sim = sim
    Keys <- MCKeys
    Batches <- MCBatches
    SimBatches <- MCSims
    MaxTxs = 2
    Nobody = Nobody
    Refused = Refused
INVARIANTS
    TypeOK
    WritersExclusive
    NoLockLeaks
    ReadCountExact
PROPERTY
    BatchesFinish
CHECK_DEADLOCK FALSE
