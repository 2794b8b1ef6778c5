SPECIFICATION Spec
CONSTANTS
    prog = prog
    baseProg = baseProg
    r1 = r1
    r2 = r2
    sim = sim
    None = None
    Closed = Closed
    Keys = {prog}
    RemoteKeys = {}
    RemoteVerifies = TRUE
    BaseSlot = 9
    Codes = {1}
    ReplayThreads = {r1, r2}
    LimitThreads = {}
    MaxSlot = 3
    MaxDumps = 1
    MaxVersions = 3
CHECK_DEADLOCK FALSE
SYMMETRY MCSymmetry
INVARIANTS
    TypeOK
    BatchGetsForkProgram
    LoaderHoldsLock
    SleepersWillWake
    LoadsOnce
