SPECIFICATION Spec
CONSTANTS
    scanner1 = scanner1
    Scanners <- MCScanners
    MaxSlot = 2
    MaxVersion = 2
    MaxBanks = 3
INVARIANTS TypeOK SlotsExclusive    NoMissedSignal
CHECK_DEADLOCK FALSE
