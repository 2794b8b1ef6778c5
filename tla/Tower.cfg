SPECIFICATION Spec
CONSTANTS
    MaxLockoutHistory = 2
    Lockout <- MCLockout
    MaxSlot = 5
    MaxBlocks = 4
    MaxQueue = 1
    MaxCrashes = 1
INVARIANTS
    LockoutsHonoured
    VotesAreAccepted
    
    ReplayNeverPanics
CHECK_DEADLOCK FALSE
