SPECIFICATION SpecRekey
CONSTANTS
    MaxLockoutHistory = 2
    Lockout <- MCLockout
    MaxSlot = 5
    MaxBlocks = 4
    MaxQueue = 1
    MaxCrashes = 0
INVARIANT SavedBeforeSent
CHECK_DEADLOCK FALSE
