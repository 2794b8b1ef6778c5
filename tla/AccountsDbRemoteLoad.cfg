SPECIFICATION Spec
CONSTANTS
    clock = clock
    acct = acct
    replay1 = replay1
    banking1 = banking1
    sim1 = sim1
    rpc1 = rpc1
    None = None
    Pubkeys <- MCPubkeys
    Sysvar = clock
    MigratedKeys <- MCMigrated
    ReplayThreads <- MCReplay
    BankingThreads <- MCNone
    SimThreads <- MCNone
    RpcThreads <- MCNone
    MaxSlot = 2
    MaxVal = 2
    MaxStores = 1
    LoadLimit = 100
INVARIANT
    LocalAccountIsReturned
CHECK_DEADLOCK FALSE
