SPECIFICATION Spec
CONSTANTS
    clock = clock
    acct = acct
    replay1 = replay1
    banking1 = banking1
    sim1 = sim1
    rpc1 = rpc1
    None = None
    Pubkeys <- MCPubkeys
    Sysvar = clock
    MigratedKeys <- MCMigrated
    ReplayThreads <- MCNone
    BankingThreads <- MCBanking
    SimThreads <- MCSim
    RpcThreads <- MCNone
    MaxSlot = 1
    MaxVal = 1
    MaxStores = 2
    LoadLimit = 100
INVARIANT
    IndexLeadsToAccount
CHECK_DEADLOCK FALSE
