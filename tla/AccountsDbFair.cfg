SPECIFICATION FairSpec
CONSTANTS
    clock = clock
    acct = acct
    replay1 = replay1
    banking1 = banking1
    sim1 = sim1
    rpc1 = rpc1
    None = None
    Pubkeys <- MCPubkeys
    Sysvar = clock
    MigratedKeys <- MCNone
    ReplayThreads <- MCReplay
    BankingThreads <- MCNone
    SimThreads <- MCNone
    RpcThreads <- MCRpc
    MaxSlot = 1
    MaxVal = 1
    MaxStores = 2
    LoadLimit = 1
INVARIANT
    NoPanic
PROPERTIES
    LoadTerminates
    RootsAreFlushed
CHECK_DEADLOCK FALSE
