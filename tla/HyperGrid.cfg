SPECIFICATION FairSpec
CONSTANTS
    banking = banking
    sim = sim
    Threads = {banking, sim}
    Sims = {sim}
    Recorders = {banking, sim}
    Users = {u1}
    Levels = {0, 1}
    Txs <- MCTxs
    MaxTxs = 2
    MaxUserTxs = 2
    Nothing = Nothing
CHECK_DEADLOCK FALSE
 
 
INVARIANT CachedIsPast
PROPERTY TransactionsEnd
