SPECIFICATION Spec
CONSTANTS
    t1 = t1
    t2 = t2
    tbad = tbad
    Txs <- MCTxs
    Bad <- MCBad
    PeerTxs <- MCPeerTxs
    PoolCacheSize = 3
    MaxPeerBlocks = 3
    MaxSubmits = 1
INVARIANT DetachedKept
