SPECIFICATION FairSpec
CONSTANTS
    t1 = t1
    t2 = t2
    tbad = tbad
    Txs <- MCTxs
    Bad <- MCBad
    PeerTxs <- MCPeerTxs
    PoolCacheSize = 2
    MaxPeerBlocks = 2
    MaxSubmits = 1
INVARIANTS TypeOK TxOnce Kept BuildsOnTip HeaderSettles
PROPERTIES Mined
