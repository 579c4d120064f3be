SPECIFICATION FairSpec
CONSTANTS
    g = g
    a1 = a1
    a2 = a2
    a3 = a3
    b1 = b1
    b2 = b2
    x = x
    NoBlock = NoBlock
    NoHandler = NoHandler
    Handlers = {h1, h2}
    Genesis = g
    Blocks <- LineBlocks
    Parent <- LineParent
    Height <- LineHeight
    Work <- LineWork
    Time <- LineTime
    Rank <- LineRank
    PeerChain = {a1, a2}
    Bad = {}
    Pids = {"self", "peer"}
    EnBestBlockCmp = FALSE
    MaxBoots = 1
    MaxTransient = 0
PROPERTY Converges
