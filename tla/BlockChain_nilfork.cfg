SPECIFICATION Spec
CONSTANTS
    g = g
    a1 = a1
    a2 = a2
    a3 = a3
    b1 = b1
    b2 = b2
    x = x
    NoBlock = NoBlock
    NoHandler = NoHandler
    Handlers = {h1}
    Genesis = g
    Blocks <- RaceBlocks
    Parent <- RaceParent
    Height <- RaceHeight
    Work <- RaceWork
    Time <- RaceZero
    Rank <- RaceZero
    PeerChain = {}
    Bad = {}
    Pids = {"self", "peer"}
    EnBestBlockCmp = FALSE
    MaxBoots = 1
    MaxTransient = 1
INVARIANT ViewReachesGenesis
