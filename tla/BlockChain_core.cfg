SPECIFICATION Spec
CONSTANTS
    g = g
    a1 = a1
    a2 = a2
    a3 = a3
    b1 = b1
    b2 = b2
    x = x
    NoBlock = NoBlock
    NoHandler = NoHandler
    Handlers = {h1, h2}
    Genesis = g
    Blocks <- ForkBlocks
    Parent <- ForkParent
    Height <- ForkHeight
    Work <- ForkWork
    Time <- ForkTime
    Rank <- ForkRank
    PeerChain = {}
    Bad = {}
    Pids = {"self", "peer"}
    EnBestBlockCmp = TRUE
    MaxBoots = 1
    MaxTransient = 0
SYMMETRY Symmetry
INVARIANTS TypeOK ViewMatchesDB BestIsChain TdConsistent TipHeaviest TieSettled
PROPERTIES RestartKeepsChain ImplementsBestChain
