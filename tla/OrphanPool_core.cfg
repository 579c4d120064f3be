SPECIFICATION FairSpec
CONSTANTS
    p = p
    q = q
    c1 = c1
    c2 = c2
    d = d
    e = e
    None = None
    Blocks <- MCBlocks
    Hashes <- MCHashes
    Parent <- MCParent
    MaxOrphans = 2
    TTL = 1
    MaxTime = 2
    MaxCopies = 2
INVARIANTS TypeOK IndexesAgree BoundInv
PROPERTIES ImplementsSet EvictsWhenFull LoopEnds
