SPECIFICATION FairSpec
CONSTANTS
    s1 = s1
    s2 = s2
    m1 = m1
    m2 = m2
    m3 = m3
    a1 = a1
    Initial = Initial
    None = None
    NoMap = NoMap
    Slots <- MCSlots
    Mgmt <- MCMgmt
    SlotOf <- MCSlotOf
    Auths <- MCAuths
    AuthSlot <- MCAuthSlot
    MaxTimeouts = 1
    MaxLost = 1
    MaxRejects = 1
    MaxDeadlines = 1
INVARIANTS TypeOK IInv CacheCoherent StableRoot OnChainAgrees RetrySuffices
PROPERTIES AuthCurrent AuthEnds
