SPECIFICATION FairSpec
CONSTANTS
    Me = Me
    other = other
    Own = Own
    h2 = h2
    OtherRoot = OtherRoot
    None = None
    Accounts <- MCAccounts
    Hashes <- MCHashes
    MaxCalls = 2
INVARIANTS TypeOK PrefixApplied
PROPERTIES Authenticates ScriptEnds
CHECK_DEADLOCK FALSE
