SPECIFICATION FairSpec
CONSTANTS
    r1 = r1
    r2 = r2
    Requests <- MCRequests
    StartSeqs <- MCStartSeqs
    InitSeq = 2
    MaxSeq = 4
    ChanBufCap = 1
    PushMaxSeq = 1
    FailLimit = 2
    PostFail2Sleep = 2
    MaxRuns = 2
    MaxFails = 2
    MaxRestarts = 1
INVARIANTS
    TypeOK
    NoGap
    Served
PROPERTIES
    CatchesUp
    CloseEnds
CHECK_DEADLOCK FALSE
