CONSTANTS
    LastTick = 4
    Empty = {3}
    NUMBER_OF_TRANSACTIONS_PER_TICK = 2
    TickTxs <- MCTickTxs
    LogRanges <- MCLogRanges
    LogAt <- MCLogAt
    Spam <- MCSpam
    Matching <- MCMatching
    Batches = {1, 2}
    CLEAN_LAG = 1
    gLastNTickStorage = 1
    gTxTickToLive = 1
    Requests <- MCRequests
    Queries <- MCQueries
    MaxFaults = 1
SPECIFICATION Spec
CHECK_DEADLOCK FALSE
INVARIANTS
    RetainedDataIsStored
    CleanedTicksAreGone
    RepliesAreComplete
PROPERTIES
    SearchIsExact
