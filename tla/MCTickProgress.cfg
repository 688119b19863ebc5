\* All computors agree on the one tick data of each tick; one restart.
SPECIFICATION FairSpec
CONSTANTS
    c1 = c1
    c2 = c2
    c3 = c3
    c4 = c4
    a1 = a1
    b1 = b1
    a2 = a2
    x1 = x1
    x2 = x2
    y1 = y1
    Computors = {c1, c2, c3}
    EmptyQuorum = 2
    Quorum = 2
    MinVotes = 1
    gInitialTick = 1
    MaxTick = 2
    Word = 16
    BATCH_VERIFICATION = 2
    SAVE_PERIOD = 1
    MAX_AHEAD = 0
    MaxRestarts = 1
    Digests = {a1, a2}
    Transactions = {x1, x2}
    TickOf <- MCTickOf
    TxTick <- MCTxTick
    TxsOf <- MCTxsOf
    Votes <- AgreedVotes

CHECK_DEADLOCK FALSE
INVARIANT FilterDropsNothingNeeded
PROPERTY EveryTickIsFetched
