\* The leader of tick 1 signed two tick datas; tick 2 can only be empty.
SPECIFICATION Spec
CONSTANTS
    c1 = c1
    c2 = c2
    c3 = c3
    c4 = c4
    a1 = a1
    b1 = b1
    a2 = a2
    x1 = x1
    x2 = x2
    y1 = y1
    Computors = {c1, c2, c3, c4}
    EmptyQuorum = 2
    Quorum = 3
    MinVotes = 1
    gInitialTick = 1
    MaxTick = 2
    Word = 16
    BATCH_VERIFICATION = 2
    SAVE_PERIOD = 1
    MAX_AHEAD = 2
    MaxRestarts = 1
    Digests = {a1, b1}
    Transactions = {x1, y1}
    TickOf <- MCTickOf
    TxTick <- MCTxTick
    TxsOf <- MCTxsOf
    Votes <- MCVotes
SYMMETRY Symmetry
CHECK_DEADLOCK FALSE
INVARIANTS
    TypeOK
    FetcherAndVerifierAgree
    FetchedTickIsComplete
PROPERTY FetchedDigestIsFinal
