SPECIFICATION FairSpec
CONSTANTS
    gInitialTick = 1
    LastTick = 3
    EndEpoch = FALSE
    LogTicks = {2, 3}
    BATCH_VERIFICATION = 1
    SAVE_PERIOD = 1
    LOOKAHEAD = 1
    DATA_THREADS = 1
    KEEP = 1
    MaxCrashes = 1
    MaxStops = 1
    MaxBad = 1
CHECK_DEADLOCK FALSE
INVARIANTS
    TypeOK
    ReplayedStateIsVerified
    SnapshotIsRecoverable
    IndexedTicksAreVerified
