SPECIFICATION FairSpec
CONSTANTS
    gInitialTick = 1
    LastTick = 4
    EndEpoch = TRUE
    LogTicks = {2, 3, 4}
    BATCH_VERIFICATION = 1
    SAVE_PERIOD = 2
    LOOKAHEAD = 1
    DATA_THREADS = 1
    KEEP = 1
    MaxCrashes = 0
    MaxStops = 0
    MaxBad = 1
CHECK_DEADLOCK FALSE
INVARIANT
    SnapshotLostOnlyByCrash
