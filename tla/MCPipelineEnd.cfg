SPECIFICATION FairSpec
CONSTANTS
    gInitialTick = 1
    LastTick = 3
    EndEpoch = TRUE
    LogTicks = {2, 3}
    BATCH_VERIFICATION = 1
    SAVE_PERIOD = 10
    LOOKAHEAD = 1
    DATA_THREADS = 1
    KEEP = 1
    MaxCrashes = 1
    MaxStops = 0
    MaxBad = 1
CHECK_DEADLOCK FALSE
INVARIANTS
    EndedEpochIsComplete
    IndexerEndsComplete

    
