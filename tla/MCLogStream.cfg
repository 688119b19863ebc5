CONSTANTS
    Clients = {c1}
    a = a
    b = b
    Keys = {a, b}
    NoKey = NoKey
    initialTick = 5
    LastTick = 7
    MaxLogId = 2
    LogTick <- MCLogTick
    LogKey <- MCLogKey
    Small = {1}
    Deletable = {1}
    BATCH_VERIFICATION = 2
    BATCH_SIZE = 2
    Messages <- MCMessages
    MaxMessages = 2
SPECIFICATION Spec
CHECK_DEADLOCK FALSE
INVARIANTS
    IndexMatchesSubscriptions
    NotLeftMuted
    LiveInOrder
    TickStreamIsVerified
    LostOnlyAroundSubscribe
