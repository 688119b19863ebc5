CONSTANTS
    q1 = q1
    q2 = q2
    t1 = t1
    Queries = {q1, q2}
    Transactions = {t1}
    Nonce <- MCNonce
    Malformed = {}
    BMs = {b1}
    MAX_ATTEMPTS = 3
    MRB_SC_PACKETS = 2
    MaxResets = 1
SPECIFICATION Spec
CHECK_DEADLOCK FALSE
PROPERTIES
    EveryQueryIsAnswered
