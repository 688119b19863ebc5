CONSTANTS
    a = a
    b = b
    z = z
    NoName = ""
    PublicKeys = {a, b}
    ZeroKey = z
    Home <- MCHome
    SPECTRUM_CAPACITY = 4
    Names = {"QX"}
    Contracts = {1, 2}
    ASSETS_CAPACITY = 8
    Amounts = {1}
    BATCH_VERIFICATION = 1
    MaxEvents = 3
    MaxTick = 4
SPECIFICATION Spec
INVARIANTS
    EntitiesAreFound
    RecordsAreFound
    HoldingsAgree
    SupplyIsConserved
PROPERTIES
    SpectrumDigestIsCurrent
    UniverseDigestIsCurrent
    EpochKeepsHoldings
CHECK_DEADLOCK FALSE
