SPECIFICATION CallsSpec
CONSTANTS
    Members = {"cmd", "qry", "str", "upc", "upq", "dup"}
    Foreign = {}
    Shape <- MCShape
    CarriesStreams = TRUE
    InitialCredit = 1
    ChunksPerTick = 2
    AbandonAfter = 1
    Bound = 1
    Lags = {0}
    Retained = 2
    MaxRetained = 2
    MaxCalls = 1
    MaxWrites = 2
    MaxReads = 1
INVARIANTS NoViolation CreditConserved UploadsWhole
PROPERTIES EveryCallSettles
CHECK_DEADLOCK FALSE
