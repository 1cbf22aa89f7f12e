SPECIFICATION Spec
CONSTANTS
    Members = {"up", "upq", "dup"}
    Foreign = {"foreign"}
    Shape <- MCShape
    CarriesStreams = TRUE
    InitialCredit = 1
    ChunksPerTick = 2
    AbandonAfter = 1
    Bound = 1
    Lags = {0, 2}
    Retained = 1
    MaxRetained = 1
    Frames <- MCFrames
    MaxMessages = 5
PROPERTIES OneAnswer SilentAfterEnd NeverPresentedAgain CallsEnd
CHECK_DEADLOCK FALSE
