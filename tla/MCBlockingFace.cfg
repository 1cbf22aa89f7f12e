SPECIFICATION FaceSpec
CONSTANTS
    SlotSpan = 1
    GenSpan = 3
    StreamWakers = 1
    StreamNos = {0}
    Tasks = {Noop, first, second, serving}
    Outcomes = {"Ok", "Err", "Undelivered", "Interrupted"}
    NoWaker = NoWaker
    NoOutcome = NoOutcome
    N = 1
    Members = {m1}
    Kinds = {"Query"}
    MaxCallers = 2
    MaxHandlers = 2
    MaxSends = 2
    MaxFaults = 0
    NoCall = NoCall
    NoOwner = NoOwner
    Noop = Noop
    first = first
    second = second
    ClientTask <- MCClientTask
    ServerTask = serving
    Member = m1
    Budget = 1
    Limits <- MCLimits
    NoCorrelation = NoCorrelation
INVARIANTS SleepsSoundly NothingLeftWaiting
CHECK_DEADLOCK FALSE
