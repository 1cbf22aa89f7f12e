SPECIFICATION StreamsSpec
CONSTANTS
    SlotSpan = 1
    GenSpan = 3
    StreamWakers = 2
    StreamNos = {0, 1}
    Tasks = {t1, Noop}
    Outcomes = {"Ok", "Err", "Undelivered", "Interrupted"}
    NoWaker = NoWaker
    NoOutcome = NoOutcome
    N = 1
    Members = {m1}
    Kinds = {"Command", "Query"}
    MaxCallers = 1
    MaxHandlers = 1
    MaxSends = 1
    MaxFaults = 1
    NoCall = NoCall
    NoOwner = NoOwner
    Noop = Noop
    StreamWindow = 1
    MaxQueue = 1
INVARIANTS StreamsConsistent
PROPERTIES EndedParameterKept StreamWakeOnChange
CHECK_DEADLOCK FALSE
