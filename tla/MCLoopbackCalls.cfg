SPECIFICATION Spec
CONSTANTS
    SlotSpan = 2
    GenSpan = 3
    StreamWakers = 1
    StreamNos = {0}
    Tasks = {t1, Noop}
    Outcomes = {"Ok", "Err", "Undelivered", "Interrupted"}
    NoWaker = NoWaker
    NoOutcome = NoOutcome
    N = 2
    Members = {m1}
    Kinds = {"Command"}
    MaxCallers = 2
    MaxHandlers = 2
    MaxSends = 2
    MaxFaults = 1
    NoCall = NoCall
    NoOwner = NoOwner
    Noop = Noop
INVARIANTS StoreConsistent
PROPERTIES WakeOnChange
CHECK_DEADLOCK FALSE
