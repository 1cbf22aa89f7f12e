SPECIFICATION FairSpec
CONSTANTS
    SlotSpan = 1
    GenSpan = 2
    StreamWakers = 2
    StreamNos = {0, 1}
    Tasks = {Noop}
    Outcomes = {"Ok", "Err", "Undelivered", "Interrupted"}
    NoWaker = NoWaker
    NoOutcome = NoOutcome
    N = 1
    Members = {m1}
    Kinds = {"Command"}
    MaxCallers = 1
    MaxHandlers = 2
    MaxSends = 1
    MaxFaults = 0
    NoCall = NoCall
    NoOwner = NoOwner
    Noop = Noop
    StreamWindow = 1
    MaxQueue = 1
PROPERTIES ForgottenComesBack ServedIsSettled PortSpec
CHECK_DEADLOCK FALSE
