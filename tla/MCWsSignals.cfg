SPECIFICATION SignalsSpec
CONSTANTS
    Signals = {1, 2}
    Unserved = {3}
    Sizes = {FALSE, TRUE}
    Modes = {"scanning", "polling"}
    Asks <- MCAsks
    MaxCommits = 2
    MaxOps = 3
INVARIANTS EndsAgree
PROPERTIES OperationsSettle HeldConverges
CHECK_DEADLOCK FALSE
