SPECIFICATION PartsSpec
CONSTANTS
    Attachments = {a1, a2, a3}
    MaxNo = 3
    Debug = TRUE
    Machine = here
    here = here
    there = there
    Instances <- MCInstances
    Placed <- MCPlaced
    Names <- MCNames
    Catalogs <- MCCatalogs
    NoHolder = NoHolder
    pair = pair
    single = single
    good = good
    bad = bad
    Interfaces = {pair, single}
    Keys <- MCKeys
    Values = {good, bad}
    Staged <- MCStaged
    Empty = Empty
    Checks <- MCChecks
    Writers = {w1}
    Scanners = {r1}
    Rooms = {1, 2, 3}
    MaxTime = 1
    MaxCommits = 2
    NoEntry = NoEntry
    NoChange = NoChange
    Events = {e1, e2}
    Sinks = {k1}
    MaxSources = 2
    MaxRaises = 3
    Tasks = {t1, t2}
    NoWaker = NoWaker
INVARIANTS NoOpposites PublishedExactly NothingMissed OwedAndAwake
PROPERTIES RefusedForLive
