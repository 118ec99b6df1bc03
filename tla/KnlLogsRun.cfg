SPECIFICATION Spec
CONSTANTS
    t1 = t1
    t2 = t2
    t3 = t3
    o1 = o1
    o2 = o2
    p1 = p1
    p2 = p2
    NoTask = NoTask
    Tasks <- ThreeTasks
    Orphans <- TwoThreads
    Procs <- TwoProcs
    ProcOf <- TwoInOne
    Spellings <- ThreeSpellings
    Bare <- BareName
    Settings <- TwoOrOne
    LegacyLogs <- TwoClocks
    Fresh = 3
    MaxStops = 2
    MaxAppends = 1
INVARIANTS
    HistoryKept
    SharedAndDrained
PROPERTIES
    AloneGetsIn
CHECK_DEADLOCK FALSE
