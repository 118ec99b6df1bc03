SPECIFICATION Spec
CONSTANTS
    j1 = j1
    j2 = j2
    a1 = a1
    a2 = a2
    a3 = a3
    b1 = b1
    b2 = b2
    b3 = b3
    NoRun = NoRun
    Declared <- OneJob
    Runs <- ThreeRuns
    JobOf <- JobsOfOne
    Periodic <- First
    Every = 1
    max_runs = 2
    MaxTime = 1
    MaxAsks = 1
    MaxFaults = 2
    MaxStarts = 2
INVARIANTS
    RecordIsTrue
    NothingLeftOver
CHECK_DEADLOCK FALSE
