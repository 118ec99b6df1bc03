SPECIFICATION Spec
CONSTANTS
    j1 = j1
    j2 = j2
    a1 = a1
    a2 = a2
    a3 = a3
    b1 = b1
    b2 = b2
    b3 = b3
    NoRun = NoRun
    Declared <- TwoJobs
    Runs <- RunsOfTwo
    JobOf <- JobsOfTwo
    Periodic <- Never
    Every = 1
    max_runs = 1
    MaxTime = 1
    MaxAsks = 2
    MaxFaults = 1
    MaxStarts = 1
INVARIANTS
    AtMostMaxRuns
PROPERTIES
    AskedIsDone
CHECK_DEADLOCK FALSE
