SPECIFICATION Spec
CONSTANTS
    s1 = s1
    s2 = s2
    n1 = n1
    Sessions <- TwoSessions
    Servers <- OneServer
INVARIANTS
    TeardownKeeps
PROPERTIES
    FailuresReported
    TeardownEnds
