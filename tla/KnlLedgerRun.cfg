SPECIFICATION Spec
CONSTANTS
    s1 = s1
    s2 = s2
    s3 = s3
    h1 = h1
    h2 = h2
    NoStream = NoStream
    NoHandle = NoHandle
    Streams <- OneStream
    Handles <- TwoHandles
    Amounts <- MixedAmounts
    MaxI64 = 3
    MaxEvents = 5
    MaxNotes = 1
SYMMETRY SymmetryOne
INVARIANTS
    TypeOK
    CacheNeverStale
    NoOverdraft
    ResumedBeforeEnding
CHECK_DEADLOCK FALSE
