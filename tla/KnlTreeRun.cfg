SPECIFICATION Spec
CONSTANTS
    s1 = s1
    s2 = s2
    s3 = s3
    h1 = h1
    h2 = h2
    NoStream = NoStream
    NoHandle = NoHandle
    Streams <- TwoStreams
    Handles <- TwoHandles
    Amounts <- OneAmount
    MaxI64 = 3
    MaxEvents = 6
    MaxNotes = 0
SYMMETRY SymmetryTwo
INVARIANTS
    AllocationsPaired
    NoChildAfterEnding
    EndingsAccountForChildren
    UnitsConserved
CHECK_DEADLOCK FALSE
