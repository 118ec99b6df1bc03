SPECIFICATION Spec
CONSTANTS
    r1 = r1
    r2 = r2
    r3 = r3
    g1 = g1
    g2 = g2
    k1 = k1
    k2 = k2
    AnyKey = AnyKey
    Nobody = Nobody
    Requests <- ThreeRequests
    Emits <- OneEmit
    Kinds <- TwoKinds
    KindOf <- KindsOfRequests
    Regs <- TwoRegs
    KeyOf <- SameKey
    HostKeys <- FallbackHost
    AutoServe = TRUE
    Capacity = 1
PROPERTIES
    NobodyWaitsForever
CHECK_DEADLOCK FALSE
