SPECIFICATION Spec
CONSTANTS
    n1 = n1
    n2 = n2
    t1 = t1
    t2 = t2
    Handler = Handler
    Nobody = Nobody
    Servers <- TwoServers
    Tasks <- TwoTasks
    Capacity = 2
    MaxConns = 2
    Budgets <- SevenBudgets
INVARIANTS
    ConnectionsWhole
    DeliveredInOrder
PROPERTIES
    AllMeansAll
    CallsReturn
CHECK_DEADLOCK FALSE
