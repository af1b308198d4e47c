SPECIFICATION Spec
CONSTANTS
    o1 = o1
    o2 = o2
    None = None
    Orders = {o1}
    BrokerIds = {b1}
    Quantity <- MCQuantity
    Prices = {0, 3}
    MaxQuantity = 2
    MaxNotional = 8
    MaxAttempts = 1
    MaxEngage = 1
    MaxReplay = 0
    PersisterOutcomes = {TRUE}
    CancelRejects = TRUE
INVARIANTS
    WorkingNotTerminal
CHECK_DEADLOCK FALSE
