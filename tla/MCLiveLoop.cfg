SPECIFICATION Spec
CONSTANTS
    o1 = o1
    o2 = o2
    None = None
    Orders = {o1, o2}
    BrokerIds = {b1, b2}
    Quantity <- MCSingleShares
    Prices = {0, 3}
    MaxQuantity = 2
    MaxNotional = 8
    MaxAttempts = 2
    MaxEngage = 1
    MaxReplay = 0
    PersisterOutcomes = {TRUE}
    CancelRejects = TRUE
SYMMETRY IdSymmetry
INVARIANTS
    TypeOK
    CorrelationSound
    OnlyInFlightPassKillSwitch
CHECK_DEADLOCK FALSE
