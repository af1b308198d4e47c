SPECIFICATION FairSpec
CONSTANTS
    o1 = o1
    o2 = o2
    None = None
    Orders = {o1}
    BrokerIds = {b1}
    Quantity <- MCThreeShares
    Prices = {0, 3, 5}
    MaxQuantity = 3
    MaxNotional = 12
    MaxAttempts = 1
    MaxEngage = 1
    MaxReplay = 1
    PersisterOutcomes = {TRUE, FALSE}
    CancelRejects = FALSE
INVARIANTS
    FillsAccounted
    FilledIffComplete
    StoredNeverAhead
    RefusedOnlyAfterGap
PROPERTIES
    TerminalIsFinal
    CancelResolves
CHECK_DEADLOCK FALSE
