SPECIFICATION GroupSpec
CONSTANTS
    p1 = p1
    Dispatches = {d1}
    Hooks = {w1, w2}
    Retries = {0, 2}
    MaxEdits = 1
    Conns = {c1, c2}
    Users = {u1}
    Owner <- MCOwner
    Rooms = {r1}
    MaxConnections = 1
    SendQueueSize = 1
    MaxSubscriptions = 1
    Kinds = {"model", "dict"}
    MaxEvents = 1
    Ids = {i1}
    Accounts = {a1, a2}
    Public = {g1}
    MaxSockets = 2
    MaxCasts = 2
    Tasks = {t1, t2}
    TickCap = 2
    MaxSignals = 1
    MaxTicks = 2
    MaxCalls = 3
    ApiJobs = {a1}
    QueueJobs = {q1, q2}
    ResultsTtl = 1
    JobRetries = 1
    MaxJobTime = 2
    MaxCrashes = 1
    Threads = {t1, t2}
    Observers = {p1, x1}
    InitialObservers <- MCOneKept
    Reasons = {r1, r2}
    MaxTransitions = 3
    None = None
INVARIANTS
    ConnectionsInStep
    SignalsAccounted
    RecordsKept
    SnapshotsAreWhole
    NotifiedOncePerTransition
PROPERTIES
    ImplementsSwitch
    TransitionsReachObservers
    DeliverySettles
    SocketsSettle
    WorkEnds
CHECK_DEADLOCK FALSE
