SPECIFICATION WsSpec
CONSTANTS
    Conns = {c1, c2}
    Users = {u1}
    Owner <- MCOwner
    Rooms = {r1}
    MaxConnections = 2
    SendQueueSize = 1
    MaxSubscriptions = 1
    Kinds = {"model", "dict"}
    MaxEvents = 1
INVARIANT SenderDropsDeadSockets
CHECK_DEADLOCK FALSE
