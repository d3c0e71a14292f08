SPECIFICATION Spec
CONSTANTS
    Conns = {c1, c2}
    c1 = c1
    c2 = c2
    Nobody = Nobody
    MaxPerUser = 1
    Setups <- ServerSetups
INVARIANTS
    TypeOK
    LockOrder
    NoCircle
PROPERTIES
    SocketsLockComesFree
    ServerStops
