\* The connection handlers, with a shared TUN interface and with one per connection.
SPECIFICATION Spec
CONSTANTS
    Conns = {c1, c2, c3}
    Users = {u1}
    NoUser = NoUser
    NoConn = NoConn
    UintMod = 64
    Limits = {0, 1, 2}
    Setups <- AllSetups
SYMMETRY Symmetry
INVARIANTS
    TypeOK
    NoSharedAddress
    SlotsAccounted
    RouteToOwner
    ConflictOnlyWithClosed
    ClosedUnrouted
    UserListsCurrent
    UserLimit
PROPERTIES
    ImplementsLease
