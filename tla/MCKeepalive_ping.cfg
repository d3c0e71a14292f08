SPECIFICATION Spec
CONSTANTS
    Settings <- PingSettings
    Setups <- PingSetups
    IdleInterval = 2
    WireSize = 1
INVARIANTS
    TypeOK
    TimeoutExplained
PROPERTIES
    DeadPeerDetected
    WritesReturn
