SPECIFICATION Spec
CONSTANTS
    Settings <- PingSettings
    Setups <- PongSetups
    IdleInterval = 2
    WireSize = 1
INVARIANTS
    OnlySilenceTimesOut
