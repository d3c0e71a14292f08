SPECIFICATION Spec
CONSTANTS
    Conns = {c1, c2}
    c1 = c1
    MTUs = {m1, m2}
    NoMTU = NoMTU
    Faults = {"load", "features", "mode", "mtu", "auth", "tls"}
    Setups <- ReloadSetups
SYMMETRY Symmetry
INVARIANTS
    TypeOK
    NewUsersNewSettings
    PingSettingsCurrent
    MTUAgrees
