\* Two sockets, two addresses, caches of one or two entries, one reload.
SPECIFICATION Spec
CONSTANTS
    Sockets = {s1, s2}
    Macs = {m1, m2}
    NoSocket = NoSocket
    NoMac = NoMac
    Sizes = {1, 2}
    MaxReloads = 1
SYMMETRY Symmetry
INVARIANTS
    TypeOK
    ClaimsExplained
    ClaimsBounded
    Exclusive
    OneMACOnly
