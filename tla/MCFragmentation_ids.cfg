\* The real constants (the 32-bit counter capped at 24 bits): identifiers 256 and 511.
SPECIFICATION Spec
CONSTANTS
    Packets = {p1, p2}
    Lengths = {1400}
    UintMod = 65536
    IdMod = 16777216
    ByteMod = 256
    FirstIDs = {255}
    Skips = {254}
    MaxSkips = 1
    InitialMax = 1184
    Limits = {}
    MaxRefreshes = 0
INVARIANTS
    PacketsIntact
