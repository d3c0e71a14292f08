\* Five-bit lengths and two-bit identifier bytes, of which 4 and 7 collide.  Packets
\* that are sent whole or in two fragments (17), cut past their end or in two
\* fragments (22), wrapped to whole and too large (31) and refused (32), under
\* limits that go down and up.
SPECIFICATION Spec
CONSTANTS
    Packets = {p1, p2}
    Lengths = {17, 22, 31, 32}
    UintMod = 32
    IdMod = 16
    ByteMod = 4
    FirstIDs = {3}
    Skips = {2}
    MaxSkips = 1
    InitialMax = 21
    Limits = {16}
    MaxRefreshes = 1
INVARIANTS
    TypeOK
    IntactUnlessCollision
PROPERTIES
    WriteReturns
