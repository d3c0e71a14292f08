\* Two connections with servers and clients of every version from 9 on.
SPECIFICATION Spec
CONSTANTS
    OldVersions = {9, 10, 11}
    MaxConnections = 2
    MaxReloads = 1
INVARIANTS
    TypeOK
    FormatsAgree
    FragmentationAsDocumented
    NoInterfaceLeft
    ScriptsPaired
