\* Two ends of this release, one connection.
SPECIFICATION Spec
CONSTANTS
    OldVersions = {}
    MaxConnections = 1
    MaxReloads = 0
INVARIANT
    FeaturesAgreed
