\* Four keys in a cache of two, up to six hits and sets.
CONSTANTS
    Keys = {k1, k2, k3, k4}
    Values = {v1, v2}
    Capacity = 2
    None = None
    MaxUses = 6
SPECIFICATION CacheSpec
INVARIANTS
    CacheInv
PROPERTIES
    ImplementsRecencyMap
