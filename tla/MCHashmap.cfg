SPECIFICATION HashmapSpec
CONSTANTS
    k1 = k1
    k2 = k2
    k3 = k3
    Key = {k1, k2, k3}
    Value = {0, 57005}
    NULL = NULL
    Hash <- MCHash
    HASHMAP_DEFAULT_CAPACITY = 3
    HASHMAP_RESIZE_FACTOR = 2
    ITERATE_STOP = 1
    MaxCapacity = 6
INVARIANTS
    HashmapTypeOK
    Reachable
    OneEntryPerKey
    EmptyBucketLeft
    CountsAgree
PROPERTIES
    EmptyMapIsNotResized
    ImplementsOrderedMap
