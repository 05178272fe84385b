CONSTANTS
    MemMaps <- MCMemMaps
    Sizes <- MCSizes
    HeapSize <- MCHeapSize
SPECIFICATION Spec
INVARIANTS
    NoSharing
PROPERTIES
    ForgetsOnlyWhenEmpty
    StaysOrdered
    PoolSpec
