CONSTANTS
    MemMaps <- MCMemMaps
    Sizes <- MCSizes
    HeapSize <- MCHeapSize
SPECIFICATION Spec
INVARIANTS
    NothingForgotten
