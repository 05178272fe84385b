CONSTANTS
    HeapSize = 64
    MaxSize = 40
    Sizes <- MCSizes
    PgSize = 48
    Base = 262176
    Asked = {0, 4, 5, 12, 36, 40}
    Half = 3
    Byte = {0, 97, 200}
    Width = 4
    BUFSIZ = 3
    MaxPut = 4
    Ints <- MCInts
SPECIFICATION LibrarySpec
INVARIANTS
    Coalesced
    HeapTiles
    HeapSound
    RoutinesRight
    OutputRight
PROPERTIES
    PayloadFits
    ReturnsWritten
