CONSTANTS
    PGSIZE = 4
    WORD = 64
    MAXMEMMAP = 5
    Firmware <- MCFirmware
    Reserved <- MCReserved
SPECIFICATION BootSpec
INVARIANTS
    MapRight
    BootSafe
PROPERTY BootEnds
