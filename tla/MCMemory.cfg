CONSTANTS
    Users = {p1, p2}
    MaxPid = 3
    Frames <- MCFrames
    Device = 10
    FbPages = 1
    Images <- MCImages
    InitImage <- SmallImage
    StackPages = 1
    KernelPage = 12
    MmapLimit = 7
    MmapLens = {1, 2}
    JunkSz = {0, 4}
    ElfPage = 4
    Word = 64
    ElfKernel = 48
    ElfStack = 8
    Ram = 52
    Execs <- ElfExecs
    InitFile <- ElfInitFile
    MaxCalls = 3
    PgBytes = 2
    NEntries = 2
    NDir = 16
    KPhysBase = 4
    KUnpagedEnd = 6
    StackBytes = 2
    PtFrames = {2, 8, 10, 14, 26}
    Fbs <- MCFbs
    Mapping <- MCMapping
    Lens <- MCLens
SPECIFICATION MemorySpec
SYMMETRY UserSymmetry
INVARIANTS
    Isolation
    NoAliasing
    ForkFits
    RunsImage
    Described
    Reached
    Mapped
