CONSTANTS
    MaxPid = 3
    Frames <- MCFrames
    Device = 10
    FbPages = 1
    Images <- MCImages
    InitImage <- SmallImage
    StackPages = 1
    KernelPage = 12
    MmapLimit = 7
    MmapLens = {1, 2}
    JunkSz = {0, 4}
SPECIFICATION Spec
INVARIANT ForkReports
