CONSTANTS
    MaxPid = 3
    MaxOpen = 4
    Archives <- MCArchives
    Names <- MCNames
    Init0 = "init"
    Console = "console"
    Fb = "fb"
    MaxInodes = 4
    Objects = 24
    Texts <- MCTexts
    Cols = 2
    Rows = 1
    MaxLine = 2
    Screens <- MCScreens
    Chars = {8, 10, 36}
    FbSizes = {2497}
    Width = 4
    MaxPut = 3
    Ints <- MCInts
SPECIFICATION DevicesSpec
INVARIANTS
    ListsMembers
    DescriptorsRight
    ScreenShows
    LineInOrder
PROPERTIES
    PrintkReturns
