CONSTANTS
    Heads = {h1, h2}
    Elems = {e1, e2, e3, e4}
    NULL = NULL
    XHeads = {{1}, {2}}
    XElems = {{3}, {1, 3}, {2, 3}, {1, 2}}
    XCookies = {{}, {1, 2}}
SYMMETRY Symmetry
SPECIFICATION QueuesSpec
INVARIANTS
    Links
    LoopsVisit
PROPERTY SimpleQueues
