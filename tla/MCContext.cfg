CONSTANTS
    MaxPid = 3
    Tags = {1, 2}
    Depth = 29
SPECIFICATION Spec
INVARIANTS
    Balanced
    ResumesWhole
PROPERTY
    OwnStack
