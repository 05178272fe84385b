CONSTANTS
    MaxPid = 3
    MAXFILES = 4
    MaxPd = 5
SPECIFICATION Spec
INVARIANTS
    FilesBounded
