CONSTANTS
    MaxPid = 3
    MAXFILES = 4
    MaxPd = 5
SPECIFICATION Spec
INVARIANTS
    QueueInv
    RunningIsCurrent
    OwnAddressSpace
    NeverIdle
PROPERTIES
    DeadForever
    NoOvertaking
    ReadyRuns
