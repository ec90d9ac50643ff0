SPECIFICATION EventsSpec
CONSTANTS
    p1 = p1
    p2 = p2
    p3 = p3
    k1 = k1
    k2 = k2
    NoProcess = NoProcess
    NoPid = NoPid
    NoEvent = NoEvent
    Processes <- TwoProcesses
    Pids <- TwoPids
    MaxPasses = 1
    MaxStarts = 1
    MaxFailures = 0
    MaxEntries = 2
    MaxLost = 0
    MaxRestarts = 0
SYMMETRY Symmetry
INVARIANTS
    EventsTypeOK
    TrackedShown
    ExitsShown
    ChildUnderParent
CHECK_DEADLOCK FALSE
