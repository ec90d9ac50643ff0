SPECIFICATION Spec
CONSTANTS
    p1 = p1
    p2 = p2
    p3 = p3
    k1 = k1
    k2 = k2
    k3 = k3
    NoProcess = NoProcess
    NoPid = NoPid
    Processes <- ThreeProcesses
    Pids <- ThreePids
    MaxPasses = 10
    MaxStarts = 1
    MaxFailures = 0
SYMMETRY Symmetry
INVARIANTS
    TypeOK
    OneEntry
    StoppedIsEmpty
    DueAreTracked
    CallbackEntriesLive
    SnapshotComplete
    OnlyDescendants
CHECK_DEADLOCK FALSE
