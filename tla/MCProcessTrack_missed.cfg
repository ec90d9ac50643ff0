SPECIFICATION Spec
CONSTANTS
    p1 = p1
    p2 = p2
    p3 = p3
    k1 = k1
    k2 = k2
    k3 = k3
    NoProcess = NoProcess
    NoPid = NoPid
    Processes <- TwoProcesses
    Pids <- TwoPids
    MaxPasses = 2
    MaxStarts = 1
    MaxFailures = 0
INVARIANTS
    DescendantsTracked
CHECK_DEADLOCK FALSE
