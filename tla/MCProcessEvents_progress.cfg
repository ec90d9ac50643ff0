SPECIFICATION FairEventsSpec
CONSTANTS
    p1 = p1
    p2 = p2
    p3 = p3
    k1 = k1
    k2 = k2
    NoProcess = NoProcess
    NoPid = NoPid
    NoEvent = NoEvent
    Processes <- TwoProcesses
    Pids <- OnePid
    MaxPasses = 2
    MaxStarts = 1
    MaxFailures = 1
    MaxEntries = 2
    MaxLost = 1
    MaxRestarts = 1
PROPERTIES
    RequestsReturn
    ExitsPushed
CHECK_DEADLOCK FALSE
