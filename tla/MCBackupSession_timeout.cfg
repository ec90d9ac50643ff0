\* One synchronous send is enough.
SPECIFICATION Spec
CONSTANTS
    c1 = c1
    c2 = c2
    f = f
    NoClose = NoClose
    NoMessage = NoMessage
    Closes <- TwoCloses
    Sync <- OneClose
    Paths = {f}
    Path <- OnePath
    SeenMsgCap = 2
    MaxRedeliveries = 1
    MaxThrows = 0
INVARIANTS RetriedAfterTimeout
\* The client ends, and every close has been served.
CHECK_DEADLOCK FALSE
