\* A deleting close and another of the same path: three messages, and a window
\* of two ids.
SPECIFICATION FairSpec
CONSTANTS
    c1 = c1
    c2 = c2
    f = f
    NoClose = NoClose
    NoMessage = NoMessage
    Closes <- TwoCloses
    Sync <- OneClose
    Paths = {f}
    Path <- OnePath
    SeenMsgCap = 2
    MaxRedeliveries = 1
    MaxThrows = 1
INVARIANTS TypeOK AnsweredIsRecorded RowsTrue OneRow PortHeldOpen
PROPERTIES SendsReturn
\* The client ends, and every close has been served.
CHECK_DEADLOCK FALSE
