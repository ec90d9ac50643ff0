SPECIFICATION Spec
CONSTANTS
    h1 = h1
    h2 = h2
    o1 = o1
    o2 = o2
    n1 = n1
    n2 = n2
    NoName = NoName
    NoHandle = NoHandle
    Handles <- OneHandle
    Ops <- OneOp
    Kinds <- Deletions
    Names <- TwoNames
    FirstName = n1
    Excluded = {}
    Detaches = FALSE
    MaxOps = 1
    MaxFailures = 0
SYMMETRY Symmetry
INVARIANTS
    CreateDeleteStays
CHECK_DEADLOCK FALSE
