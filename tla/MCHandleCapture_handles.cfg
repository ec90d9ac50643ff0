SPECIFICATION Spec
CONSTANTS
    h1 = h1
    h2 = h2
    o1 = o1
    o2 = o2
    n1 = n1
    n2 = n2
    NoName = NoName
    NoHandle = NoHandle
    Handles <- TwoHandles
    Ops <- TwoOps
    Kinds <- KindsButResize
    Names <- TwoNames
    FirstName = n1
    Excluded = {n2}
    Detaches = TRUE
    MaxOps = 3
    MaxFailures = 1
SYMMETRY Symmetry
CONSTRAINT Scope
INVARIANTS
    TypeOK
    ModifiedIsRequested
    OwnDeletionCaptured
    OnlyChangesRequested
    OwnNameIsFinal
CHECK_DEADLOCK FALSE
