\* Two workers and one callback are enough for the event to be cleared under a
\* worker that has already tested Stop.
SPECIFICATION FairSpec
CONSTANTS
  Cleanups = {c1}
  Workers = {w1, w2}
  MaxDepth = 1
  None = None
PROPERTIES UninitializeReturns
CHECK_DEADLOCK FALSE
