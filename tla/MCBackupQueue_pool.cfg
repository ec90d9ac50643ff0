\* Two callbacks, two workers, a cap of one: the cap can be hit while the other
\* callback undoes its own increment.  No symmetry, since some of the properties
\* are temporal.
SPECIFICATION FairSpec
CONSTANTS
  Cleanups = {c1, c2}
  Workers = {w1, w2}
  MaxDepth = 1
  None = None
INVARIANTS TypeOK NoLostWakeup DepthAccounting OneOwner StatsAccount QuiescentWhenDown
PROPERTIES ImplementsLedger RequestsSettle RundownDrains
\* The driver stays down after unload.
CHECK_DEADLOCK FALSE
