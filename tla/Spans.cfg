SPECIFICATION Spec
CONSTANTS
  Tracers = {t1, t2}
  Producers = {p1, p2}
  None = None
  Cadence = 1
  Costs = {0, 20}
  HostileContexts = TRUE
  MaxWork = 6
SYMMETRY Symmetry
INVARIANTS
  TraceIsTree
  GaugesMatchOpen
  SnapshotsInOrder
  OverheadInRange
CHECK_DEADLOCK FALSE
