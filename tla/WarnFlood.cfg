SPECIFICATION Spec
CONSTANTS
  Callers = {c1, c2, c3}
  MaxClock = 3
  MaxSwaps = 3
SYMMETRY Symmetry
INVARIANTS
  AtMostOncePerSecond
CHECK_DEADLOCK FALSE
