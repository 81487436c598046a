SPECIFICATION Spec
CONSTANTS
  Width = 8
  Names = {n1, n2}
  Durations <- MCDurations
  MaxSummaryNames = 1
  MaxEnds = 3
SYMMETRY Symmetry
INVARIANTS
  ExactFields
  EveryEndCounted
  PercentilesClose
CHECK_DEADLOCK FALSE
