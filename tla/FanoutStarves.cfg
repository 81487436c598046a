SPECIFICATION FanoutSpec
CONSTANTS
  s1 = s1
  s2 = s2
  Members = 3
  Slog = 2
  Batches <- MCBatches
  MaxCalls = 2
  MaxFaults = 1
  MaxOpen = 1
  MaxEvents = 2
INVARIANT NoMemberStarves
CHECK_DEADLOCK FALSE
