SPECIFICATION FanoutSpec
CONSTANTS
  s1 = s1
  s2 = s2
  Members = 3
  Slog = 2
  Batches <- MCBatches
  MaxCalls = 3
  MaxFaults = 2
  MaxOpen = 1
  MaxEvents = 5
INVARIANTS
  OnlyPanicStarves
  WrittenMeansEveryone
  FailuresShowOnce
  RecordFaithful
  OpenIsBounded
  LogFollowsDelivery
CHECK_DEADLOCK FALSE
