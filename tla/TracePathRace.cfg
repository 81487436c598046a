SPECIFICATION Spec
CONSTANTS
  r1 = r1
  r2 = r2
  r3 = r3
  Runs <- ThreeRuns
  Overwrite <- NoneOverwrites
  MaxFiles = 3
INVARIANTS
  NoTraceDestroyed
CHECK_DEADLOCK FALSE
