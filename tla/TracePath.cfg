SPECIFICATION Spec
CONSTANTS
  r1 = r1
  r2 = r2
  r3 = r3
  Runs <- ThreeRuns
  Overwrite <- OneOverwrites
  MaxFiles = 3
INVARIANTS
  NoSharedFile
PROPERTIES
  RerunKeepsTrace
CHECK_DEADLOCK FALSE
