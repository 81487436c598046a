SPECIFICATION FairSpec
CONSTANTS
  Producers = {p1, p2}
  Closers = {c1, c2}
  BufferSize = 2
  MaxBatch = 2
  Policies = {TRUE, FALSE}
PROPERTIES
  CallsReturn
  CloseReleasesCallers
  CloseCompletes
  AcceptedIsFlushed
