SPECIFICATION Spec
CONSTANTS
  Producers = {p1, p2}
  Closers = {c1}
  BufferSize = 1
  MaxBatch = 2
  Policies = {FALSE}
  Failures = {"error"}
  HostileContexts = FALSE
  SinkFaults = {"error"}
  MaxSpans = 2
  MaxAttrs = 1
  MaxFaults = 1
SYMMETRY Symmetry
INVARIANTS
  TypeOK
  FIFO
  PerSpanOrder
  ParentFirst
  Verdict
  EveryEventHasOneFate
PROPERTIES
  ImplementsSpanStream
