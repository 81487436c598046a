SPECIFICATION Spec
CONSTANTS
  Producers = {p1, p2}
  Closers = {c1, c2}
  BufferSize = 1
  MaxBatch = 2
  Policies = {TRUE}
  Failures = {}
  HostileContexts = TRUE
  SinkFaults = {"error", "panic"}
  MaxSpans = 2
  MaxAttrs = 0
  MaxFaults = 1
SYMMETRY Symmetry
INVARIANTS
  GaugesExact
  SummaryIndependentOfSink
  CloseDelivers
  CloseAgrees
PROPERTIES
  SinkUntouchedAfterClose
  ImplementsWriterLoop
