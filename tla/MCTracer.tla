------------------------------ MODULE MCTracer ------------------------------
(***************************************************************************)
(* Tracer on small instances, with two refinements.  Of SpanStream: a span *)
(* takes effect for its caller when Start returns it, and is finished when *)
(* End releases its mutex.  Of WriterLoop: sequences become their lengths. *)
(***************************************************************************)
EXTENDS Tracer, TLC

Stream == INSTANCE SpanStream WITH
  known <- spans,
  finished <- ended \ locked,
  lineage <- [s \in SpanIds |-> IF s \in spans THEN parent[s] ELSE 0],
  verdict <- status,
  out <- stream

\* Every step of the tracer is one atomic public call taking effect, or internal:
\* the interleaving of sends, drops, Close and the writer shows through nowhere.
ImplementsSpanStream == Stream!Spec

Loop == INSTANCE WriterLoop WITH
  queued <- Len(queue),
  held <- Len(batch),
  unflushed <- audit.unflushed > 0

\* The tracer runs the loop of WriterLoop (writer.go:19-76), so what that promises for
\* a load that never ends is about this one: no step of a call, of Close with however
\* many closers and contexts that panic, or of a failing sink is outside of it.
ImplementsWriterLoop == Loop!Spec

\* Producers and closers are interchangeable; sound for safety only.
Symmetry == Permutations(Producers) \cup Permutations(Closers)
=============================================================================
