------------------------------ MODULE MCSpans -------------------------------
(***************************************************************************)
(* Spans on a small instance: two tracers, two goroutines.                 *)
(***************************************************************************)
EXTENDS Spans, TLC

\* Producers are interchangeable, and so are tracers.
Symmetry == Permutations(Producers) \cup Permutations(Tracers)
=============================================================================
