----------------------------- MODULE MCSummary ------------------------------
(***************************************************************************)
(* Summary on a small instance: durations of 8 bits, whose sums wrap.      *)
(***************************************************************************)
EXTENDS Summary, TLC

\* A missing start time, the ends of buckets on both sides of 7/8, of an octave and of
\* the range, and values whose sum is past the top of the range.
MCDurations == {-3, 0, 1, 7, 8, 15, 79, 127}

\* Names are interchangeable.
Symmetry == Permutations(Names)
=============================================================================
