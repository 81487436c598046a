------------------------------- MODULE MCWarn -------------------------------
(***************************************************************************)
(* Warn on a small instance.                                               *)
(***************************************************************************)
EXTENDS Warn, TLC

\* Callers are interchangeable.
Symmetry == Permutations(Callers)
=============================================================================
