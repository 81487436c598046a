---------------------------- MODULE MCTracePath -----------------------------
(***************************************************************************)
(* TracePath with three runs, of which one or none may overwrite.          *)
(***************************************************************************)
EXTENDS TracePath

CONSTANTS r1, r2, r3

ThreeRuns == {r1, r2, r3}
OneOverwrites == [r \in ThreeRuns |-> r = r1]
NoneOverwrites == [r \in ThreeRuns |-> FALSE]
=============================================================================
