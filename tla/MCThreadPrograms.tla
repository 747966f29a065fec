--------------------------- MODULE MCThreadPrograms ---------------------------
(* Instances of ThreadPrograms. *)
EXTENDS ThreadPrograms

CONSTANTS initproc, main, a, b, c

MCWorkers == <<a, b, c>>
MCInitCount == [s \in Sems |-> 0]
=============================================================================
