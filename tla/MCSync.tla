------------------------------- MODULE MCSync --------------------------------
(***************************************************************************)
(* Instances of Sync for model checking.                                   *)
(***************************************************************************)
EXTENDS Sync

CONSTANTS initproc, main, a, b, m1, m2, s1, c1

MCInitCount == [s \in Sems |-> 1]
=============================================================================
