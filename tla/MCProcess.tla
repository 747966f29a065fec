------------------------------ MODULE MCProcess ------------------------------
(***************************************************************************)
(* Instances of Process for model checking.                                *)
(***************************************************************************)
EXTENDS Process

CONSTANTS initproc, a, b, c
=============================================================================
