---------------------------- MODULE MCThreadLife -----------------------------
(***************************************************************************)
(* Instances of ThreadLife for model checking.                             *)
(***************************************************************************)
EXTENDS ThreadLife

CONSTANTS main, a, b, c, d
=============================================================================
