------------------------------- MODULE MCPipe --------------------------------
(***************************************************************************)
(* Instances of Pipe for model checking.                                   *)
(***************************************************************************)
EXTENDS Pipe

CONSTANTS parent, child, other
=============================================================================
