------------------------------ MODULE MCServer ------------------------------
(***************************************************************************)
(* Instances of Server for TLC.                                            *)
(***************************************************************************)
EXTENDS Server, TLC

CONSTANTS main, kid

EveryTool == ByStop \cup ByProgram \cup {"sessions", "launch", "terminate"}

=============================================================================
