---------------------------- MODULE MCPipeServer ----------------------------
(***************************************************************************)
(* PipeServer for TLC: its constants are model values and numbers.         *)
(***************************************************************************)
EXTENDS PipeServer
=============================================================================
