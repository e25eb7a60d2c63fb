-------------------------- MODULE MCPipeConnection --------------------------
(***************************************************************************)
(* PipeConnection for TLC, with messages of two reads, and of three, the   *)
(* second of which finds them longer than the cap.                         *)
(***************************************************************************)
EXTENDS PipeConnection

MCSizes == {3, 5}
MCNewsSizes == {3}
=============================================================================
