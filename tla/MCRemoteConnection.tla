----------------------- MODULE MCRemoteConnection -----------------------
(* RemoteConnection with two visualizers and one network target, for TLC. *)
EXTENDS RemoteConnection
===============================================================================
