--------------------------- MODULE MCSongTimeline ---------------------------
(***************************************************************************)
(* SongTimeline with two songs of different lengths, for TLC.              *)
(***************************************************************************)
EXTENDS SongTimeline
=============================================================================
