--------------------------- MODULE MCLyricsWorker ---------------------------
(***************************************************************************)
(* LyricsWorker with two tracks and one file chosen by hand, for TLC.      *)
(***************************************************************************)
EXTENDS LyricsWorker
=============================================================================
