--------------------------- MODULE MCAudioCapture ---------------------------
(***************************************************************************)
(* AudioCapture with two devices and enough requests for a change within a *)
(* change, for TLC.                                                        *)
(***************************************************************************)
EXTENDS AudioCapture
=============================================================================
