--------------------------- MODULE MCPresetLoader ---------------------------
(***************************************************************************)
(* PresetLoader with a preset of each kind and a short history, for TLC.   *)
(***************************************************************************)
EXTENDS PresetLoader
=============================================================================
