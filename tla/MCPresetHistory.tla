--------------------------- MODULE MCPresetHistory --------------------------
(***************************************************************************)
(* PresetHistory with two presets and a short ring, for TLC.               *)
(***************************************************************************)
EXTENDS PresetHistory
=============================================================================
