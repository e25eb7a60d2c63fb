---------------------------- MODULE MCPresetMenu ----------------------------
(***************************************************************************)
(* PresetMenu with a directory of several bursts, one of a single entry    *)
(* and an empty drive, for TLC.                                            *)
(***************************************************************************)
EXTENDS PresetMenu

CONSTANTS many, one, empty

MCDirs == {many, one, empty}
MCCount == [d \in MCDirs |-> CASE d = many -> 3 [] d = one -> 1 [] d = empty -> 0]
=============================================================================
