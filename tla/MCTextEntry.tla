---------------------------- MODULE MCTextEntry -----------------------------
(***************************************************************************)
(* TextEntry for TLC.                                                      *)
(***************************************************************************)
EXTENDS TextEntry

CONSTANTS a, sp

MCAlnum == {a}
MCOther == {sp}
MCTexts == {<<>>, <<a, sp, a>>, <<a, sp, LF, a, a>>, <<a, sp, a, a, sp>>}
MCClips == {<<>>, <<a, LF>>, <<LF, sp, a>>}
=============================================================================
