----------------------------- MODULE MCAudioBuf -----------------------------
(* TLC instance of AudioBuf. *)
EXTENDS AudioBuf

MCNeed == [r \in Readers |-> IF r = "bytes" THEN 2 ELSE 3]
=============================================================================
