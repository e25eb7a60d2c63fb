----------------------------- MODULE AudioWindow -----------------------------
(***************************************************************************)
(* What the audio buffer promises to the renderer, without saying how: it  *)
(* remembers the newest Size samples captured since the last reset, and a  *)
(* reader is handed either silence or the newest samples, oldest first,    *)
(* the ones not captured yet being zero.  AudioBuf implements this with a  *)
(* ring of Size slots, a write cursor and a fill count.                    *)
(*                                                                         *)
(* Samples are stamped 1, 2, ..., Stamps, 1, 2, ... in the order they are  *)
(* captured; 0 is silence.                                                 *)
(***************************************************************************)
EXTENDS Integers, Sequences

CONSTANTS Size,       \* samples the buffer remembers (SAMPLE_SIZE_LPB)
          Stamps,     \* names for samples, reused cyclically
          Readers,    \* the functions that read the buffer
          Need,       \* Need[r]: samples r asks for (SamplesCount)
          MaxPacket   \* samples in the longest packet of the audio engine

VARIABLES clock,     \* samples captured so far, modulo Stamps
          recent,    \* the newest samples captured since the last reset
          out        \* out[r]: what r was just given, else <<>>

awVars == <<clock, recent, out>>

\* The stamp of the k-th sample (from 0) after clock.
Stamp(k) == 1 + ((clock + k) % Stamps)

\* A packet of n samples.
Packet(n) == [i \in 1..n |-> Stamp(i - 1)]

\* The newest n elements of s, or all of s when it is shorter.
Newest(s, n) == IF Len(s) <= n THEN s ELSE SubSeq(s, Len(s) - n + 1, Len(s))

Silence(r) == [i \in 1..Need[r] |-> 0]

\* The newest Need[r] samples, with zeros in front of them when too few.
Window(r) == LET s == Newest(recent, Need[r])
             IN  [i \in 1..(Need[r] - Len(s)) |-> 0] \o s

NoResult == [r \in Readers |-> <<>>]

Init == /\ clock = 0
        /\ recent = <<>>
        /\ out = NoResult

Capture(n) ==
    /\ clock' = (clock + n) % Stamps
    /\ recent' = Newest(recent \o Packet(n), Size)
    /\ out' = NoResult

Forget == /\ recent' = <<>>
          /\ out' = NoResult
          /\ UNCHANGED clock

Give(r) == /\ \/ out' = [NoResult EXCEPT ![r] = Silence(r)]
              \/ out' = [NoResult EXCEPT ![r] = Window(r)]
           /\ UNCHANGED <<clock, recent>>

Next == \/ \E n \in 0..MaxPacket : Capture(n)
        \/ Forget
        \/ \E r \in Readers : Give(r)

Spec == Init /\ [][Next]_awVars
=============================================================================
