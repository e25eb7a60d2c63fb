------------------------------ MODULE AudioBuf ------------------------------
(***************************************************************************)
(* The circular sample buffer between the WASAPI capture thread and the    *)
(* render thread (audio/audiobuf.cpp).  Every function holds pcmLpbMutex   *)
(* from its first to its last statement, so each is one action.  One       *)
(* channel stands for both and one array for the 8-bit and float copies:   *)
(* they are written together at the same index.                            *)
(*                                                                         *)
(* Samples are the stamps of AudioWindow.  What a sample is worth (the     *)
(* average of downsampleRatio frames, the gain, the clamping) is left out, *)
(* and the zeros of a silent packet are samples like any other.            *)
(***************************************************************************)
EXTENDS Integers, Sequences

CONSTANTS Size, Stamps, Readers, Need, MaxPacket

\* GetAudioBuf is the reader "bytes", GetAudioBufFloat the reader "floats".
ASSUME ReadersAssumption == Readers \subseteq {"bytes", "floats"}
ASSUME SizeAssumption   == Size \in Nat \ {0}
ASSUME StampsAssumption == Stamps \in Nat \ {0}
ASSUME NeedAssumption   == Need \in [Readers -> 1..Size]
ASSUME PacketAssumption == MaxPacket \in Nat

\* A function-local static that no call has initialised yet.
Unset == -1

\* consecutiveReads is only compared with 3; it is counted up to here.
ReadCap == 4

Slots == 0..(Size - 1)

VARIABLES
    ring,             \* pcmLeftLpb, pcmLeftFloatLpb
    pcmLen,
    pcmPos,
    consecutiveReads, \* the static of each reader
    lastPcmPos,       \* the static of each reader
    clock,            \* samples captured so far, modulo Stamps
    out,              \* out[r]: what the call of r just made returned, else <<>>
    staleReads,       \* history: calls of r since the last sample arrived
    unread            \* history: samples since r's last call (see Unread)

bufVars == <<ring, pcmLen, pcmPos>>
staticVars == <<consecutiveReads, lastPcmPos>>
vars == <<bufVars, staticVars, clock, out, staleReads, unread>>

ResultTypeOK ==
    \A r \in Readers : out[r] \in Seq(0..Stamps) /\ Len(out[r]) \in {0, Need[r]}

TypeOK ==
    /\ ring \in [Slots -> 0..Stamps]
    /\ pcmLen \in 0..Size
    /\ pcmPos \in Slots
    /\ consecutiveReads \in [Readers -> 0..ReadCap]
    /\ lastPcmPos \in [Readers -> Slots \cup {Unset}]
    /\ clock \in 0..(Stamps - 1)
    /\ ResultTypeOK
    /\ staleReads \in [Readers -> 0..(ReadCap + 1)]
    /\ unread \in [Readers -> 0..Size]

Stamp(k) == 1 + ((clock + k) % Stamps)

Silence(r) == [i \in 1..Need[r] |-> 0]

NoResult == [r \in Readers |-> <<>>]

AtMost(n, cap) == IF n <= cap THEN n ELSE cap

Init ==
    /\ ring = [k \in Slots |-> 0]
    /\ pcmLen = 0
    /\ pcmPos = 0
    /\ consecutiveReads = [r \in Readers |-> 0]
    /\ lastPcmPos = [r \in Readers |-> Unset]
    /\ clock = 0
    /\ out = NoResult
    /\ staleReads = [r \in Readers |-> 0]
    /\ unread = [r \in Readers |-> 0]

ResetAudioBuf ==
    /\ ring' = [k \in Slots |-> 0]
    /\ pcmLen' = 0
    /\ out' = NoResult
    /\ UNCHANGED <<pcmPos, staticVars, clock, staleReads, unread>>

(***************************************************************************)
(* SetAudioBuf for a packet of outputSamples samples after downsampling.   *)
(* The loop runs from start to len - 1, and its iteration m (from 0)       *)
(* stores output sample start + m at slot pcmPos + m.                      *)
(***************************************************************************)
Start(outputSamples) == IF outputSamples >= Size THEN outputSamples - Size ELSE 0
Limit(outputSamples) == AtMost(outputSamples, Size)
Written(outputSamples) ==
    IF Limit(outputSamples) > Start(outputSamples)
    THEN Limit(outputSamples) - Start(outputSamples) ELSE 0

\* unread counts samples modulo Size, with Size for a positive multiple of it:
\* 0 means nothing came, Size that the cursor is back where it was.
Unread(u, n) == IF u + n = 0 THEN 0 ELSE 1 + ((u + n - 1) % Size)

SetAudioBuf(outputSamples) ==
    LET n == Written(outputSamples)
        iteration(k) == (k - pcmPos) % Size    \* the one that stores at slot k
    IN  /\ ring' = [k \in Slots |->
                        IF iteration(k) < n THEN Stamp(Start(outputSamples) + iteration(k))
                                            ELSE ring[k]]
        /\ pcmLen' = AtMost(pcmLen + n, Size)
        /\ pcmPos' = (pcmPos + n) % Size
        /\ clock' = (clock + outputSamples) % Stamps
        /\ staleReads' = IF n = 0 THEN staleReads ELSE [r \in Readers |-> 0]
        /\ unread' = [r \in Readers |-> Unread(unread[r], n)]
        /\ out' = NoResult
        /\ UNCHANGED staticVars

(***************************************************************************)
(* GetAudioBuf ("bytes") and GetAudioBufFloat ("floats").                  *)
(***************************************************************************)
\* The static is initialised from pcmPos by the first call.
SeenPos(r) == IF lastPcmPos[r] = Unset THEN pcmPos ELSE lastPcmPos[r]

\* Mutant: reads without new samples are not counted.
ReadsNowNeverCounts(r) == 0

\* Mutant: a moved cursor does not start the count again.
ReadsNowNeverResets(r) == AtMost(consecutiveReads[r] + 1, ReadCap)

ReadsNow(r) == IF pcmPos = SeenPos(r) THEN AtMost(consecutiveReads[r] + 1, ReadCap) ELSE 0

Underrun(r) == \/ r = "bytes" /\ pcmLen < Need[r]
               \/ r = "floats" /\ pcmLen = 0
               \/ ReadsNow(r) > 3

\* Mutant: the window ends one sample before the newest.
CopyBehindCursor(r) ==
    LET available == AtMost(pcmLen, Need[r])
    IN  [i \in 1..Need[r] |->
            IF i <= Need[r] - available THEN 0
            ELSE ring[(pcmPos - 2 + i - Need[r] + Size) % Size]]

\* Zeros for what is not captured yet, then the samples that end at the cursor.
Copy(r) == LET available == AtMost(pcmLen, Need[r])
               base == pcmPos - available + Size
           IN  [i \in 1..Need[r] |->
                   IF i <= Need[r] - available THEN 0
                   ELSE ring[(base + i - 1 - (Need[r] - available)) % Size]]

Read(r) ==
    /\ consecutiveReads' = [consecutiveReads EXCEPT ![r] = ReadsNow(r)]
    /\ lastPcmPos' = [lastPcmPos EXCEPT ![r] = pcmPos]
    /\ out' = [NoResult EXCEPT ![r] = IF Underrun(r) THEN Silence(r) ELSE Copy(r)]
    /\ staleReads' = [staleReads EXCEPT ![r] = AtMost(@ + 1, ReadCap + 1)]
    /\ unread' = [unread EXCEPT ![r] = 0]
    /\ UNCHANGED <<bufVars, clock>>

Next ==
    \/ ResetAudioBuf
    \/ \E n \in 0..MaxPacket : SetAudioBuf(n)
    \/ \E r \in Readers : Read(r)

Spec == Init /\ [][Next]_vars

-----------------------------------------------------------------------------
(***************************************************************************)
(* Properties                                                              *)
(***************************************************************************)

\* The remembered samples, oldest first: the pcmLen slots that end at pcmPos.
Recent == [i \in 1..pcmLen |-> ring[(pcmPos - pcmLen + i - 1) % Size]]

AW == INSTANCE AudioWindow WITH recent <- Recent

\* The ring, its cursor and its fill count implement the window of newest
\* samples: no packet size, reset or wrap of the cursor makes a reader see an
\* old sample again, miss a new one or see them out of order.
ImplementsWindow == AW!Spec

\* When capture stalls, a reader is not shown the same frozen waveform for
\* ever: a fifth call without a new sample returns silence.
StaleIsSilent == \A r \in Readers : staleReads[r] > ReadCap => out[r] \in {<<>>, Silence(r)}

\* A reader that asks as soon as new samples are there is given them, however
\* long the stall before them.  The code compares cursors, so this is said
\* only of arrivals that move the cursor.
FreshIsHeard ==
    [][\A r \in Readers :
          /\ staleReads[r] = 0 /\ staleReads'[r] = 1
          /\ unread[r] \in 1..(Size - 1) /\ lastPcmPos[r] # Unset
          /\ pcmLen >= Need[r]
          => out'[r] = Copy(r)]_vars
=============================================================================
