---------------------------- MODULE Audio_proof ----------------------------
(***************************************************************************)
(* Proofs about the audio: the sample buffer, for every buffer size,       *)
(* reader window and packet, and the capture that fills it, for any set of *)
(* devices and any number of requests.                                     *)
(***************************************************************************)
EXTENDS AudioBuf, AudioCapture, TLAPS, SequenceTheorems

\* A remainder lies below its divisor: the index of a slot, of a stamp.
LEMMA ModRange ==
    /\ \A a \in Int : a % Size \in Slots
    /\ \A a \in Int : a % Stamps \in 0..(Stamps - 1)
BY SizeAssumption, StampsAssumption DEF Slots

\* What a read returns is a full window of samples, from whichever slots.
LEMMA WindowType ==
    ASSUME TypeOK, NEW r \in Readers
    PROVE  /\ Silence(r) \in Seq(0..Stamps) /\ Len(Silence(r)) = Need[r]
           /\ Copy(r) \in Seq(0..Stamps) /\ Len(Copy(r)) = Need[r]
<1>1. Need[r] \in Nat /\ Need[r] > 0
  BY NeedAssumption, SizeAssumption
<1>2. Silence(r) \in [1..Need[r] -> 0..Stamps]
  BY <1>1, StampsAssumption DEF Silence
<1>3. Copy(r) \in [1..Need[r] -> 0..Stamps]
  <2> DEFINE available == AtMost(pcmLen, Need[r])
  <2> DEFINE slot(i) == (pcmPos - available + Size + i - 1 - (Need[r] - available)) % Size
  <2>0. pcmLen \in Int /\ pcmPos \in Int
    BY SizeAssumption DEF TypeOK, Slots
  <2>1. available \in Int
    BY <1>1, <2>0 DEF AtMost
  <2>2. \A i \in 1..Need[r] : slot(i) \in Slots
    <3>1. \A i \in 1..Need[r] :
             pcmPos - available + Size + i - 1 - (Need[r] - available) \in Int
      BY <1>1, <2>0, <2>1, SizeAssumption
    <3> QED
      BY <3>1, ModRange
  <2>3. \A i \in 1..Need[r] : ring[slot(i)] \in 0..Stamps
    BY <2>2 DEF TypeOK
  <2> QED
    BY <2>3, <1>1, StampsAssumption DEF Copy
<1>4. ASSUME NEW f \in [1..Need[r] -> 0..Stamps]
      PROVE  f \in Seq(0..Stamps) /\ Len(f) = Need[r]
  <2>1. f \in Seq(0..Stamps)
    BY <1>1, SeqDef
  <2>2. Len(f) \in Nat /\ 1..Len(f) = 1..Need[r]
    BY <2>1, LenProperties
  <2> QED
    BY <1>1, <2>1, <2>2
<1> QED
  BY <1>2, <1>3, <1>4

LEMMA NoResultTypeNext == out' = NoResult => ResultTypeOK'
BY DEF NoResult, ResultTypeOK

LEMMA InitTypeOK == Init => TypeOK
BY SizeAssumption, StampsAssumption, NeedAssumption
   DEF Init, TypeOK, ResultTypeOK, Slots, Unset, ReadCap, NoResult

LEMMA StepTypeOK == TypeOK /\ [Next]_vars => TypeOK'
<1> SUFFICES ASSUME TypeOK, [Next]_vars PROVE TypeOK'
  OBVIOUS
<1>1. CASE ResetAudioBuf
  <2>1. ResultTypeOK'
    BY <1>1, NoResultTypeNext DEF ResetAudioBuf
  <2> QED
    BY <1>1, <2>1, SizeAssumption, StampsAssumption
       DEF ResetAudioBuf, TypeOK, staticVars
<1>2. ASSUME NEW n \in 0..MaxPacket, SetAudioBuf(n) PROVE TypeOK'
  <2>1. Written(n) \in 0..Size
    BY SizeAssumption, PacketAssumption DEF Written, Start, Limit, AtMost
  <2>2. \A m \in Int : Stamp(m) \in 0..Stamps
    BY ModRange, StampsAssumption DEF Stamp, TypeOK
  <2>3. ring' \in [Slots -> 0..Stamps]
    <3>1. \A k \in Slots : (k - pcmPos) % Size \in Int
      BY ModRange DEF TypeOK, Slots
    <3>2. Start(n) \in Int
      BY SizeAssumption, PacketAssumption DEF Start
    <3> QED
      BY <1>2, <2>2, <3>1, <3>2 DEF SetAudioBuf, TypeOK
  <2>4. pcmLen' \in 0..Size /\ pcmPos' \in Slots /\ clock' \in 0..(Stamps - 1)
    <3>1. pcmLen \in 0..Size /\ pcmPos \in Int /\ clock \in Int
      BY SizeAssumption, StampsAssumption DEF TypeOK, Slots
    <3>2. AtMost(pcmLen + Written(n), Size) \in 0..Size
      BY <3>1, <2>1, SizeAssumption DEF AtMost
    <3>3. (pcmPos + Written(n)) % Size \in Slots
      BY <3>1, <2>1, ModRange
    <3>4. (clock + n) % Stamps \in 0..(Stamps - 1)
      BY <3>1, PacketAssumption, ModRange
    <3> QED
      BY <1>2, <3>2, <3>3, <3>4 DEF SetAudioBuf
  <2>5. unread' \in [Readers -> 0..Size]
    <3>1. \A u \in 0..Size : Unread(u, Written(n)) \in 0..Size
      <4> SUFFICES ASSUME NEW u \in 0..Size PROVE Unread(u, Written(n)) \in 0..Size
        OBVIOUS
      <4>1. (u + Written(n) - 1) % Size \in Slots
        BY <2>1, ModRange, SizeAssumption
      <4> QED
        BY <4>1, SizeAssumption DEF Unread, Slots
    <3>2. \A r \in Readers : unread[r] \in 0..Size
      BY DEF TypeOK
    <3> QED
      BY <1>2, <3>1, <3>2 DEF SetAudioBuf
  <2>6. staleReads' \in [Readers -> 0..(ReadCap + 1)]
    BY <1>2 DEF SetAudioBuf, TypeOK, ReadCap
  <2>7. UNCHANGED staticVars /\ ResultTypeOK'
    BY <1>2, NoResultTypeNext DEF SetAudioBuf
  <2> QED
    BY <2>3, <2>4, <2>5, <2>6, <2>7 DEF TypeOK, staticVars
<1>3. ASSUME NEW r \in Readers, Read(r) PROVE TypeOK'
  <2>1. ResultTypeOK'
    <3> SUFFICES ASSUME NEW q \in Readers
                 PROVE  out'[q] \in Seq(0..Stamps) /\ Len(out'[q]) \in {0, Need[q]}
      BY DEF ResultTypeOK
    <3>1. CASE q = r
      BY <1>3, <3>1, WindowType DEF Read, NoResult
    <3>2. CASE q # r
      <4>1. out'[q] = <<>>
        BY <1>3, <3>2 DEF Read, NoResult
      <4> QED
        BY <4>1
    <3> QED
      BY <3>1, <3>2
  <2>2. /\ consecutiveReads' \in [Readers -> 0..ReadCap]
        /\ staleReads' \in [Readers -> 0..(ReadCap + 1)]
    <3>0. consecutiveReads[r] \in 0..ReadCap /\ staleReads[r] \in 0..(ReadCap + 1)
      BY DEF TypeOK
    <3>1. ReadsNow(r) \in 0..ReadCap
      BY <3>0 DEF ReadsNow, AtMost, ReadCap
    <3>2. AtMost(staleReads[r] + 1, ReadCap + 1) \in 0..(ReadCap + 1)
      BY <3>0 DEF AtMost, ReadCap
    <3> QED
      BY <1>3, <3>1, <3>2 DEF Read, TypeOK
  <2>3. lastPcmPos' \in [Readers -> Slots \cup {Unset}]
    BY <1>3 DEF Read, TypeOK
  <2>4. unread' \in [Readers -> 0..Size]
    BY <1>3, SizeAssumption DEF Read, TypeOK
  <2> QED
    BY <1>3, <2>1, <2>2, <2>3, <2>4 DEF Read, TypeOK, bufVars
<1>4. CASE UNCHANGED vars
  BY <1>4 DEF vars, bufVars, staticVars, TypeOK, ResultTypeOK
<1> QED
  BY <1>1, <1>2, <1>3, <1>4 DEF Next

\* Every slot the buffer functions touch exists, and the cursor and the fill
\* count stay in range, whatever the packets, resets and reads.
THEOREM TypeCorrect == Spec => []TypeOK
<1> QED
  BY InitTypeOK, StepTypeOK, PTL DEF Spec

-----------------------------------------------------------------------------
(***************************************************************************)
(* Arithmetic of the ring: a position may be reduced before or after one   *)
(* moves from it, and whole turns do not matter.                           *)
(***************************************************************************)
LEMMA Division ==
    ASSUME NEW a \in Int
    PROVE  a \div Size \in Int /\ a = Size * (a \div Size) + (a % Size)
BY SizeAssumption

LEMMA SlotIsItself == \A k \in Slots : k % Size = k
BY SizeAssumption DEF Slots

LEMMA WholeTurns ==
    ASSUME NEW q \in Int, NEW b \in Int
    PROVE  (Size * q + b) % Size = b % Size
<1>1. b % Size \in 0..(Size - 1) /\ b \div Size \in Int
  BY SizeAssumption
<1>2. Size * q + b = Size * (q + (b \div Size)) + (b % Size)
  BY Division, SizeAssumption
<1>3. ASSUME NEW p \in Int, NEW r \in 0..(Size - 1)
      PROVE  (Size * p + r) % Size = r
  BY SizeAssumption
<1> QED
  BY <1>1, <1>2, <1>3

LEMMA OneTurn == \A a \in Int : (a + Size) % Size = a % Size
<1> SUFFICES ASSUME NEW a \in Int PROVE (a + Size) % Size = a % Size
  OBVIOUS
<1>1. a + Size = Size * 1 + a
  BY SizeAssumption
<1> QED
  BY <1>1, WholeTurns

LEMMA ReduceFirst == \A a, b \in Int : ((a % Size) + b) % Size = (a + b) % Size
<1> SUFFICES ASSUME NEW a \in Int, NEW b \in Int
             PROVE  ((a % Size) + b) % Size = (a + b) % Size
  OBVIOUS
<1> DEFINE q == a \div Size
<1> DEFINE r == a % Size
<1>1. q \in Int /\ r \in Int /\ Size * q \in Int
  BY SizeAssumption
<1>2. a = Size * q + r
  BY Division
<1> HIDE DEF q, r
<1>3. a + b = Size * q + (r + b)
  BY <1>1, <1>2
<1>4. (Size * q + (r + b)) % Size = (r + b) % Size
  BY <1>1, WholeTurns
<1> QED
  BY <1>3, <1>4 DEF r

\* Two positions that are less than a turn apart are different slots.
LEMMA LessThanATurn ==
    ASSUME NEW p \in Slots, NEW u \in 1..(Size - 1)
    PROVE  (p + u) % Size # p
<1>1. CASE p + u < Size
  BY <1>1, SlotIsItself, SizeAssumption DEF Slots
<1>2. CASE p + u >= Size
  <2>1. p + u - Size \in Slots
    BY <1>2, SizeAssumption DEF Slots
  <2>2. (p + u) % Size = p + u - Size
    BY <2>1, SlotIsItself, OneTurn, SizeAssumption DEF Slots
  <2> QED
    BY <2>2, SizeAssumption DEF Slots
<1> QED
  BY <1>1, <1>2, SizeAssumption DEF Slots

-----------------------------------------------------------------------------
(***************************************************************************)
(* The statics of a reader, against the history of its reads and of what   *)
(* came between them.                                                      *)
(***************************************************************************)
\* Reads without a new sample in between leave the cursor where the reader saw it, and are
\* counted, the first of them excepted.
StallCounted ==
    \A r \in Readers :
        /\ staleReads[r] >= 1 => lastPcmPos[r] = pcmPos
        /\ staleReads[r] >= 1 => consecutiveReads[r] >= staleReads[r] - 1

\* The cursor is as far from where the reader saw it as samples came since.
CursorTracked ==
    \A r \in Readers :
        lastPcmPos[r] # Unset => pcmPos = (lastPcmPos[r] + unread[r]) % Size

StallInv == TypeOK /\ StallCounted /\ CursorTracked /\ StaleIsSilent

LEMMA WrittenRange == \A n \in 0..MaxPacket : Written(n) \in 0..Size
BY SizeAssumption, PacketAssumption DEF Written, Start, Limit, AtMost

LEMMA UnreadTracks ==
    ASSUME NEW u \in 0..Size, NEW n \in 0..Size, NEW p \in Slots
    PROVE  (p + Unread(u, n)) % Size = (((p + u) % Size) + n) % Size
<1>1. p \in Int /\ Size \in Int
  BY SizeAssumption DEF Slots
<1>2. (((p + u) % Size) + n) % Size = (p + u + n) % Size
  <2>1. p + u \in Int /\ n \in Int
    BY <1>1
  <2> QED
    BY <2>1, ReduceFirst
<1>3. CASE u + n = 0
  BY <1>1, <1>2, <1>3 DEF Unread
<1>4. CASE u + n # 0
  <2>1. Unread(u, n) = 1 + ((u + n - 1) % Size)
    BY <1>4 DEF Unread
  <2>2. (((u + n - 1) % Size) + (p + 1)) % Size = (u + n - 1 + (p + 1)) % Size
    <3>1. u + n - 1 \in Int /\ p + 1 \in Int
      BY <1>1
    <3> QED
      BY <3>1, ReduceFirst
  <2>3. (u + n - 1) % Size \in Int
    BY <1>1, SizeAssumption
  <2>4. /\ p + (1 + ((u + n - 1) % Size)) = ((u + n - 1) % Size) + (p + 1)
        /\ u + n - 1 + (p + 1) = p + u + n
    BY <1>1, <2>3
  <2> QED
    BY <1>2, <2>1, <2>2, <2>4
<1> QED
  BY <1>3, <1>4

LEMMA InitStallInv == Init => StallInv
<1> SUFFICES ASSUME Init PROVE StallInv
  OBVIOUS
<1>1. TypeOK
  BY InitTypeOK
<1>2. StallCounted /\ CursorTracked /\ StaleIsSilent
  BY DEF Init, StallCounted, CursorTracked, StaleIsSilent, ReadCap
<1> QED
  BY <1>1, <1>2 DEF StallInv

LEMMA StepStallInv == StallInv /\ [Next]_vars => StallInv'
<1> SUFFICES ASSUME StallInv, [Next]_vars PROVE StallInv'
  OBVIOUS
<1> USE DEF StallInv
<1>0. TypeOK'
  BY StepTypeOK
<1>1. CASE ResetAudioBuf
  BY <1>0, <1>1 DEF ResetAudioBuf, staticVars, StallCounted, CursorTracked, StaleIsSilent, NoResult
<1>2. ASSUME NEW n \in 0..MaxPacket, SetAudioBuf(n) PROVE StallInv'
  <2> DEFINE w == Written(n)
  <2>1. w \in 0..Size
    BY WrittenRange
  <2>2. /\ pcmPos' = (pcmPos + w) % Size
        /\ staleReads' = IF w = 0 THEN staleReads ELSE [r \in Readers |-> 0]
        /\ unread' = [r \in Readers |-> Unread(unread[r], w)]
        /\ out' = NoResult
        /\ UNCHANGED <<consecutiveReads, lastPcmPos>>
    BY <1>2 DEF SetAudioBuf, staticVars
  <2> HIDE DEF w
  <2>3. StallCounted'
    <3>1. CASE w = 0
      <4>1. pcmPos' = pcmPos
        <5>1. pcmPos \in Slots /\ pcmPos + w = pcmPos
          BY <3>1, SizeAssumption DEF TypeOK, Slots
        <5> QED
          BY <2>2, <5>1, SlotIsItself
      <4> QED
        BY <2>2, <3>1, <4>1 DEF StallCounted
    <3>2. CASE w # 0
      BY <2>2, <3>2 DEF StallCounted
    <3> QED
      BY <3>1, <3>2
  <2>4. CursorTracked'
    <3> SUFFICES ASSUME NEW r \in Readers, lastPcmPos[r] # Unset
                 PROVE  pcmPos' = (lastPcmPos[r] + unread'[r]) % Size
      BY <2>2 DEF CursorTracked
    <3>1. lastPcmPos[r] \in Slots /\ unread[r] \in 0..Size
      BY DEF TypeOK
    <3>2. pcmPos = (lastPcmPos[r] + unread[r]) % Size
      BY DEF CursorTracked
    <3> QED
      BY <2>1, <2>2, <3>1, <3>2, UnreadTracks
  <2>5. StaleIsSilent'
    BY <2>2 DEF StaleIsSilent, NoResult
  <2> QED
    BY <1>0, <2>3, <2>4, <2>5
<1>3. ASSUME NEW r \in Readers, Read(r) PROVE StallInv'
  <2>1. /\ consecutiveReads' = [consecutiveReads EXCEPT ![r] = ReadsNow(r)]
        /\ lastPcmPos' = [lastPcmPos EXCEPT ![r] = pcmPos]
        /\ out' = [NoResult EXCEPT ![r] = IF Underrun(r) THEN Silence(r) ELSE Copy(r)]
        /\ staleReads' = [staleReads EXCEPT ![r] = AtMost(staleReads[r] + 1, ReadCap + 1)]
        /\ unread' = [unread EXCEPT ![r] = 0]
        /\ pcmPos' = pcmPos /\ pcmLen' = pcmLen
    BY <1>3 DEF Read, bufVars
  <2>2. /\ staleReads[r] \in 0..5 /\ consecutiveReads[r] \in 0..4 /\ pcmPos \in Slots
    BY DEF TypeOK, ReadCap
  <2>3. /\ ReadsNow(r) \in 0..4
        /\ ReadsNow(r) >= AtMost(staleReads[r] + 1, ReadCap + 1) - 1
    <3>1. CASE staleReads[r] = 0
      BY <2>2, <3>1 DEF ReadsNow, AtMost, ReadCap
    <3>2. CASE staleReads[r] # 0
      <4>1. SeenPos(r) = pcmPos /\ consecutiveReads[r] >= staleReads[r] - 1
        BY <2>2, <3>2, SizeAssumption DEF StallCounted, SeenPos
      <4> QED
        BY <2>2, <4>1 DEF ReadsNow, AtMost, ReadCap
    <3> QED
      BY <3>1, <3>2
  <2>4. StallCounted'
    BY <2>1, <2>2, <2>3 DEF StallCounted, TypeOK
  <2>5. CursorTracked'
    <3>1. pcmPos + 0 = pcmPos /\ pcmPos % Size = pcmPos
      BY <2>2, SlotIsItself, SizeAssumption DEF Slots
    <3>2. lastPcmPos'[r] = pcmPos /\ unread'[r] = 0
      BY <2>1 DEF TypeOK
    <3>3. \A q \in Readers : q # r => lastPcmPos'[q] = lastPcmPos[q] /\ unread'[q] = unread[q]
      BY <2>1 DEF TypeOK
    <3> QED
      BY <2>1, <3>1, <3>2, <3>3 DEF CursorTracked
  <2>6. StaleIsSilent'
    <3>1. \A q \in Readers : q # r => out'[q] = <<>>
      BY <2>1 DEF NoResult
    <3>2. staleReads'[r] > ReadCap => out'[r] = Silence(r)
      BY <2>1, <2>2, <2>3 DEF AtMost, ReadCap, Underrun, NoResult, TypeOK
    <3>3. Silence(r)' = Silence(r)
      BY DEF Silence
    <3> QED
      BY <3>1, <3>2, <3>3 DEF StaleIsSilent
  <2> QED
    BY <1>0, <2>4, <2>5, <2>6
<1>4. CASE UNCHANGED vars
  BY <1>0, <1>4 DEF vars, bufVars, staticVars, StallCounted, CursorTracked, StaleIsSilent, Silence
<1> QED
  BY <1>1, <1>2, <1>3, <1>4 DEF Next

\* A capture that stalls falls silent: no reader is handed the same waveform a fifth time.
THEOREM StallFallsSilent == Spec => []StaleIsSilent
<1> QED
  BY InitStallInv, StepStallInv, PTL DEF Spec, StallInv

\* The first read after new samples returns them, however long the stall was.
THEOREM RecoveryIsHeard == Spec => FreshIsHeard
<1> DEFINE Heard ==
        \A r \in Readers :
          /\ staleReads[r] = 0 /\ staleReads'[r] = 1
          /\ unread[r] \in 1..(Size - 1) /\ lastPcmPos[r] # Unset
          /\ pcmLen >= Need[r]
          => out'[r] = Copy(r)
<1>1. StallInv /\ [Next]_vars => [Heard]_vars
  <2> SUFFICES ASSUME StallInv, Next, NEW r \in Readers,
                      staleReads[r] = 0, staleReads'[r] = 1,
                      unread[r] \in 1..(Size - 1), lastPcmPos[r] # Unset, pcmLen >= Need[r]
               PROVE  out'[r] = Copy(r)
    OBVIOUS
  <2>1. Read(r)
    <3>1. ~ResetAudioBuf
      BY DEF ResetAudioBuf
    <3>2. \A n \in 0..MaxPacket : ~SetAudioBuf(n)
      BY DEF SetAudioBuf
    <3>3. \A q \in Readers : q # r => ~Read(q)
      BY DEF Read, StallInv, TypeOK
    <3> QED
      BY <3>1, <3>2, <3>3 DEF Next
  <2>2. lastPcmPos[r] \in Slots /\ Need[r] \in 1..Size /\ pcmLen \in Int
    BY NeedAssumption, SizeAssumption DEF StallInv, TypeOK
  <2>3. pcmPos # SeenPos(r)
    BY <2>2, LessThanATurn DEF StallInv, CursorTracked, SeenPos
  <2>4. ReadsNow(r) = 0
    BY <2>3 DEF ReadsNow
  <2>5. ~Underrun(r)
    BY <2>2, <2>4, SizeAssumption DEF Underrun
  <2> QED
    BY <2>1, <2>5 DEF Read, NoResult
<1> QED
  BY <1>1, InitStallInv, StepStallInv, PTL DEF Spec, FreshIsHeard

-----------------------------------------------------------------------------
(***************************************************************************)
(* The ring implements the window of newest samples.                       *)
(***************************************************************************)
\* The k-th newest sample but one is in the slot that many places behind the cursor.
LEMMA RecentTyped ==
    ASSUME TypeOK
    PROVE  Recent \in Seq(0..Stamps) /\ Len(Recent) = pcmLen
<1>1. pcmLen \in Nat /\ pcmPos \in Int
  BY SizeAssumption DEF TypeOK, Slots
<1>2. \A i \in 1..pcmLen : ring[(pcmPos - pcmLen + i - 1) % Size] \in 0..Stamps
  <2> SUFFICES ASSUME NEW i \in 1..pcmLen
               PROVE  ring[(pcmPos - pcmLen + i - 1) % Size] \in 0..Stamps
    OBVIOUS
  <2>1. pcmPos - pcmLen + i - 1 \in Int
    BY <1>1
  <2> QED
    BY <2>1, ModRange DEF TypeOK
<1>3. Recent \in [1..pcmLen -> 0..Stamps]
  BY <1>2 DEF Recent
<1>4. Recent \in Seq(0..Stamps)
  BY <1>1, <1>3, SeqDef
<1>5. Len(Recent) \in Nat /\ 1..Len(Recent) = 1..pcmLen
  BY <1>3, <1>4, LenProperties
<1> QED
  BY <1>1, <1>4, <1>5

LEMMA RecentTypedNext == TypeOK' => (Recent \in Seq(0..Stamps) /\ Len(Recent) = pcmLen)'
<1>1. TypeOK => Recent \in Seq(0..Stamps) /\ Len(Recent) = pcmLen
  BY RecentTyped
<1> QED
  BY <1>1, PTL

LEMMA PacketTyped ==
    ASSUME TypeOK, NEW n \in 0..MaxPacket
    PROVE  /\ AW!Packet(n) \in Seq(0..Stamps) /\ Len(AW!Packet(n)) = n
           /\ \A i \in 1..n : AW!Packet(n)[i] = Stamp(i - 1)
<1>1. n \in Nat
  BY PacketAssumption
<1>2. \A i \in 1..n : Stamp(i - 1) \in 0..Stamps
  BY <1>1, ModRange, StampsAssumption DEF Stamp, TypeOK
<1>3. AW!Packet(n) = [i \in 1..n |-> Stamp(i - 1)]
  BY DEF AW!Packet, AW!Stamp, Stamp
<1>4. AW!Packet(n) \in [1..n -> 0..Stamps]
  BY <1>2, <1>3
<1>5. AW!Packet(n) \in Seq(0..Stamps)
  BY <1>1, <1>4, SeqDef
<1>6. Len(AW!Packet(n)) \in Nat /\ 1..Len(AW!Packet(n)) = 1..n
  BY <1>4, <1>5, LenProperties
<1> QED
  BY <1>1, <1>3, <1>5, <1>6

\* The newest c of a sequence are its last c elements.
LEMMA NewestTyped ==
    ASSUME NEW S, NEW s \in Seq(S), NEW c \in Nat
    PROVE  /\ AW!Newest(s, c) \in Seq(S) /\ Len(AW!Newest(s, c)) = AtMost(Len(s), c)
           /\ \A i \in 1..AtMost(Len(s), c) :
                 AW!Newest(s, c)[i] = s[Len(s) - AtMost(Len(s), c) + i]
<1>1. Len(s) \in Nat
  BY LenProperties
<1>2. CASE Len(s) <= c
  BY <1>1, <1>2 DEF AW!Newest, AtMost
<1>3. CASE Len(s) > c
  <2>1. AW!Newest(s, c) = SubSeq(s, Len(s) - c + 1, Len(s)) /\ AtMost(Len(s), c) = c
    BY <1>1, <1>3 DEF AW!Newest, AtMost
  <2>2. \A i \in (Len(s) - c + 1)..Len(s) : i \in 1..Len(s)
    BY <1>1, <1>3
  <2>3. /\ SubSeq(s, Len(s) - c + 1, Len(s)) \in Seq(S)
        /\ Len(SubSeq(s, Len(s) - c + 1, Len(s))) = c
        /\ \A i \in 1..c : SubSeq(s, Len(s) - c + 1, Len(s))[i] = s[Len(s) - c + i]
    <3>1. Len(s) - c + 1 \in Int /\ 1 <= Len(s) - c + 1 /\ Len(s) - c + 1 <= Len(s) + 1
      BY <1>1, <1>3
    <3>2. \A i \in 1..c : s[(Len(s) - c + 1) + i - 1] = s[Len(s) - c + i]
      <4>1. \A i \in 1..c : (Len(s) - c + 1) + i - 1 = Len(s) - c + i
        BY <1>1
      <4> QED
        BY <4>1
    <3> QED
      BY <1>1, <1>3, <3>1, <3>2, SubSeqProperties
  <2> QED
    BY <2>1, <2>3
<1> QED
  BY <1>1, <1>2, <1>3

LEMMA CaptureStep ==
    ASSUME TypeOK, TypeOK', MaxPacket <= Size, NEW n \in 0..MaxPacket, SetAudioBuf(n)
    PROVE  AW!Capture(n)
<1> DEFINE s == Recent \o AW!Packet(n)
<1>1. /\ n \in Nat /\ n <= Size /\ Written(n) = n /\ Start(n) = 0
      /\ pcmLen \in 0..Size /\ pcmPos \in Slots /\ Size \in Nat /\ Size > 0
  BY SizeAssumption, PacketAssumption DEF Written, Start, Limit, AtMost, TypeOK
<1>2. /\ s \in Seq(0..Stamps) /\ Len(s) = pcmLen + n
      /\ \A j \in 1..(pcmLen + n) :
            s[j] = IF j <= pcmLen THEN Recent[j] ELSE AW!Packet(n)[j - pcmLen]
  <2>1. /\ Recent \in Seq(0..Stamps) /\ Len(Recent) = pcmLen
        /\ AW!Packet(n) \in Seq(0..Stamps) /\ Len(AW!Packet(n)) = n
    BY RecentTyped, PacketTyped
  <2>2. /\ s \in Seq(0..Stamps) /\ Len(s) = Len(Recent) + Len(AW!Packet(n))
        /\ \A j \in 1..(Len(Recent) + Len(AW!Packet(n))) :
              s[j] = IF j <= Len(Recent) THEN Recent[j] ELSE AW!Packet(n)[j - Len(Recent)]
    <3> HIDE DEF Recent
    <3> QED
      BY <2>1, ConcatProperties
  <2> HIDE DEF s
  <2> QED
    BY <2>1, <2>2
<1> HIDE DEF s
<1>3. /\ pcmLen' = AtMost(pcmLen + n, Size)
      /\ pcmPos' = (pcmPos + n) % Size
      /\ ring' = [k \in Slots |-> IF (k - pcmPos) % Size < n
                                  THEN Stamp((k - pcmPos) % Size) ELSE ring[k]]
  <2>1. \A k \in Slots : 0 + ((k - pcmPos) % Size) = (k - pcmPos) % Size
    BY <1>1, ModRange DEF Slots
  <2> QED
    BY <1>1, <2>1 DEF SetAudioBuf
<1>4. /\ AW!Newest(s, Size) \in Seq(0..Stamps) /\ Len(AW!Newest(s, Size)) = pcmLen'
      /\ \A i \in 1..pcmLen' : AW!Newest(s, Size)[i] = s[pcmLen + n - pcmLen' + i]
  <2>1. /\ AW!Newest(s, Size) \in Seq(0..Stamps)
        /\ Len(AW!Newest(s, Size)) = AtMost(Len(s), Size)
        /\ \A i \in 1..AtMost(Len(s), Size) :
              AW!Newest(s, Size)[i] = s[Len(s) - AtMost(Len(s), Size) + i]
    BY <1>1, <1>2, NewestTyped
  <2>2. AtMost(Len(s), Size) = pcmLen' /\ Len(s) = pcmLen + n
    BY <1>2, <1>3
  <2>3. Len(AW!Newest(s, Size)) = pcmLen'
    BY <2>1, <2>2
  <2>4. ASSUME NEW i \in 1..pcmLen'
        PROVE  AW!Newest(s, Size)[i] = s[pcmLen + n - pcmLen' + i]
    <3>1. i \in 1..AtMost(Len(s), Size)
      BY <2>2
    <3>2. AW!Newest(s, Size)[i] = s[Len(s) - AtMost(Len(s), Size) + i]
      BY <2>1, <3>1
    <3>3. Len(s) - AtMost(Len(s), Size) + i = pcmLen + n - pcmLen' + i
      <4>1. pcmLen' \in Nat
        BY SizeAssumption DEF TypeOK
      <4> QED
        BY <1>1, <2>2, <4>1
    <3> QED
      BY <3>2, <3>3
  <2> QED
    BY <2>1, <2>3, <2>4
<1>5. Recent' \in Seq(0..Stamps) /\ Len(Recent') = pcmLen'
  BY RecentTypedNext
<1>6. ASSUME NEW i \in 1..pcmLen' PROVE Recent'[i] = AW!Newest(s, Size)[i]
  <2> DEFINE j == pcmLen + n - pcmLen' + i
  <2> DEFINE k == (pcmPos - pcmLen + j - 1) % Size
  <2>1. /\ pcmLen' \in 0..Size /\ i \in Int /\ j \in 1..(pcmLen + n)
        /\ pcmLen + n <= Size => j = i
        /\ pcmLen + n > Size => j = pcmLen + n - Size + i
    BY <1>1, <1>3 DEF AtMost
  <2>10. j = pcmLen + n - pcmLen' + i
    OBVIOUS
  <2> HIDE DEF j
  <2>2. k \in Slots
    <3>1. pcmPos - pcmLen + j - 1 \in Int
      BY <1>1, <2>1 DEF Slots
    <3> QED
      BY <3>1, ModRange
  <2>3. Recent'[i] = ring'[k]
    <3>1. Recent'[i] = ring'[(pcmPos' - pcmLen' + i - 1) % Size]
      BY DEF Recent
    <3>2. ((pcmPos + n) % Size) + (i - pcmLen' - 1) = pcmPos' - pcmLen' + i - 1
      BY <1>1, <1>3, <2>1, ModRange DEF Slots
    <3>3. (pcmPos + n) + (i - pcmLen' - 1) = pcmPos - pcmLen + j - 1
      BY <1>1, <2>1, <2>10 DEF Slots
    <3>4. (((pcmPos + n) % Size) + (i - pcmLen' - 1)) % Size
             = ((pcmPos + n) + (i - pcmLen' - 1)) % Size
      <4>1. pcmPos + n \in Int /\ i - pcmLen' - 1 \in Int
        BY <1>1, <2>1 DEF Slots
      <4> QED
        BY <4>1, ReduceFirst
    <3> QED
      BY <3>1, <3>2, <3>3, <3>4
  <2>4. (k - pcmPos) % Size = (j - pcmLen - 1) % Size
    <3>1. pcmPos - pcmLen + j - 1 \in Int /\ - pcmPos \in Int
      BY <1>1, <2>1 DEF Slots
    <3>2. ((pcmPos - pcmLen + j - 1) + (- pcmPos)) = j - pcmLen - 1
      BY <1>1, <2>1 DEF Slots
    <3>3. k + (- pcmPos) = k - pcmPos
      BY <1>1, <2>2 DEF Slots
    <3>4. (k + (- pcmPos)) % Size = ((pcmPos - pcmLen + j - 1) + (- pcmPos)) % Size
      BY <3>1, ReduceFirst
    <3> QED
      BY <3>2, <3>3, <3>4
  <2>5. ring'[k] = IF (j - pcmLen - 1) % Size < n THEN Stamp((j - pcmLen - 1) % Size)
                                                 ELSE ring[k]
    BY <1>3, <2>2, <2>4
  <2> HIDE DEF k
  <2>6. CASE j > pcmLen
    <3>1. j - pcmLen - 1 \in Slots /\ j - pcmLen - 1 < n
      BY <1>1, <2>1, <2>6 DEF Slots
    <3>2. (j - pcmLen - 1) % Size = j - pcmLen - 1
      BY <3>1, SlotIsItself
    <3>3. s[j] = AW!Packet(n)[j - pcmLen]
      <4>1. pcmLen \in Int /\ ~(j <= pcmLen)
        BY <1>1, <2>1, <2>6
      <4> QED
        BY <1>2, <2>1, <4>1
    <3>4. AW!Packet(n)[j - pcmLen] = Stamp(j - pcmLen - 1)
      <4>1. j - pcmLen \in 1..n
        BY <1>1, <2>1, <2>6
      <4> QED
        BY <4>1, PacketTyped
    <3> QED
      BY <1>4, <2>3, <2>5, <2>10, <3>1, <3>2, <3>3, <3>4
  <2>7. CASE j <= pcmLen
    <3>1. j - pcmLen - 1 + Size \in Slots /\ ~(j - pcmLen - 1 + Size < n)
      BY <1>1, <2>1, <2>7 DEF Slots
    <3>2. (j - pcmLen - 1) % Size = j - pcmLen - 1 + Size
      <4>1. j - pcmLen - 1 \in Int
        BY <1>1, <2>1
      <4> QED
        BY <3>1, <4>1, SlotIsItself, OneTurn
    <3>3. s[j] = ring[k]
      <4>1. j \in 1..pcmLen
        BY <1>1, <2>1, <2>7
      <4>2. s[j] = Recent[j]
        BY <1>2, <2>1, <2>7
      <4> QED
        BY <4>1, <4>2 DEF Recent, k
    <3> QED
      BY <1>4, <2>3, <2>5, <2>10, <3>1, <3>2, <3>3
  <2> QED
    BY <1>1, <2>1, <2>6, <2>7
<1>7. Recent' = AW!Newest(s, Size)
  BY <1>4, <1>5, <1>6, SeqEqual
<1> QED
  BY <1>7 DEF SetAudioBuf, AW!Capture, AW!NoResult, NoResult, s

LEMMA GiveStep ==
    ASSUME TypeOK, TypeOK', NEW r \in Readers, Read(r)
    PROVE  AW!Give(r)
<1> DEFINE m == AtMost(pcmLen, Need[r])
<1> DEFINE w == AW!Newest(Recent, Need[r])
<1> DEFINE z == [i \in 1..(Need[r] - m) |-> 0]
<1>1. /\ Need[r] \in 1..Size /\ pcmLen \in 0..Size /\ pcmPos \in Int
      /\ m \in 0..Need[r] /\ m <= pcmLen /\ Size \in Nat /\ Need[r] \in Nat
  <2>1. Need[r] \in 1..Size /\ pcmLen \in 0..Size /\ pcmPos \in Int /\ Size \in Nat
    BY NeedAssumption, SizeAssumption DEF TypeOK, Slots
  <2> QED
    BY <2>1 DEF AtMost
<1>2. /\ w \in Seq(0..Stamps) /\ Len(w) = m
      /\ \A i \in 1..m : w[i] = Recent[pcmLen - m + i]
  <2>1. Recent \in Seq(0..Stamps) /\ Len(Recent) = pcmLen
    BY RecentTyped
  <2>2. /\ w \in Seq(0..Stamps) /\ Len(w) = AtMost(Len(Recent), Need[r])
        /\ \A i \in 1..AtMost(Len(Recent), Need[r]) :
              w[i] = Recent[Len(Recent) - AtMost(Len(Recent), Need[r]) + i]
    <3> HIDE DEF Recent
    <3> QED
      BY <1>1, <2>1, NewestTyped
  <2> QED
    BY <2>1, <2>2
<1>3. z \in Seq(0..Stamps) /\ Len(z) = Need[r] - m /\ \A i \in 1..(Need[r] - m) : z[i] = 0
  <2>1. z \in [1..(Need[r] - m) -> 0..Stamps] /\ Need[r] - m \in Nat
    BY <1>1, StampsAssumption
  <2>2. z \in Seq(0..Stamps)
    <3> HIDE DEF z
    <3> QED
      BY <2>1, SeqDef
  <2>3. Len(z) \in Nat /\ 1..Len(z) = 1..(Need[r] - m)
    BY <2>1, <2>2, LenProperties
  <2> QED
    BY <2>1, <2>2, <2>3
<1>4. /\ AW!Window(r) = z \o w
  BY <1>2 DEF AW!Window
<1> HIDE DEF w, z
<1>5. /\ AW!Window(r) \in Seq(0..Stamps) /\ Len(AW!Window(r)) = Need[r]
      /\ \A i \in 1..Need[r] :
            AW!Window(r)[i] = IF i <= Need[r] - m THEN 0 ELSE w[i - (Need[r] - m)]
  <2> HIDE DEF m
  <2>1. /\ z \o w \in Seq(0..Stamps) /\ Len(z \o w) = Len(z) + Len(w)
        /\ \A i \in 1..(Len(z) + Len(w)) :
              (z \o w)[i] = IF i <= Len(z) THEN z[i] ELSE w[i - Len(z)]
    BY <1>2, <1>3, ConcatProperties
  <2>2. Len(z) + Len(w) = Need[r] /\ Len(z) = Need[r] - m
    BY <1>1, <1>2, <1>3
  <2>3. \A i \in 1..Need[r] : i <= Need[r] - m => i \in 1..(Need[r] - m)
    BY <1>1
  <2> QED
    BY <1>3, <1>4, <2>1, <2>2, <2>3
<1>6. /\ Copy(r) \in Seq(0..Stamps) /\ Len(Copy(r)) = Need[r]
  BY WindowType
<1>7. ASSUME NEW i \in 1..Need[r] PROVE Copy(r)[i] = AW!Window(r)[i]
  <2>1. CASE i <= Need[r] - m
    BY <1>5, <2>1 DEF Copy
  <2>2. CASE ~(i <= Need[r] - m)
    <3> DEFINE x == i - (Need[r] - m)
    <3>1. x \in 1..m /\ x \in Int /\ pcmLen - m + x \in 1..pcmLen
      BY <1>1, <2>2
    <3>2. Copy(r)[i] = ring[(pcmPos - m + Size + i - 1 - (Need[r] - m)) % Size]
      BY <2>2 DEF Copy
    <3>3. /\ pcmPos - m + Size + i - 1 - (Need[r] - m) = (pcmPos - m + x - 1) + Size
          /\ pcmPos - m + x - 1 \in Int
          /\ pcmPos - m + x - 1 = pcmPos - pcmLen + (pcmLen - m + x) - 1
      BY <1>1, <3>1
    <3>4. Recent[pcmLen - m + x] = ring[(pcmPos - pcmLen + (pcmLen - m + x) - 1) % Size]
      BY <3>1 DEF Recent
    <3>5. AW!Window(r)[i] = w[x]
      BY <1>5, <2>2
    <3>6. w[x] = Recent[pcmLen - m + x]
      BY <1>2, <3>1
    <3> QED
      BY <3>2, <3>3, <3>4, <3>5, <3>6, OneTurn
  <2> QED
    BY <2>1, <2>2
<1>8. Copy(r) = AW!Window(r)
  BY <1>5, <1>6, <1>7, SeqEqual
<1>9. UNCHANGED Recent
  BY DEF Read, bufVars, Recent
<1> QED
  BY <1>8, <1>9 DEF Read, AW!Give, AW!NoResult, NoResult, AW!Silence, Silence

\* Whatever packets no longer than the ring, resets and reads, the ring gives its readers
\* silence or the newest samples: it implements the window.
THEOREM RingIsWindow ==
    ASSUME MaxPacket <= Size
    PROVE  Spec => ImplementsWindow
<1>1. Init => AW!Init
  <2> SUFFICES ASSUME Init PROVE AW!Init
    OBVIOUS
  <2>1. Recent \in Seq(0..Stamps) /\ Len(Recent) = 0
    BY InitTypeOK, RecentTyped DEF Init
  <2>2. Recent = <<>>
    BY <2>1, EmptySeq
  <2> QED
    BY <2>2 DEF Init, AW!Init, NoResult, AW!NoResult
<1>2. ASSUME TypeOK, TypeOK', [Next]_vars PROVE [AW!Next]_(AW!awVars)
  <2>1. CASE ResetAudioBuf
    <3>1. Recent' \in Seq(0..Stamps) /\ Len(Recent') = pcmLen' /\ pcmLen' = 0
      BY <1>2, <2>1, RecentTypedNext DEF ResetAudioBuf
    <3>2. Recent' = <<>>
      BY <3>1, EmptySeq
    <3>3. AW!Forget
      BY <2>1, <3>2 DEF ResetAudioBuf, AW!Forget, AW!NoResult, NoResult
    <3> QED
      BY <3>3 DEF AW!Next
  <2>2. ASSUME NEW n \in 0..MaxPacket, SetAudioBuf(n) PROVE AW!Next
    BY <1>2, <2>2, CaptureStep DEF AW!Next
  <2>3. ASSUME NEW r \in Readers, Read(r) PROVE AW!Next
    BY <1>2, <2>3, GiveStep DEF AW!Next
  <2>4. CASE UNCHANGED vars
    BY <2>4 DEF vars, bufVars, AW!awVars, Recent
  <2> QED
    BY <1>2, <2>1, <2>2, <2>3, <2>4 DEF Next
<1> QED
  BY <1>1, <1>2, TypeCorrect, PTL DEF Spec, ImplementsWindow, AW!Spec

-----------------------------------------------------------------------------
(***************************************************************************)
(* The capture thread and the main thread that waits for it.               *)
(***************************************************************************)
Working == {"starting", "running"}

CaptureInv ==
    /\ main \in {"opening", "returning", "ended"} => capture.thread \in {"none", "ended"}
    /\ main = "joined" => capture.thread = "ended"
    /\ main \in {"waiting", "looping", "joining"} => capture.thread # "none"
    /\ capture.thread = "starting" => main = "waiting" /\ ~capture.started
    /\ capture.thread = "running" => capture.started
    /\ main \in {"looping", "joining", "joined"} => capture.started
    /\ main \in {"waiting", "looping"} => ~capture.stop /\ (capture.thread = "ended" => ~capture.ok)

\* A request that is seen is one to restart for, or came while the capture was waited for.
StopInv ==
    /\ main = "looping" => state \in {0, 1}
    /\ main \in {"joining", "joined"} /\ render => state = 2 \/ raced

LastIs(frame) == frames # <<>> /\ frames[Len(frames)] = frame

\* The failures in a row: one before a second try, and one more when that fails too.
TroubleInv ==
    /\ LastIs("again") /\ (main = "opening" \/ capture.thread \in Working) => trouble >= 1
    /\ main \in {"waiting", "looping", "joining", "joined"} /\ capture.thread = "ended" /\ ~capture.ok
           => trouble >= 1 /\ (LastIs("again") => trouble >= 2)
    /\ main = "returning" /\ result # "done" => trouble >= 1 /\ (LastIs("again") => trouble >= 2)
    /\ main = "returning" /\ result = "done" => ~render \/ trouble >= 2 \/ raced
    /\ main = "returning" /\ result = "lost" => frames # <<>>
    /\ main = "ended" => ~render \/ trouble >= 2 \/ raced \/ result = "failed"

\* A request that is seen has not led to a call yet.
Due == state = 1 \/ (state = 2 /\ main \in {"joining", "joined"})

\* A call within a call is one request, and so is each that has not led to one yet.
RequestInv ==
    /\ asks <= requests /\ Len(frames) <= requests
    /\ writing # Nothing \/ Due => Len(frames) + 1 <= requests
    /\ writing # Nothing /\ Due => Len(frames) + 2 <= requests

\* A change of device is under way, or has failed.
Changing ==
    \/ LastIs("change") /\ (main \in {"opening", "waiting"} \/ (main = "returning" /\ result = "failed"))
    \/ LastIs("again") /\ main = "opening" /\ result = "failed"

\* Requests since the capture that ran last was opened: the one that is written, and before it
\* one that is seen, or changes the device.
AskInv ==
    /\ writing # Nothing => late
    /\ late => asks >= 1
    /\ state # 0 \/ Changing => asks >= 1 /\ (writing # Nothing => asks >= 2)

\* The name that is shown is that of the device, and its own name the one asked for.
ShowInv ==
    main \in {"waiting", "looping"} /\ ~late => display = capture.device /\ device = capture.opened

\* What ran last is named by the device, or after one request by the one before it.
NameInv ==
    /\ opened # NoName /\ asks = 0 => device = opened
    /\ opened # NoName /\ asks = 1 => previous.name = opened
    /\ opened # NoName /\ asks = 1 /\ LastIs("again") /\ main = "opening" /\ result = "failed"
           => device = opened
    /\ writing # Nothing /\ asks = 1 => device = NoName
    /\ main = "waiting" /\ late /\ asks = 1 /\ capture.opened # NoName => previous.name = capture.opened

CaptureIInv == CaptureTypeOK /\ CaptureInv /\ StopInv /\ TroubleInv /\ RequestInv /\ AskInv
               /\ ShowInv /\ NameInv

-----------------------------------------------------------------------------
(***************************************************************************)
(* The calls within calls.                                                 *)
(***************************************************************************)
Frames == {"change", "again"}

LEMMA RestartFrames ==
    ASSUME CaptureTypeOK, frames' = Append(frames, "change")
    PROVE  /\ frames' \in Seq(Frames) /\ Len(frames') = Len(frames) + 1
           /\ LastIs("change")' /\ ~LastIs("again")' /\ frames' # <<>>
<1>1. frames \in Seq(Frames) /\ "change" \in Frames /\ Len(frames) \in Nat
    BY LenProperties DEF CaptureTypeOK, Frames
<1>2. /\ frames' \in Seq(Frames) /\ frames' # <<>> /\ Len(frames') = Len(frames) + 1
      /\ frames'[Len(frames) + 1] = "change"
    BY <1>1, AppendProperties
<1>. QED BY <1>2 DEF LastIs

LEMMA AgainFrames ==
    ASSUME CaptureTypeOK, frames # <<>>, frames' = [frames EXCEPT ![Last] = "again"]
    PROVE  /\ frames' \in Seq(Frames) /\ Len(frames') = Len(frames)
           /\ LastIs("again")' /\ ~LastIs("change")' /\ frames' # <<>>
<1>1. frames \in Seq(Frames) /\ "again" \in Frames
    BY DEF CaptureTypeOK, Frames
<1>2. Len(frames) \in 1 .. Len(frames)
    BY <1>1, EmptySeq, LenProperties
<1>3. /\ frames' \in Seq(Frames) /\ Len(frames') = Len(frames)
      /\ frames'[Len(frames)] = "again"
    BY <1>1, <1>2, ExceptSeq DEF Last
<1>4. frames' # <<>>
    BY <1>2, <1>3
<1>. QED BY <1>3, <1>4 DEF LastIs

LEMMA ReturnFrames ==
    ASSUME CaptureTypeOK, frames # <<>>, frames' = SubSeq(frames, 1, Last - 1)
    PROVE  frames' \in Seq(Frames) /\ Len(frames') = Len(frames) - 1
<1>1. frames \in Seq(Frames)
    BY DEF CaptureTypeOK, Frames
<1>2. Len(frames) \in Nat /\ Len(frames) # 0 /\ frames \in [1 .. Len(frames) -> Frames]
    BY <1>1, EmptySeq, LenProperties
<1>3. Last - 1 \in Int /\ \A i \in 1 .. Last - 1 : frames[i] \in Frames
    BY <1>2 DEF Last
<1>4. frames' \in Seq(Frames) /\ Len(frames') = IF 1 <= Last - 1 THEN (Last - 1) - 1 + 1 ELSE 0
    BY <1>3, SubSeqProperties
<1>. QED BY <1>2, <1>4 DEF Last

\* The request counts, one for each that is not yet a call.
LEMMA CountsAreNumbers ==
    CaptureTypeOK => Len(frames) \in Nat /\ asks \in Nat /\ requests \in Nat /\ trouble \in Nat
    BY LenProperties, CaptureBoundsAssumption DEF CaptureTypeOK, Frames

-----------------------------------------------------------------------------
(***************************************************************************)
(* Steps, by what they leave alone.                                        *)
(***************************************************************************)
CaptureMoves == CaptureStarts \/ CaptureAborts \/ CaptureDies \/ CaptureStops
Asking == \E n \in Names, t \in 0 .. 2 : Ask(n, t) /\ requestType' \in 0 .. 2
AskStep == Asking \/ Requested
OutsideStep == (\E d \in Devices : Plug(d)) \/ RenderEnds \/ UNCHANGED captureVars

LEMMA CaptureSteps ==
    ASSUME CaptureTypeOK, [CaptureNext]_captureVars PROVE CaptureMoves \/ Main \/ AskStep \/ OutsideStep
<1>1. CASE \E n \in Inputs \cup Outputs, t \in 0 .. 2 : Request(n, t)
    BY <1>1 DEF AskStep, Asking, Request, Names
<1>2. CASE RequestDefault
    <2>1. \E n \in Names : Ask(n, 2)
        BY <1>2 DEF RequestDefault, Names
    <2>2. requestType' \in 0 .. 2
        BY <1>2 DEF RequestDefault, CaptureTypeOK
    <2>. QED BY <2>1, <2>2 DEF AskStep, Asking
<1>. QED BY <1>1, <1>2 DEF CaptureNext, Capture, CaptureMoves, AskStep, OutsideStep

\* A capture's record as its thread goes on.
LEMMA CaptureFields ==
    ASSUME CaptureTypeOK
    PROVE  /\ CaptureStarts => capture' \in Captures /\ capture'.thread = "running" /\ capture'.started
                               /\ UNCHANGED <<trouble>>
           /\ CaptureAborts \/ CaptureDies =>
                 capture' \in Captures /\ capture'.thread = "ended" /\ ~capture'.ok
                 /\ capture'.started = capture.started /\ trouble' = trouble + 1
           /\ CaptureStops =>
                 capture' \in Captures /\ capture'.thread = "ended" /\ capture'.ok
                 /\ capture'.started = capture.started /\ trouble' = 0
           /\ CaptureMoves =>
                 capture'.device = capture.device /\ capture'.opened = capture.opened
                 /\ capture'.stop = capture.stop
    BY DEF CaptureMoves, CaptureStarts, CaptureAborts, CaptureDies, CaptureStops, Ended, CaptureTypeOK, Captures

LEMMA OpenFields ==
    ASSUME CaptureTypeOK, Open
    PROVE  /\ capture' \in Captures /\ capture'.thread = "starting" /\ ~capture'.stop
           /\ ~capture'.started
           /\ capture'.opened = device /\ display' = capture'.device
<1>1. PICK d \in present :
          /\ capture' = [Nowhere EXCEPT !.thread = "starting", !.device = d, !.opened = device]
          /\ display' = d
    BY DEF Open
<1>2. d \in Shown /\ device \in Names
    BY DEF CaptureTypeOK, Devices, Input, Output, Shown, Names
<1>. QED BY <1>1, <1>2 DEF Nowhere, Captures

LEMMA StopFields ==
    ASSUME CaptureTypeOK, Stop
    PROVE  /\ capture' \in Captures /\ capture'.thread = capture.thread /\ capture'.started = capture.started
           /\ capture'.ok = capture.ok
    BY DEF Stop, CaptureTypeOK, Captures

-----------------------------------------------------------------------------
\* Calls within calls are requests: there are never more of them.
LEMMA RequestKept ==
    ASSUME CaptureTypeOK, StopInv, RequestInv, [CaptureNext]_captureVars PROVE RequestInv'
<1>0. Len(frames) \in Nat /\ asks \in Nat /\ requests \in Nat
    BY CountsAreNumbers
<1>. USE DEF RequestInv, Due
<1>1. CASE CaptureMoves
    BY <1>1 DEF CaptureMoves, CaptureStarts, CaptureAborts, CaptureDies, CaptureStops, captureRest
<1>2. CASE OutsideStep
    BY <1>2 DEF OutsideStep, Plug, RenderEnds, captureVars, audioVars, historyVars
<1>3. CASE Asking
    BY <1>0, <1>3, NameAssumption DEF Asking, Ask, askRest
<1>4. CASE Requested
    BY <1>0, <1>4 DEF Requested
<1>5. CASE Open \/ OpenFails \/ Aborted \/ Join \/ Leave \/ End
    BY <1>0, <1>5 DEF Open, OpenFails, Aborted, Join, Leave, End, mainRest, historyVars
<1>6. CASE Running
    BY <1>0, <1>6 DEF Running, mainRest
<1>7. CASE Stop
    BY <1>0, <1>7 DEF Stop, mainRest, historyVars, StopInv
<1>8. CASE Restart
    <2>1. Len(frames') = Len(frames) + 1
        BY <1>8, RestartFrames DEF Restart
    <2>2. main = "joined" /\ state = 2 /\ main' = "opening"
          /\ UNCHANGED <<state, writing, requests, asks>>
        BY <1>8 DEF Restart, mainRest, historyVars
    <2>. QED BY <1>0, <2>1, <2>2
<1>9. CASE TryAgain
    <2>1. Len(frames') = Len(frames)
        BY <1>9, AgainFrames DEF TryAgain
    <2>2. main' = "opening" /\ UNCHANGED <<state, writing, requests, asks>>
        BY <1>9 DEF TryAgain, mainRest, historyVars
    <2>. QED BY <1>0, <2>1, <2>2
<1>10. CASE Return
    <2>1. Len(frames') = Len(frames) - 1
        BY <1>10, ReturnFrames DEF Return
    <2>2. UNCHANGED <<main, state, writing, requests, asks>>
        BY <1>10 DEF Return, mainRest, historyVars
    <2>. QED BY <1>0, <2>1, <2>2
<1>. QED BY CaptureSteps, <1>1, <1>2, <1>3, <1>4, <1>5, <1>6, <1>7, <1>8, <1>9, <1>10
         DEF Main, AskStep

LEMMA CaptureTypeKept ==
    ASSUME CaptureTypeOK, StopInv, RequestInv, [CaptureNext]_captureVars PROVE CaptureTypeOK'
<1>. USE CaptureBoundsAssumption
<1>0. Frames = {"change", "again"} /\ asks \in Nat /\ requests \in Nat /\ trouble \in Nat
    BY CountsAreNumbers DEF Frames
<1>1. CASE CaptureMoves
    <2>1. capture' \in Captures /\ trouble' \in Nat
        BY <1>0, <1>1, CaptureFields DEF CaptureMoves
    <2>2. UNCHANGED captureRest
        BY <1>1 DEF CaptureMoves, CaptureStarts, CaptureAborts, CaptureDies, CaptureStops
    <2>. QED BY <2>1, <2>2 DEF captureRest, CaptureTypeOK
<1>2. CASE Open
    <2>1. capture' \in Captures /\ display' \in Shown
        BY <1>2, OpenFields DEF Captures
    <2>. QED BY <1>2, <2>1 DEF Open, mainRest, CaptureTypeOK
<1>3. CASE Stop
    BY <1>3, StopFields DEF Stop, mainRest, historyVars, CaptureTypeOK
<1>4. CASE OpenFails \/ Running \/ Aborted \/ Join \/ Leave \/ End
    BY <1>0, <1>4 DEF OpenFails, Running, Aborted, Join, Leave, End, mainRest, historyVars, CaptureTypeOK, Captures
<1>5. RequestInv'
    BY RequestKept
<1>6. CASE Restart
    <2>1. frames' \in Seq(Frames) /\ Len(frames') \in Nat
        BY <1>6, RestartFrames, CountsAreNumbers DEF Restart
    <2>2. requests' = requests
        BY <1>6 DEF Restart, mainRest
    <2>3. Len(frames') <= MaxRequests
        BY <1>0, <1>5, <2>1, <2>2 DEF CaptureTypeOK, RequestInv
    <2>. QED BY <1>6, <2>1, <2>3, <1>0 DEF Restart, mainRest, historyVars, CaptureTypeOK
<1>7. CASE TryAgain
    <2>1. frames' \in Seq(Frames) /\ Len(frames') = Len(frames)
        BY <1>7, AgainFrames DEF TryAgain
    <2>2. device' \in Names /\ display' \in Shown
        BY <1>7 DEF TryAgain, CaptureTypeOK, Shown
    <2>. QED BY <1>7, <2>1, <2>2, <1>0 DEF TryAgain, mainRest, historyVars, CaptureTypeOK
<1>8. CASE Return
    <2>1. frames' \in Seq(Frames) /\ Len(frames') = Len(frames) - 1
        BY <1>8, ReturnFrames DEF Return
    <2>2. Len(frames') <= MaxRequests
        BY <2>1, CountsAreNumbers DEF CaptureTypeOK
    <2>. QED BY <1>8, <2>1, <2>2, <1>0 DEF Return, mainRest, historyVars, CaptureTypeOK
<1>9. CASE Asking
    <2>1. PICK n \in Names, t \in 0 .. 2 : Ask(n, t) /\ requestType' \in 0 .. 2
        BY <1>9 DEF Asking
    <2>2. writing' \in Writings /\ previous' \in Shown /\ device' \in Names
        BY <2>1 DEF Ask, Writings, Shown, Names, CaptureTypeOK
    <2>3. asks' <= requests' /\ requests' \in 0 .. MaxRequests
        BY <1>0, <1>5, <2>1 DEF RequestInv, Ask
    <2>4. asks' \in 0 .. MaxRequests /\ late' \in BOOLEAN
        BY <1>0, <2>1, <2>3 DEF Ask
    <2>5. UNCHANGED askRest /\ requestType' \in 0 .. 2
        BY <2>1 DEF Ask
    <2>. QED BY <2>2, <2>3, <2>4, <2>5 DEF askRest, CaptureTypeOK
<1>10. CASE Requested
    <2>1. writing \in [name : Names, type : 0 .. 2]
        BY <1>10 DEF Requested, CaptureTypeOK, Writings
    <2>2. device' \in Names /\ display' \in Shown /\ requestType' \in 0 .. 2 /\ writing' \in Writings
        BY <1>10, <2>1 DEF Requested, ShownAs, Shown, Writings
    <2>. QED BY <1>10, <2>2 DEF Requested, CaptureTypeOK
<1>11. CASE OutsideStep
    <2>1. present' \subseteq Devices /\ plugs' \in 0 .. MaxPlugs /\ render' \in BOOLEAN
        <3>1. CASE \E d \in Devices : Plug(d)
            BY <3>1 DEF Plug, CaptureTypeOK
        <3>2. CASE RenderEnds \/ UNCHANGED captureVars
            BY <3>2 DEF RenderEnds, captureVars, CaptureTypeOK
        <3>. QED BY <1>11, <3>1, <3>2 DEF OutsideStep
    <2>2. UNCHANGED <<writing, audioVars, requests, historyVars>>
        BY <1>11 DEF OutsideStep, Plug, RenderEnds, captureVars
    <2>. QED BY <2>1, <2>2 DEF audioVars, historyVars, CaptureTypeOK
<1>. QED BY CaptureSteps, <1>1, <1>2, <1>3, <1>4, <1>6, <1>7, <1>8, <1>9, <1>10, <1>11
         DEF Main, AskStep

-----------------------------------------------------------------------------
(***************************************************************************)
(* The capture and the one that waits for it.                              *)
(***************************************************************************)
\* Steps of the system and of the user are none of the capture's.
LEMMA AsideFromCapture ==
    ASSUME AskStep \/ OutsideStep PROVE UNCHANGED <<main, frames, result, capture, trouble>>
    BY DEF AskStep, Asking, Ask, askRest, Requested, OutsideStep, Plug, RenderEnds, captureVars, audioVars, historyVars

LEMMA CaptureAlone ==
    ASSUME CaptureMoves
    PROVE  /\ UNCHANGED <<main, frames, result, render, state, raced, writing, device, previous,
                          display, opened, asks, late>>
           /\ capture.thread \in Working
    BY DEF CaptureMoves, CaptureStarts, CaptureAborts, CaptureDies, CaptureStops, captureRest, Working

LEMMA CaptureInvKept ==
    ASSUME CaptureTypeOK, CaptureInv, [CaptureNext]_captureVars PROVE CaptureInv'
<1>. USE DEF CaptureInv
<1>1. CASE AskStep \/ OutsideStep
    BY <1>1, AsideFromCapture
<1>2. CASE CaptureStarts \/ CaptureAborts \/ CaptureDies
    BY <1>2, CaptureAlone, CaptureFields
       DEF CaptureMoves, CaptureStarts, CaptureAborts, CaptureDies, Working
<1>3. CASE CaptureStops
    BY <1>3, CaptureAlone, CaptureFields DEF CaptureMoves, CaptureStops
<1>4. CASE Open
    BY <1>4, OpenFields DEF Open
<1>5. CASE Stop
    BY <1>5, StopFields DEF Stop
<1>6. CASE OpenFails
    BY <1>6 DEF OpenFails
<1>7. CASE Running
    BY <1>7 DEF Running
<1>8. CASE Aborted \/ Join
    BY <1>8 DEF Aborted, Join
<1>9. CASE Leave \/ End \/ Restart \/ TryAgain \/ Return
    BY <1>9 DEF Leave, End, Restart, TryAgain, Return
<1>. QED BY CaptureSteps, <1>1, <1>2, <1>3, <1>4, <1>5, <1>6, <1>7, <1>8, <1>9 DEF Main, CaptureMoves

LEMMA StopInvKept ==
    ASSUME CaptureTypeOK, StopInv, [CaptureNext]_captureVars PROVE StopInv'
<1>. USE DEF StopInv
<1>1. CASE CaptureMoves
    BY <1>1, CaptureAlone
<1>2. CASE OutsideStep
    BY <1>2 DEF OutsideStep, Plug, RenderEnds, captureVars, audioVars, historyVars
<1>3. CASE AskStep
    <2>1. CASE Asking
        BY <2>1 DEF Asking, Ask, askRest
    <2>2. CASE Requested
        BY <2>2 DEF Requested, CaptureTypeOK
    <2>. QED BY <1>3, <2>1, <2>2 DEF AskStep
<1>4. CASE Main
    <2>1. CASE Running \/ Stop \/ Join
        BY <2>1 DEF Running, Stop, Join, mainRest, historyVars
    <2>2. CASE Open \/ OpenFails \/ Aborted \/ Leave \/ End \/ Restart \/ TryAgain \/ Return
        BY <2>2 DEF Open, OpenFails, Aborted, Leave, End, Restart, TryAgain, Return
    <2>. QED BY <1>4, <2>1, <2>2 DEF Main
<1>. QED BY CaptureSteps, <1>1, <1>2, <1>3, <1>4

LEMMA TroubleInvKept ==
    ASSUME CaptureTypeOK, CaptureInv, StopInv, TroubleInv, [CaptureNext]_captureVars PROVE TroubleInv'
<1>0. trouble \in Nat
    BY DEF CaptureTypeOK
<1>1. CASE AskStep \/ OutsideStep
    <2>1. (render' => render) /\ (raced => raced')
        <3>1. CASE AskStep
            BY <3>1 DEF AskStep, Asking, Ask, askRest, Requested, CaptureTypeOK
        <3>2. CASE OutsideStep
            BY <3>2 DEF OutsideStep, Plug, RenderEnds, captureVars, historyVars
        <3>. QED BY <1>1, <3>1, <3>2
    <2>. QED BY <1>1, <2>1, AsideFromCapture DEF TroubleInv, LastIs
<1>2. CASE CaptureStarts
    BY <1>2, CaptureAlone, CaptureFields DEF CaptureMoves, TroubleInv, LastIs, Working
<1>3. CASE CaptureAborts \/ CaptureDies
    <2>1. capture.thread \in Working /\ trouble' = trouble + 1 /\ capture'.thread = "ended"
          /\ UNCHANGED <<main, frames, result, render, raced>>
        BY <1>3, CaptureAlone, CaptureFields DEF CaptureMoves
    <2>2. main \in {"waiting", "looping", "joining"}
        BY <2>1 DEF CaptureInv, Working, CaptureTypeOK
    <2>. QED BY <1>0, <2>1, <2>2 DEF TroubleInv, LastIs, Working
<1>4. CASE CaptureStops
    <2>1. capture.thread \in Working /\ capture'.thread = "ended" /\ capture'.ok
          /\ UNCHANGED <<main, frames, result, render, raced>>
        BY <1>4, CaptureAlone, CaptureFields DEF CaptureMoves
    <2>2. main \in {"waiting", "looping", "joining"}
        BY <2>1 DEF CaptureInv, Working, CaptureTypeOK
    <2>. QED BY <2>1, <2>2 DEF TroubleInv, LastIs, Working
<1>5. CASE Open
    <2>1. main = "opening" /\ main' = "waiting" /\ UNCHANGED <<frames, result, render, raced, trouble>>
        BY <1>5 DEF Open, mainRest
    <2>2. capture'.thread = "starting"
        BY <1>5, OpenFields
    <2>. QED BY <2>1, <2>2 DEF TroubleInv, LastIs, Working
<1>6. CASE OpenFails
    <2>1. main = "opening" /\ main' = "returning" /\ result' = "failed" /\ trouble' = trouble + 1
          /\ UNCHANGED <<frames, render, raced, capture>>
        BY <1>6 DEF OpenFails, mainRest
    <2>2. capture.thread \notin Working
        BY <2>1 DEF CaptureInv, Working
    <2>. QED BY <1>0, <2>1, <2>2 DEF TroubleInv, LastIs
<1>7. CASE Running
    BY <1>7 DEF Running, mainRest, TroubleInv, LastIs
<1>8. CASE Aborted
    BY <1>8 DEF Aborted, mainRest, historyVars, TroubleInv, LastIs, CaptureInv, Working
<1>9. CASE Stop
    BY <1>9, StopFields DEF Stop, mainRest, historyVars, TroubleInv, LastIs
<1>10. CASE Join
    BY <1>10 DEF Join, mainRest, historyVars, TroubleInv, LastIs
<1>11. CASE Leave
    BY <1>11 DEF Leave, Lost, mainRest, historyVars, TroubleInv, LastIs, StopInv, CaptureInv, Working
<1>12. CASE Restart
    <2>1. ~LastIs("again")' /\ main' = "opening"
        BY <1>12, RestartFrames DEF Restart
    <2>. QED BY <2>1 DEF TroubleInv
<1>13. CASE TryAgain
    <2>1. main = "returning" /\ result # "done" /\ main' = "opening" /\ trouble' = trouble
        BY <1>13 DEF TryAgain, historyVars
    <2>. QED BY <2>1 DEF TroubleInv
<1>14. CASE Return
    <2>1. main = "returning" /\ main' = "returning" /\ result' = "done"
          /\ UNCHANGED <<capture, trouble, render, raced>>
        BY <1>14 DEF Return, mainRest, historyVars
    <2>2. capture.thread \notin Working
        BY <2>1 DEF CaptureInv, Working
    <2>3. ~render \/ trouble >= 2 \/ raced
        BY <1>14 DEF Return, TroubleInv, LastIs, Last
    <2>. QED BY <2>1, <2>2, <2>3 DEF TroubleInv
<1>15. CASE End
    <2>1. main = "returning" /\ frames = <<>> /\ main' = "ended"
          /\ UNCHANGED <<capture, frames, result, render, raced, trouble>>
        BY <1>15 DEF End, mainRest, historyVars
    <2>2. capture.thread \notin Working
        BY <2>1 DEF CaptureInv, Working
    <2>3. result \in {"failed", "done"}
        BY <2>1 DEF TroubleInv, CaptureTypeOK
    <2>. QED BY <2>1, <2>2, <2>3 DEF TroubleInv
<1>. QED BY CaptureSteps, <1>1, <1>2, <1>3, <1>4, <1>5, <1>6, <1>7, <1>8, <1>9, <1>10, <1>11, <1>12,
            <1>13, <1>14, <1>15 DEF CaptureMoves, Main

-----------------------------------------------------------------------------
(***************************************************************************)
(* The names.                                                              *)
(***************************************************************************)
LEMMA AskInvKept ==
    ASSUME CaptureTypeOK, StopInv, AskInv, [CaptureNext]_captureVars PROVE AskInv'
<1>0. asks \in Nat
    BY CountsAreNumbers
<1>. USE DEF AskInv, Changing
<1>1. CASE CaptureMoves
    BY <1>1, CaptureAlone DEF LastIs
<1>2. CASE OutsideStep
    BY <1>2 DEF OutsideStep, Plug, RenderEnds, captureVars, audioVars, historyVars, LastIs
<1>3. CASE Asking
    BY <1>0, <1>3 DEF Asking, Ask, askRest, LastIs
<1>4. CASE Requested
    BY <1>0, <1>4 DEF Requested, LastIs
<1>5. CASE Open
    BY <1>5 DEF Open, mainRest, LastIs
<1>6. CASE OpenFails \/ Aborted \/ Stop \/ Join \/ Leave \/ End
    BY <1>6 DEF OpenFails, Aborted, Stop, Join, Leave, End, mainRest, historyVars, LastIs, StopInv
<1>7. CASE Running
    BY <1>0, <1>7 DEF Running, mainRest
<1>8. CASE Restart
    BY <1>8 DEF Restart, mainRest, historyVars
<1>9. CASE TryAgain
    <2>1. ~LastIs("change")'
        BY <1>9, AgainFrames DEF TryAgain
    <2>2. UNCHANGED <<state, asks, late, writing, result>>
        BY <1>9 DEF TryAgain, mainRest, historyVars
    <2>3. result = "failed" => Changing
        BY <1>9 DEF TryAgain, LastIs, Last
    <2>. QED BY <2>1, <2>2, <2>3
<1>10. CASE Return
    BY <1>10 DEF Return, mainRest, historyVars
<1>. QED BY CaptureSteps, <1>1, <1>2, <1>3, <1>4, <1>5, <1>6, <1>7, <1>8, <1>9, <1>10
         DEF AskStep, Main

LEMMA ShowInvKept ==
    ASSUME CaptureTypeOK, AskInv, ShowInv, [CaptureNext]_captureVars PROVE ShowInv'
<1>. USE DEF ShowInv
<1>1. CASE CaptureMoves
    BY <1>1, CaptureAlone, CaptureFields
<1>2. CASE OutsideStep
    BY <1>2 DEF OutsideStep, Plug, RenderEnds, captureVars, audioVars, historyVars
<1>3. CASE AskStep
    BY <1>3 DEF AskStep, Asking, Ask, askRest, Requested, AskInv
<1>4. CASE Open
    BY <1>4, OpenFields DEF Open
<1>5. CASE Running
    BY <1>5 DEF Running
<1>6. CASE OpenFails \/ Aborted \/ Stop \/ Join \/ Leave \/ End \/ Restart \/ TryAgain \/ Return
    BY <1>6 DEF OpenFails, Aborted, Stop, Join, Leave, End, Restart, TryAgain, Return
<1>. QED BY CaptureSteps, <1>1, <1>2, <1>3, <1>4, <1>5, <1>6 DEF Main

LEMMA NameInvKept ==
    ASSUME CaptureTypeOK, AskInv, ShowInv, NameInv, [CaptureNext]_captureVars PROVE NameInv'
<1>0. asks \in Nat
    BY CountsAreNumbers
<1>. USE DEF NameInv
<1>1. CASE CaptureMoves
    BY <1>1, CaptureAlone, CaptureFields DEF LastIs
<1>2. CASE OutsideStep
    BY <1>2 DEF OutsideStep, Plug, RenderEnds, captureVars, audioVars, historyVars, LastIs
<1>3. CASE Asking
    <2>1. /\ asks' = asks + 1 /\ previous'.name = device /\ device' = NoName
          /\ UNCHANGED <<opened, main, capture, frames, result>>
        BY <1>3 DEF Asking, Ask, askRest
    <2>2. asks = 0 => ~late
        BY <1>0 DEF AskInv
    <2>3. LastIs("again")' = LastIs("again")
        BY <2>1 DEF LastIs
    <2>4. LastIs("again") /\ main = "opening" /\ result = "failed" => asks >= 1
        BY DEF AskInv, Changing
    <2>. QED BY <1>0, <2>1, <2>2, <2>3, <2>4 DEF ShowInv
<1>4. CASE Requested
    BY <1>0, <1>4 DEF Requested, AskInv, LastIs
<1>5. CASE Open
    BY <1>5, OpenFields DEF Open, mainRest
<1>6. CASE Running
    <2>1. CASE late
        BY <1>0, <1>6, <2>1 DEF Running, mainRest, AskInv
    <2>2. CASE ~late
        BY <1>0, <1>6, <2>2 DEF Running, mainRest, AskInv, ShowInv
    <2>. QED BY <2>1, <2>2
<1>7. CASE TryAgain
    <2>1. CASE result = "failed"
        <3>1. Changing
            BY <1>7, <2>1 DEF TryAgain, Changing, LastIs, Last
        <3>2. asks >= 1 /\ (writing # Nothing => asks >= 2)
            BY <3>1 DEF AskInv
        <3>. QED BY <1>0, <1>7, <3>2 DEF TryAgain, mainRest, historyVars
    <2>2. CASE result # "failed"
        BY <1>7, <2>2 DEF TryAgain, mainRest, historyVars
    <2>. QED BY <2>1, <2>2
<1>8. CASE OpenFails \/ Aborted \/ Stop \/ Join \/ Leave \/ End \/ Return
    BY <1>8 DEF OpenFails, Aborted, Stop, Join, Leave, End, Return, mainRest, historyVars
<1>9. CASE Restart
    <2>1. ~LastIs("again")'
        BY <1>9, RestartFrames DEF Restart
    <2>. QED BY <1>9, <2>1 DEF Restart, mainRest, historyVars
<1>. QED BY CaptureSteps, <1>1, <1>2, <1>3, <1>4, <1>5, <1>6, <1>7, <1>8, <1>9 DEF AskStep, Main

-----------------------------------------------------------------------------
(***************************************************************************)
(* The theorems about the capture.                                         *)
(***************************************************************************)
LEMMA CaptureInitially == CaptureInit => CaptureIInv
<1>. SUFFICES ASSUME CaptureInit PROVE CaptureIInv
    OBVIOUS
<1>. USE DEF CaptureInit
<1>1. Nowhere \in Captures /\ Output(NoName) \in Shown /\ Nothing \in Writings
    BY DEF Nowhere, Captures, Names, Output, Shown, Writings
<1>2. frames \in Seq(Frames) /\ Len(frames) = 0
    BY EmptySeq
<1>3. CaptureTypeOK
    <2>1. asks \in 0 .. MaxRequests /\ requests \in 0 .. MaxRequests /\ plugs \in 0 .. MaxPlugs
          /\ Len(frames) <= MaxRequests
        BY <1>2, CaptureBoundsAssumption
    <2>2. frames \in Seq({"change", "again"})
        BY <1>2 DEF Frames
    <2>3. device \in Names /\ NoName \in Names
        BY DEF Names
    <2>4. /\ present \subseteq Devices /\ render \in BOOLEAN /\ state \in 0 .. 2
          /\ main = "opening" /\ result = "done" /\ capture \in Captures
          /\ writing \in Writings /\ previous \in Shown /\ display \in Shown /\ opened \in Names
          /\ worked \in Shown /\ requestType \in 0 .. 2
        BY <1>1, <2>3
    <2>5. late \in BOOLEAN /\ trouble \in Nat /\ raced \in BOOLEAN
        OBVIOUS
    <2>. QED BY <2>1, <2>2, <2>3, <2>4, <2>5 DEF CaptureTypeOK
<1>4. capture.thread = "none" /\ ~LastIs("change") /\ ~LastIs("again")
    BY DEF Nowhere, LastIs
<1>5. CaptureInv /\ StopInv /\ TroubleInv /\ ShowInv
    BY <1>4 DEF CaptureInv, StopInv, TroubleInv, ShowInv, Working
<1>6. RequestInv /\ AskInv /\ NameInv
    BY <1>2, <1>4 DEF RequestInv, Due, AskInv, Changing, NameInv
<1>. QED BY <1>3, <1>5, <1>6 DEF CaptureIInv

LEMMA CaptureInductive == CaptureIInv /\ [CaptureNext]_captureVars => CaptureIInv'
    BY CaptureTypeKept, CaptureInvKept, StopInvKept, TroubleInvKept, RequestKept, AskInvKept,
       ShowInvKept, NameInvKept DEF CaptureIInv

\* The invariant the theorems about the capture rest on.
THEOREM CaptureInvariants == CaptureSpec => []CaptureIInv
    BY CaptureInitially, CaptureInductive, PTL DEF CaptureSpec

\* A change of device does not end the visualizer unless two captures failed in a row, a request
\* raced with a restart, or no device works at the start (StartAudioCaptureThread).
THEOREM StaysUpAlways == CaptureSpec => []StaysUp
<1>1. CaptureIInv => StaysUp
    BY DEF CaptureIInv, TroubleInv, StaysUp
<1>. QED BY <1>1, CaptureInvariants, PTL

\* What is captured is what the display says, opened by the name that is asked for.
THEOREM ShowsWhatItUses == CaptureSpec => []UsesWhatItShows
<1>1. CaptureIInv => UsesWhatItShows
    BY DEF CaptureIInv, ShowInv, UsesWhatItShows
<1>. QED BY <1>1, CaptureInvariants, PTL

\* What a second call opens, when what ran is found by its name.
LEMMA FoundAgain ==
    ASSUME CaptureTypeOK, NameInv, Open, Reverting, StillFound PROVE capture'.device = worked
<1>1. device = opened /\ worked \in Devices
    BY DEF NameInv, Reverting, StillFound, Open, LastIs, Last, CaptureTypeOK
<1>2. worked = Input(opened) \/ worked = Output(opened)
    BY <1>1 DEF Devices, StillFound, Input, Output
<1>3. PICK d \in present : Found(d) /\ capture' = [Nowhere EXCEPT !.thread = "starting", !.device = d, !.opened = device]
    BY DEF Open
<1>4. capture'.device = d
    BY <1>3 DEF Nowhere
<1>5. CASE worked = Input(opened)
    <2>1. AsInput
        BY <1>1, <1>5 DEF AsInput, StillFound, Input
    <2>. QED BY <1>1, <1>3, <1>4, <1>5, <2>1 DEF Found
<1>6. CASE worked = Output(opened)
    <2>1. ~AsInput /\ AsOutput
        BY <1>1, <1>6 DEF AsInput, AsOutput, StillFound, Output
    <2>. QED BY <1>1, <1>3, <1>4, <1>6, <2>1 DEF Found
<1>. QED BY <1>2, <1>5, <1>6

\* A device that fails is given up for the name that ran before it, and what ran is captured
\* again, unless it is gone or the request that failed asked for the other direction, which is
\* not undone (the second call in StartAudioCaptureThread, and CPrefs).
THEOREM GoesBack == CaptureSpec => RevertsToWorked
<1>1. CaptureIInv /\ [CaptureNext]_captureVars
        => [/\ TryAgain /\ result = "failed" /\ asks = 1 /\ opened # NoName => device' = opened
            /\ Open /\ Reverting /\ StillFound => capture'.device = worked]_captureVars
    BY FoundAgain DEF CaptureIInv, NameInv, TryAgain
<1>. QED BY <1>1, CaptureInvariants, PTL DEF CaptureSpec, RevertsToWorked
=============================================================================
