--------------------------- MODULE TcpServer_proof --------------------------
(***************************************************************************)
(* Proofs about TcpServer: the typing of its records, the bookkeeping of   *)
(* sockets, and what of the promises of AUTH holds whatever records it     *)
(* erases.                                                                 *)
(***************************************************************************)
EXTENDS TcpServer, SequenceTheorems, TLAPS

AuthAtHand == pc \in {"erase", "answer"}

(***************************************************************************)
(* The loops of Poll.  The reference of ProcessFrames names a slot, or one *)
(* that was destroyed; the list is never empty then.                       *)
(***************************************************************************)
LoopInv ==
    /\ pc \in {"frames", "erase", "answer"} => list # <<>>
    /\ pc = "erase" => at \in Slots \/ erase < Len(list)
    /\ pc # "erase" => erase = 0
    /\ AuthAtHand => msg \in Messages

(***************************************************************************)
(* A connection has at most one record, none before it is accepted, and an *)
(* open socket is in a record.                                             *)
(***************************************************************************)
ListInv ==
    /\ \A i, j \in Slots : list[i] = list[j] => i = j
    /\ \A s \in Listed : link[s] \notin {"none", "waiting"}
    /\ \A s \in Conns : s \notin Listed => rec[s] = Fresh
    /\ \A s \in Conns : link[s] \in Held => s \in Listed /\ rec[s].valid

(***************************************************************************)
(* What an AUTH leaves behind.                                             *)
(***************************************************************************)
MarksInv ==
    /\ \A s \in Conns : rec[s].auth \/ rec[s].served => rec[s].proved \/ rec[s].misled
    /\ AuthAtHand /\ msg.kind = "auth" /\ msg.from \in Listed => rec[msg.from].proved

ValidInv == \A s \in Listed : rec[s].valid => link[s] \in Held \/ rec[s].adrift

DeviceInv ==
    /\ OnePerDevice
    /\ AuthAtHand => \A s \in Listed : rec[s].valid /\ rec[s].dev = msg.dev => s = msg.from

AuthInv == MarksInv /\ AnswersHold /\ ValidInv /\ DeviceInv

IInv == TypeOK /\ LoopInv /\ ListInv /\ AuthInv

-----------------------------------------------------------------------------
(***************************************************************************)
(* Erasing a record removes just its connection from the list.             *)
(***************************************************************************)
LEMMA Erased ==
  ASSUME list \in Seq(Conns), NEW i \in Slots, list' = Without(i),
         \A j, k \in Slots : list[j] = list[k] => j = k
  PROVE  /\ list' \in Seq(Conns)
         /\ Len(list') = Len(list) - 1
         /\ Listed' = Listed \ {list[i]}
         /\ \A j, k \in Slots' : list'[j] = list'[k] => j = k
<1> DEFINE n == Len(list) - 1
<1>1. n \in Nat /\ list \in [1 .. n + 1 -> Conns]
  BY DEF Slots
<1>2. list' = [k \in 1 .. n |-> IF k < i THEN list[k] ELSE list[k + 1]]
  BY DEF Without
<1>3. \A k \in 1 .. n : list'[k] = IF k < i THEN list[k] ELSE list[k + 1]
  BY <1>2
<1>4. list' \in [1 .. n -> Conns]
  BY <1>1, <1>2, <1>3 DEF Slots
<1>5. list' \in Seq(Conns) /\ Len(list') = n
  BY <1>1, <1>2, <1>4, IsASeq, LenProperties
<1>6. Listed' \subseteq Listed \ {list[i]}
  <2> SUFFICES ASSUME NEW k \in 1 .. n PROVE list'[k] \in Listed \ {list[i]}
    BY <1>5 DEF Listed, Slots
  <2>1. CASE k < i
    BY <1>1, <1>3, <2>1 DEF Listed, Slots
  <2>2. CASE ~(k < i)
    BY <1>1, <1>3, <2>2 DEF Listed, Slots
  <2> QED BY <2>1, <2>2
<1>7. Listed \ {list[i]} \subseteq Listed'
  <2> SUFFICES ASSUME NEW k \in Slots, k # i PROVE list[k] \in Listed'
    BY DEF Listed
  <2>1. CASE k < i
    <3>1. k \in 1 .. n /\ list'[k] = list[k]
      BY <1>1, <1>3, <2>1 DEF Slots
    <3> QED BY <1>5, <3>1 DEF Listed, Slots
  <2>2. CASE k > i
    <3>1. k - 1 \in 1 .. n /\ list'[k - 1] = list[k]
      BY <1>1, <1>3, <2>2 DEF Slots
    <3> QED BY <1>5, <3>1 DEF Listed, Slots
  <2> QED BY <2>1, <2>2 DEF Slots
<1>8. \A j, k \in 1 .. n : list'[j] = list'[k] => j = k
  BY <1>1, <1>3 DEF Slots
<1> QED BY <1>5, <1>6, <1>7, <1>8 DEF Slots

-----------------------------------------------------------------------------
LEMMA InitIInv == Init => IInv
<1> SUFFICES ASSUME Init PROVE IInv
  OBVIOUS
<1>1. Len(list) = 0 /\ list \in Seq(Conns) /\ Slots = {} /\ Listed = {}
  BY DEF Init, Slots, Listed
<1>2. Fresh \in Records
  BY BoundsAssumption DEF Fresh, Records, Frames
<1>3. TypeOK
  <2>1. rec \in [Conns -> Records] /\ link \in [Conns -> Links]
    BY <1>2 DEF Init, Links
  <2>2. msg \in Messages \cup {NoMsg}
    BY DEF Init
  <2>3. running \in BOOLEAN
    BY DEF Init
  <2>4. Len(list) <= MaxClients /\ at \in Nat \ {0} /\ erase \in 0 .. Len(list)
    BY <1>1, BoundsAssumption DEF Init
  <2>5. list \in Seq(Conns) /\ pc \in {"idle", "read", "frames", "erase", "answer", "timeouts"}
    BY <1>1 DEF Init
  <2> QED BY <2>1, <2>2, <2>3, <2>4, <2>5 DEF TypeOK
<1>4. LoopInv
  BY DEF Init, LoopInv, AuthAtHand
<1>5. ListInv
  BY <1>1 DEF Init, ListInv, Held
<1>6. AuthInv
  BY <1>1 DEF Init, AuthInv, MarksInv, AnswersHold, ValidInv, DeviceInv, OnePerDevice, AuthAtHand, Fresh
<1> QED BY <1>3, <1>4, <1>5, <1>6 DEF IInv

(***************************************************************************)
(* Steps that change nothing the invariant relates but where Poll stands,  *)
(* or post a command for a connection that may send it.                    *)
(***************************************************************************)
Unmarked(s) ==
    /\ rec'[s].valid = rec[s].valid /\ rec'[s].auth = rec[s].auth /\ rec'[s].dev = rec[s].dev
    /\ rec'[s].proved = rec[s].proved /\ rec'[s].told = rec[s].told
    /\ rec'[s].served => rec[s].served \/ rec[s].auth
    /\ rec'[s].adrift = rec[s].adrift /\ rec'[s].misled = rec[s].misled
    /\ rec'[s].doubled = rec[s].doubled

LEMMA QuietKeeps ==
  ASSUME IInv, list' = list,
         \A s \in Conns : Unmarked(s),
         \A s \in Conns : s \notin Listed => rec'[s] = rec[s],
         \A s \in Conns : link'[s] \in Held <=> link[s] \in Held,
         \A s \in Listed : link'[s] \notin {"none", "waiting"},
         AuthAtHand' => AuthAtHand /\ msg' = msg
  PROVE  ListInv' /\ AuthInv'
<1> USE DEF IInv
<1>1. Slots' = Slots /\ Listed' = Listed /\ Listed \subseteq Conns
  BY DEF Slots, Listed, TypeOK
<1>2. ListInv'
  BY <1>1 DEF ListInv, Unmarked
<1>3. AuthInv'
  <2>0. MarksInv /\ AnswersHold /\ ValidInv /\ DeviceInv
    BY DEF AuthInv
  <2>1. MarksInv'
    <3>1. \A s \in Conns : rec'[s].auth \/ rec'[s].served => rec'[s].proved \/ rec'[s].misled
      BY <2>0 DEF MarksInv, Unmarked
    <3>2. AuthAtHand' /\ msg'.kind = "auth" /\ msg'.from \in Listed => rec'[msg'.from].proved
      BY <1>1, <2>0 DEF MarksInv, Unmarked
    <3> QED BY <1>1, <3>1, <3>2 DEF MarksInv
  <2>2. AnswersHold'
    BY <1>1, <2>0 DEF AnswersHold, Unmarked
  <2>3. ValidInv'
    BY <1>1, <2>0 DEF ValidInv, Unmarked
  <2>4. DeviceInv'
    <3>1. OnePerDevice'
      BY <1>1, <2>0 DEF DeviceInv, OnePerDevice, Unmarked
    <3>2. AuthAtHand' => \A s \in Listed : rec'[s].valid /\ rec'[s].dev = msg'.dev => s = msg'.from
      BY <1>1, <2>0 DEF DeviceInv, Unmarked
    <3> QED BY <1>1, <3>1, <3>2 DEF DeviceInv
  <2> QED BY <2>1, <2>2, <2>3, <2>4 DEF AuthInv
<1> QED BY <1>2, <1>3

LEMMA ClientListed == IInv /\ list # <<>> => Client \in Listed /\ Client \in Conns
<1> SUFFICES ASSUME IInv, list # <<>> PROVE Client \in Listed /\ Client \in Conns
  OBVIOUS
<1>1. list \in Seq(Conns) /\ Len(list) \in Slots
  BY DEF IInv, TypeOK, Slots
<1> QED BY <1>1 DEF Client, Alive, Listed, Slots

LEMMA NetworkKeeps == ASSUME IInv, NEW s \in Conns, Connect(s) \/ Leave(s) PROVE IInv'
<1>1. TypeOK'
  BY DEF IInv, TypeOK, Connect, Leave, Links
<1>2. LoopInv'
  BY DEF IInv, LoopInv, AuthAtHand, Connect, Leave, Slots
<1>3. ListInv' /\ AuthInv'
  <2>1. \A t \in Conns : link'[t] \in Held <=> link[t] \in Held
    BY DEF Connect, Leave, Held, IInv, TypeOK
  <2>2. \A t \in Listed : link'[t] \notin {"none", "waiting"}
    <3>1. Listed \subseteq Conns
      BY DEF Listed, Slots, IInv, TypeOK
    <3> QED BY <3>1 DEF Connect, Leave, IInv, TypeOK, ListInv
  <2> QED BY <2>1, <2>2, QuietKeeps DEF Connect, Leave, AuthAtHand, Unmarked
<1> QED BY <1>1, <1>2, <1>3 DEF IInv

LEMMA MinuteKeeps == ASSUME IInv, NEW s \in Conns, MinutePasses(s) PROVE IInv'
<1>0. rec \in [Conns -> Records] /\ rec' = [rec EXCEPT ![s].idle = TRUE]
  BY DEF IInv, TypeOK, MinutePasses
<1>1. TypeOK'
  <2>1. rec' \in [Conns -> Records]
    BY <1>0 DEF Records
  <2> QED BY <2>1 DEF IInv, TypeOK, MinutePasses
<1>2. LoopInv'
  BY DEF IInv, LoopInv, AuthAtHand, MinutePasses, Slots
<1>3. ListInv' /\ AuthInv'
  <2>1. \A t \in Conns : Unmarked(t)
    BY <1>0 DEF Records, Unmarked
  <2>2. \A t \in Conns : t \notin Listed => rec'[t] = rec[t]
    BY <1>0 DEF MinutePasses
  <2>3. \A t \in Listed : link'[t] \notin {"none", "waiting"}
    BY DEF MinutePasses, IInv, ListInv
  <2> QED BY <2>1, <2>2, <2>3, QuietKeeps DEF MinutePasses, AuthAtHand
<1> QED BY <1>1, <1>2, <1>3 DEF IInv

LEMMA StartKeeps == ASSUME IInv, Start PROVE IInv'
<1>1. TypeOK'
  BY DEF IInv, TypeOK, Start
<1>2. LoopInv'
  BY DEF IInv, LoopInv, AuthAtHand, Start, Slots
<1>3. \A t \in Listed : link'[t] \notin {"none", "waiting"}
  BY DEF Start, IInv, ListInv
<1>4. ListInv' /\ AuthInv'
  BY <1>3, QuietKeeps DEF Start, AuthAtHand, Unmarked
<1> QED BY <1>1, <1>2, <1>4 DEF IInv

(***************************************************************************)
(* The steps of Poll that only move on.                                    *)
(***************************************************************************)
LEMMA WalkKeeps ==
  ASSUME IInv, \/ ReadDone \/ PollDone \/ FramesDone \/ EraseDone \/ AnswerMalformed
               \/ (pc = "read" /\ WouldBlock(list[at])
                   /\ UNCHANGED <<running, erase, msg>>)
  PROVE  IInv'
<1> USE DEF ReadDone, PollDone, FramesDone, EraseDone, AnswerMalformed, Answer, WouldBlock
<1>1. UNCHANGED <<running, list, rec, link, erase>>
  OBVIOUS
<1>2. /\ at' \in Nat \ {0}
      /\ pc' \in {"idle", "read", "frames", "answer", "timeouts"}
      /\ msg' \in Messages \cup {NoMsg}
  BY DEF IInv, TypeOK
<1>3. TypeOK'
  BY <1>1, <1>2 DEF IInv, TypeOK
<1>4. /\ pc' = "answer" => pc = "erase" /\ erase = 0 /\ msg' = msg
      /\ pc' = "frames" => pc = "answer"
  BY DEF IInv, LoopInv
<1>5. LoopInv'
  <2>1. Slots' = Slots
    BY <1>1 DEF Slots
  <2>2. erase' = 0
    BY <1>1 DEF IInv, LoopInv
  <2> QED BY <1>1, <1>2, <1>4, <2>1, <2>2 DEF IInv, LoopInv, AuthAtHand
<1>6. \A t \in Listed : link'[t] \notin {"none", "waiting"}
  BY <1>1 DEF IInv, ListInv
<1>7. AuthAtHand' => AuthAtHand /\ msg' = msg
  BY <1>2, <1>4 DEF AuthAtHand
<1>8. ListInv' /\ AuthInv'
  BY <1>1, <1>6, <1>7, QuietKeeps DEF Unmarked
<1> QED BY <1>3, <1>5, <1>8 DEF IInv

LEMMA ReceivesKeeps ==
  ASSUME IInv, pc = "read", at \in Slots, Receives(list[at]),
         UNCHANGED <<running, erase, msg>>
  PROVE  IInv'
<1> DEFINE s == list[at]
<1>0. s \in Listed /\ s \in Conns /\ rec \in [Conns -> Records] /\ list # <<>>
  BY DEF IInv, TypeOK, Listed, Slots
<1>1. PICK n \in 0 .. MaxFrames[s] - rec[s].sent : \E fs \in [1 .. n -> Sends[s]] :
         rec' = [rec EXCEPT ![s].buffer = @ \o fs, ![s].sent = @ + n, ![s].idle = FALSE]
  BY DEF Receives
<1>2. PICK fs \in [1 .. n -> Sends[s]] :
         rec' = [rec EXCEPT ![s].buffer = @ \o fs, ![s].sent = @ + n, ![s].idle = FALSE]
  BY <1>1
<1>3. rec' = [rec EXCEPT ![s] = [rec[s] EXCEPT !.buffer = @ \o fs, !.sent = @ + n, !.idle = FALSE]]
  BY <1>0, <1>2
<1>4. [rec[s] EXCEPT !.buffer = @ \o fs, !.sent = @ + n, !.idle = FALSE] \in Records
  <2>1. rec[s] \in Records /\ n \in Nat
    BY <1>0, BoundsAssumption DEF Records
  <2>2. fs \in Seq(Frames)
    <3>1. fs \in [1 .. n -> Frames]
      BY <1>0, SendsAssumption
    <3> QED BY <2>1, <3>1, IsASeq
  <2>3. rec[s].buffer \o fs \in Seq(Frames)
    BY <2>1, <2>2, ConcatProperties DEF Records
  <2>4. rec[s].sent + n \in Nat
    BY <2>1 DEF Records
  <2> QED BY <2>1, <2>3, <2>4 DEF Records
<1>5. rec' \in [Conns -> Records]
  BY <1>0, <1>3, <1>4
<1>6. TypeOK'
  BY <1>5 DEF IInv, TypeOK, Receives
<1>7. LoopInv'
  BY <1>0 DEF IInv, LoopInv, AuthAtHand, Receives, Slots
<1>8. \A t \in Conns : Unmarked(t)
  <2>1. \A t \in Conns : t # s => rec'[t] = rec[t]
    BY <1>0, <1>3
  <2>2. rec'[s] = [rec[s] EXCEPT !.buffer = @ \o fs, !.sent = @ + n, !.idle = FALSE]
    BY <1>0, <1>3
  <2>3. rec[s] \in Records
    BY <1>0 DEF IInv, TypeOK
  <2>4. Unmarked(s)
    <3> HIDE DEF s
    <3> QED BY <2>2, <2>3 DEF Records, Unmarked
  <2>5. ASSUME NEW t \in Conns, t # s PROVE Unmarked(t)
    BY <2>1, <2>5 DEF Unmarked
  <2> HIDE DEF s
  <2> QED BY <2>4, <2>5
<1>9. \A t \in Conns : t \notin Listed => rec'[t] = rec[t]
  BY <1>0, <1>3
<1>10. \A t \in Listed : link'[t] \notin {"none", "waiting"}
  BY DEF Receives, IInv, ListInv
<1>11. ListInv' /\ AuthInv'
  BY <1>8, <1>9, <1>10, QuietKeeps DEF Receives, AuthAtHand
<1> QED BY <1>6, <1>7, <1>11 DEF IInv

LEMMA CommandKeeps == ASSUME IInv, Command PROVE IInv'
<1> DEFINE s == Client
<1>0. s \in Listed /\ s \in Conns /\ rec \in [Conns -> Records] /\ list # <<>>
  BY ClientListed DEF Command, Frame, IInv, LoopInv, TypeOK
<1> DEFINE after == [rec[s] EXCEPT !.buffer = Tail(@), !.served = @ \/ Serves(s)]
<1>1. rec' = [rec EXCEPT ![s] = after]
  BY <1>0 DEF Command
<1>2. after \in Records
  <2>1. rec[s] \in Records /\ rec[s].buffer \in Seq(Frames) /\ rec[s].buffer # <<>>
    BY <1>0 DEF Records, Command, Frame, More
  <2>2. Tail(rec[s].buffer) \in Seq(Frames)
    BY <2>1, HeadTailProperties
  <2>3. (rec[s].served \/ Serves(s)) \in BOOLEAN
    BY <2>1 DEF Records, Serves
  <2> QED BY <2>1, <2>2, <2>3 DEF Records
<1>3. rec' \in [Conns -> Records]
  BY <1>0, <1>1, <1>2
<1>5. TypeOK'
  BY <1>3 DEF IInv, TypeOK, Command
<1>6. LoopInv'
  BY <1>0 DEF IInv, LoopInv, AuthAtHand, Command, Frame, Slots
<1>7. \A t \in Conns : Unmarked(t)
  <2>1. \A t \in Conns : t # s => rec'[t] = rec[t]
    BY <1>0, <1>1
  <2>2. rec'[s] = after /\ rec[s] \in Records
    BY <1>0, <1>1
  <2>3. after.served => rec[s].served \/ rec[s].auth
    BY <2>2 DEF Records, Serves
  <2>4. /\ after.valid = rec[s].valid /\ after.auth = rec[s].auth /\ after.dev = rec[s].dev
        /\ after.proved = rec[s].proved /\ after.told = rec[s].told
        /\ after.adrift = rec[s].adrift /\ after.misled = rec[s].misled
        /\ after.doubled = rec[s].doubled
    BY <2>2 DEF Records
  <2>5. ASSUME NEW t \in Conns, t # s PROVE Unmarked(t)
    BY <2>1, <2>5 DEF Unmarked
  <2> HIDE DEF s, after
  <2>6. Unmarked(s)
    BY <2>2, <2>3, <2>4 DEF Unmarked
  <2> QED BY <2>5, <2>6
<1>8. \A t \in Conns : t \notin Listed => rec'[t] = rec[t]
  BY <1>0, <1>1
<1>9. \A t \in Listed : link'[t] \notin {"none", "waiting"}
  BY DEF Command, IInv, ListInv
<1>10. ListInv' /\ AuthInv'
  BY <1>7, <1>8, <1>9, QuietKeeps DEF Command, AuthAtHand, Frame
<1> QED BY <1>5, <1>6, <1>10 DEF IInv

LEMMA FreshIsRecord == Fresh \in Records
BY BoundsAssumption DEF Fresh, Records, Frames

LEMMA StopKeeps == ASSUME IInv, Stop PROVE IInv'
<1>1. Len(list') = 0 /\ list' \in Seq(Conns) /\ Slots' = {} /\ Listed' = {}
  BY DEF Stop, Slots, Listed
<1>2. \A s \in Conns : rec'[s] = Fresh /\ link'[s] \in {"none", "closed"}
  BY DEF Stop
<1>3. TypeOK'
  <2>1. rec' \in [Conns -> Records] /\ link' \in [Conns -> Links]
    BY FreshIsRecord DEF Stop, Links
  <2>2. erase' \in 0 .. Len(list') /\ Len(list') <= MaxClients
    BY <1>1, BoundsAssumption DEF Stop, IInv, LoopInv
  <2> QED BY <1>1, <2>1, <2>2 DEF IInv, TypeOK, Stop
<1>4. LoopInv'
  BY DEF Stop, IInv, LoopInv, AuthAtHand
<1>5. ListInv'
  BY <1>1, <1>2 DEF ListInv, Held
<1>6. AuthInv'
  <2>1. \A s \in Conns : ~rec'[s].auth /\ ~rec'[s].served
    BY <1>2 DEF Fresh
  <2>2. ~AuthAtHand'
    BY DEF Stop, AuthAtHand
  <2> QED BY <1>1, <2>1, <2>2 DEF AuthInv, MarksInv, AnswersHold, ValidInv, DeviceInv, OnePerDevice
<1> QED BY <1>3, <1>4, <1>5, <1>6 DEF IInv

LEMMA AcceptKeeps == ASSUME IInv, AcceptNewClients PROVE IInv'
<1> USE DEF AcceptNewClients
<1>1. CASE UNCHANGED <<list, link>>
  <2>1. TypeOK'
    BY <1>1 DEF IInv, TypeOK
  <2>2. LoopInv'
    BY <1>1 DEF IInv, LoopInv, AuthAtHand
  <2>3. \A t \in Listed : link'[t] \notin {"none", "waiting"}
    BY <1>1 DEF IInv, ListInv
  <2>4. ListInv' /\ AuthInv'
    BY <1>1, <2>3, QuietKeeps DEF AuthAtHand, Unmarked
  <2> QED BY <2>1, <2>2, <2>4 DEF IInv
<1>2. CASE \E s \in Conns : Accept(s)
  <2>1. PICK s \in Conns : Accept(s)
    BY <1>2
  <2> USE DEF Accept
  <2>2. s \notin Listed /\ rec[s] = Fresh
    BY <2>1 DEF IInv, ListInv
  <2>3. /\ list' \in Seq(Conns) /\ Len(list') = Len(list) + 1
        /\ \A i \in Slots : list'[i] = list[i]
        /\ list'[Len(list) + 1] = s
    BY <2>1, AppendProperties DEF IInv, TypeOK, Slots
  <2>4. Slots' = Slots \cup {Len(list) + 1}
    BY <2>3 DEF Slots, IInv, TypeOK
  <2>5. Listed' = Listed \cup {s}
    BY <2>3, <2>4 DEF Listed
  <2>6. link \in [Conns -> Links] /\ link' = [link EXCEPT ![s] = "open"]
    BY <2>1 DEF IInv, TypeOK
  <2>7. TypeOK'
    <3>1. Len(list') <= MaxClients
      BY <2>1, <2>3, BoundsAssumption DEF Full, IInv, TypeOK
    <3>2. erase' \in 0 .. Len(list')
      BY <2>3 DEF IInv, TypeOK
    <3>3. link' \in [Conns -> Links]
      BY <2>6 DEF Links
    <3> QED BY <2>3, <3>1, <3>2, <3>3 DEF IInv, TypeOK
  <2>8. LoopInv'
    BY DEF IInv, LoopInv, AuthAtHand
  <2>9. ListInv'
    <3>1. \A i, j \in Slots' : list'[i] = list'[j] => i = j
      BY <2>2, <2>3, <2>4 DEF IInv, ListInv, Listed
    <3>2. \A t \in Listed' : link'[t] \notin {"none", "waiting"}
      <4>1. Listed \subseteq Conns
        BY DEF IInv, TypeOK, Listed, Slots
      <4> QED BY <2>5, <2>6, <4>1 DEF IInv, ListInv
    <3>3. \A t \in Conns : t \notin Listed' => rec'[t] = Fresh
      BY <2>5 DEF IInv, ListInv
    <3>4. \A t \in Conns : link'[t] \in Held => t \in Listed' /\ rec'[t].valid
      <4>1. rec[s].valid
        BY <2>2 DEF Fresh
      <4> QED BY <2>5, <2>6, <4>1 DEF IInv, ListInv
    <3> QED BY <3>1, <3>2, <3>3, <3>4 DEF ListInv
  <2>10. AuthInv'
    <3>0. MarksInv /\ AnswersHold /\ ValidInv /\ DeviceInv
      BY DEF IInv, AuthInv
    <3>1. ~rec[s].auth /\ ~rec[s].told /\ rec[s].dev = NoDevice
      BY <2>2 DEF Fresh
    <3>2. MarksInv'
      BY <3>0 DEF MarksInv, AuthAtHand
    <3>3. AnswersHold'
      BY <2>5, <3>0, <3>1 DEF AnswersHold
    <3>4. ValidInv'
      <4>1. Listed \subseteq Conns
        BY DEF IInv, TypeOK, Listed, Slots
      <4> QED BY <2>5, <2>6, <3>0, <4>1 DEF ValidInv, Held
    <3>5. DeviceInv'
      BY <2>5, <3>0, <3>1 DEF DeviceInv, OnePerDevice, AuthAtHand
    <3> QED BY <3>2, <3>3, <3>4, <3>5 DEF AuthInv
  <2> QED BY <2>7, <2>8, <2>9, <2>10 DEF IInv
<1> QED BY <1>1, <1>2

(***************************************************************************)
(* RemoveClient, from either loop.                                         *)
(***************************************************************************)
LEMMA RemoveKeeps ==
  ASSUME IInv, pc \in {"read", "timeouts"}, at \in Slots, RemoveClient(at),
         UNCHANGED <<running, pc, at, erase, msg>>
  PROVE  IInv'
<1> DEFINE s == list[at]
<1> USE DEF RemoveClient, Erase
<1>1. s \in Listed /\ s \in Conns
  BY DEF IInv, TypeOK, Listed, Slots
<1>2. /\ list' \in Seq(Conns) /\ Len(list') = Len(list) - 1 /\ Listed' = Listed \ {s}
      /\ \A j, k \in Slots' : list'[j] = list'[k] => j = k
  BY Erased DEF IInv, TypeOK, ListInv
<1>3. rec \in [Conns -> Records] /\ rec' = [rec EXCEPT ![s] = Fresh]
  BY DEF IInv, TypeOK
<1>4. link \in [Conns -> Links] /\ link' = IF rec[s].valid THEN [link EXCEPT ![s] = "closed"] ELSE link
  BY DEF Closed, IInv, TypeOK
<1>5. link'[s] \notin Held /\ \A t \in Conns \ {s} : link'[t] = link[t] /\ rec'[t] = rec[t]
  BY <1>1, <1>3, <1>4 DEF IInv, ListInv, Held
<1>6. TypeOK'
  <2>1. rec' \in [Conns -> Records] /\ link' \in [Conns -> Links]
    BY <1>3, <1>4, FreshIsRecord DEF Links
  <2>2. erase' \in 0 .. Len(list') /\ Len(list') <= MaxClients
    BY <1>2, BoundsAssumption DEF IInv, LoopInv, TypeOK, Slots
  <2> QED BY <1>2, <2>1, <2>2 DEF IInv, TypeOK
<1>7. LoopInv'
  BY DEF IInv, LoopInv, AuthAtHand
<1>8. ListInv'
  <2>1. Listed \subseteq Conns
    BY DEF IInv, TypeOK, Listed, Slots
  <2>2. rec'[s] = Fresh
    BY <1>1, <1>3
  <2> QED BY <1>1, <1>2, <1>5, <2>1, <2>2 DEF IInv, ListInv
<1>9. AuthInv'
  <2>0. MarksInv /\ AnswersHold /\ ValidInv /\ DeviceInv /\ Listed \subseteq Conns
    BY DEF IInv, AuthInv, TypeOK, Listed, Slots
  <2>1. MarksInv'
    <3>1. rec'[s] = Fresh /\ ~Fresh.auth /\ ~Fresh.served
      BY <1>1, <1>3 DEF Fresh
    <3> QED BY <1>5, <2>0, <3>1 DEF MarksInv, AuthAtHand
  <2>2. AnswersHold'
    BY <1>2, <1>5, <2>0 DEF AnswersHold
  <2>3. ValidInv'
    BY <1>2, <1>5, <2>0 DEF ValidInv
  <2>4. DeviceInv'
    BY <1>2, <1>5, <2>0 DEF DeviceInv, OnePerDevice, AuthAtHand
  <2> QED BY <2>1, <2>2, <2>3, <2>4 DEF AuthInv
<1> QED BY <1>6, <1>7, <1>8, <1>9 DEF IInv

(***************************************************************************)
(* A record loses its socket, or is adrift, and no other changes.          *)
(***************************************************************************)
LEMMA CloseKeeps ==
  ASSUME IInv, list' = list, NEW s \in Listed,
         link' = Closed(s), ~AuthAtHand',
         \A t \in Conns : t # s => rec'[t] = rec[t],
         /\ rec'[s].auth = rec[s].auth /\ rec'[s].proved = rec[s].proved
         /\ rec'[s].served = rec[s].served /\ rec'[s].misled = rec[s].misled,
         \/ ~rec'[s].valid
         \/ rec'[s].adrift /\ rec'[s].dev = rec[s].dev /\ rec'[s].doubled = rec[s].doubled
            /\ rec'[s].valid = rec[s].valid
  PROVE  ListInv' /\ AuthInv'
<1>1. Slots' = Slots /\ Listed' = Listed /\ Listed \subseteq Conns
  BY DEF Slots, Listed, IInv, TypeOK
<1>2. link \in [Conns -> Links] /\ link' = IF rec[s].valid THEN [link EXCEPT ![s] = "closed"] ELSE link
  BY DEF Closed, IInv, TypeOK
<1>3. /\ link'[s] \notin Held /\ link'[s] \notin {"none", "waiting"}
      /\ \A t \in Conns \ {s} : link'[t] = link[t]
  BY <1>1, <1>2 DEF IInv, ListInv, Held
<1>4. ListInv'
  BY <1>1, <1>3 DEF IInv, ListInv
<1>5. AuthInv'
  <2>0. MarksInv /\ AnswersHold /\ ValidInv /\ DeviceInv
    BY DEF IInv, AuthInv
  <2>1. MarksInv'
    BY <1>1, <2>0 DEF MarksInv
  <2>2. AnswersHold'
    BY <1>1, <2>0 DEF AnswersHold
  <2>3. ValidInv'
    BY <1>1, <1>3, <2>0 DEF ValidInv
  <2>4. DeviceInv'
    BY <1>1, <2>0 DEF DeviceInv, OnePerDevice
  <2> QED BY <2>1, <2>2, <2>3, <2>4 DEF AuthInv
<1> QED BY <1>4, <1>5

LEMMA OversizedKeeps == ASSUME IInv, Oversized PROVE IInv'
<1> DEFINE s == Client
<1>0. s \in Listed /\ s \in Conns /\ rec \in [Conns -> Records] /\ rec[s] \in Records
  BY ClientListed DEF Oversized, Frame, IInv, LoopInv, TypeOK
<1>1. rec' = [rec EXCEPT ![s] = [rec[s] EXCEPT !.valid = FALSE]]
  BY <1>0 DEF Oversized
<1>2. TypeOK'
  <2>1. rec' \in [Conns -> Records]
    BY <1>0, <1>1 DEF Records
  <2>2. link' \in [Conns -> Links]
    BY <1>0 DEF Oversized, Closed, Links, IInv, TypeOK
  <2> QED BY <2>1, <2>2 DEF IInv, TypeOK, Oversized
<1>3. LoopInv'
  BY DEF IInv, LoopInv, AuthAtHand, Oversized, Frame
<1>4. rec'[s] = [rec[s] EXCEPT !.valid = FALSE] /\ \A t \in Conns : t # s => rec'[t] = rec[t]
  BY <1>0, <1>1
<1>5. /\ rec'[s].auth = rec[s].auth /\ rec'[s].proved = rec[s].proved
      /\ rec'[s].served = rec[s].served /\ rec'[s].misled = rec[s].misled /\ ~rec'[s].valid
  BY <1>0, <1>4 DEF Records
<1>6. ListInv' /\ AuthInv'
  BY <1>0, <1>4, <1>5, CloseKeeps DEF Oversized, AuthAtHand
<1> QED BY <1>2, <1>3, <1>6 DEF IInv

LEMMA AnswerWrongPinKeeps == ASSUME IInv, AnswerWrongPin PROVE IInv'
<1> DEFINE s == Client
<1> USE DEF AnswerWrongPin, Answer
<1>0. s \in Listed /\ s \in Conns /\ rec \in [Conns -> Records] /\ rec[s] \in Records
  BY ClientListed DEF IInv, LoopInv, TypeOK
<1>1. rec' = IF Alive THEN [rec EXCEPT ![s] = [rec[s] EXCEPT !.dev = msg.dev, !.valid = FALSE]]
                     ELSE [rec EXCEPT ![s] = [rec[s] EXCEPT !.adrift = TRUE]]
  BY <1>0
<1>2. msg.dev \in Devices
  BY DEF IInv, LoopInv, AuthAtHand, Messages
<1>3. TypeOK'
  <2>1. rec' \in [Conns -> Records]
    <3>1. [rec[s] EXCEPT !.dev = msg.dev, !.valid = FALSE] \in Records
      BY <1>0, <1>2 DEF Records
    <3>2. [rec[s] EXCEPT !.adrift = TRUE] \in Records
      BY <1>0 DEF Records
    <3> QED BY <1>0, <1>1, <3>1, <3>2
  <2>2. link' \in [Conns -> Links]
    BY <1>0 DEF Closed, Links, IInv, TypeOK
  <2>3. msg' \in Messages \cup {NoMsg}
    OBVIOUS
  <2> QED BY <2>1, <2>2, <2>3 DEF IInv, TypeOK
<1>4. LoopInv'
  BY DEF IInv, LoopInv, AuthAtHand, Slots
<1>5. \A t \in Conns : t # s => rec'[t] = rec[t]
  BY <1>0, <1>1
<1>6. /\ rec'[s].auth = rec[s].auth /\ rec'[s].proved = rec[s].proved
      /\ rec'[s].served = rec[s].served /\ rec'[s].misled = rec[s].misled
  BY <1>0, <1>1 DEF Records
<1>7. \/ ~rec'[s].valid
      \/ rec'[s].adrift /\ rec'[s].dev = rec[s].dev /\ rec'[s].doubled = rec[s].doubled
         /\ rec'[s].valid = rec[s].valid
  BY <1>0, <1>1 DEF Records
<1>8. ListInv' /\ AuthInv'
  BY <1>0, <1>5, <1>6, <1>7, CloseKeeps DEF AuthAtHand
<1> QED BY <1>3, <1>4, <1>8 DEF IInv

LEMMA AnswerOkKeeps == ASSUME IInv, AnswerOk PROVE IInv'
<1> DEFINE s == Client
           hears == rec[s].valid /\ link[s] \in Held
           given == [rec[s] EXCEPT !.dev = msg.dev, !.auth = TRUE,
                                   !.told = @ \/ hears, !.adrift = @ /\ ~hears,
                                   !.misled = Misled, !.doubled = Doubled]
           lost == [rec[s] EXCEPT !.told = @ \/ hears, !.adrift = TRUE]
<1> USE DEF AnswerOk, Answer
<1>0. s \in Listed /\ s \in Conns /\ rec \in [Conns -> Records] /\ rec[s] \in Records
  BY ClientListed DEF IInv, LoopInv, TypeOK
<1>1. rec' = IF Alive THEN [rec EXCEPT ![s] = given] ELSE [rec EXCEPT ![s] = lost]
  BY <1>0
<1>2. msg.dev \in Devices /\ msg.from \in Conns /\ hears \in BOOLEAN
      /\ Misled \in BOOLEAN /\ Doubled \in BOOLEAN
  BY <1>0 DEF IInv, LoopInv, AuthAtHand, Records, Messages, Misled, Doubled
<1>3. given \in Records /\ lost \in Records
  <2>0. rec[s] \in Records /\ rec[s].told \in BOOLEAN /\ rec[s].adrift \in BOOLEAN
    BY <1>0 DEF Records
  <2>1. PICK told \in BOOLEAN : told = (rec[s].told \/ hears)
    BY <1>2, <2>0
  <2>2. PICK adrift \in BOOLEAN : adrift = (rec[s].adrift /\ ~hears)
    BY <1>2, <2>0
  <2>3. /\ given = [rec[s] EXCEPT !.dev = msg.dev, !.auth = TRUE, !.told = told,
                                   !.adrift = adrift, !.misled = Misled, !.doubled = Doubled]
        /\ lost = [rec[s] EXCEPT !.told = told, !.adrift = TRUE]
    BY <2>0, <2>1, <2>2 DEF Records
  <2>4. PICK misled \in BOOLEAN, doubled \in BOOLEAN : misled = Misled /\ doubled = Doubled
    BY <1>2
  <2>5. msg.dev \in Devices \cup {NoDevice}
    BY <1>2
  <2>6. PICK dev \in Devices \cup {NoDevice} : dev = msg.dev
    BY <2>5
  <2>7. PICK old \in Records : old = rec[s]
    BY <2>0
  <2>8. /\ given = [old EXCEPT !.dev = dev, !.auth = TRUE, !.told = told,
                               !.adrift = adrift, !.misled = misled, !.doubled = doubled]
        /\ lost = [old EXCEPT !.told = told, !.adrift = TRUE]
    BY <2>3, <2>4, <2>6, <2>7
  <2>9. [old EXCEPT !.told = told, !.adrift = TRUE] \in Records
    BY ONLY told \in BOOLEAN, old \in Records DEF Records
  <2>10. PICK first \in Records : first = [old EXCEPT !.dev = dev, !.auth = TRUE, !.told = told]
    BY ONLY told \in BOOLEAN, old \in Records, dev \in Devices \cup {NoDevice} DEF Records
  <2>11. [first EXCEPT !.adrift = adrift, !.misled = misled, !.doubled = doubled] \in Records
    BY ONLY first \in Records, adrift \in BOOLEAN, misled \in BOOLEAN, doubled \in BOOLEAN
       DEF Records
  <2>12. [old EXCEPT !.dev = dev, !.auth = TRUE, !.told = told,
                     !.adrift = adrift, !.misled = misled, !.doubled = doubled]
           = [first EXCEPT !.adrift = adrift, !.misled = misled, !.doubled = doubled]
    BY <2>10 DEF Records
  <2> HIDE DEF given, lost
  <2> QED BY <2>8, <2>9, <2>11, <2>12
<1>4. /\ given.valid = rec[s].valid /\ given.dev = msg.dev /\ given.auth = TRUE
      /\ given.proved = rec[s].proved /\ given.served = rec[s].served
      /\ given.told = (rec[s].told \/ hears) /\ given.adrift = (rec[s].adrift /\ ~hears)
      /\ given.misled = Misled /\ given.doubled = Doubled
  BY <1>0 DEF Records
<1>5. /\ lost.valid = rec[s].valid /\ lost.dev = rec[s].dev /\ lost.auth = rec[s].auth
      /\ lost.proved = rec[s].proved /\ lost.served = rec[s].served /\ lost.adrift = TRUE
      /\ lost.misled = rec[s].misled /\ lost.doubled = rec[s].doubled
  BY <1>0 DEF Records
<1>6. Slots' = Slots /\ Listed' = Listed /\ Listed \subseteq Conns /\ link' = link /\ ~AuthAtHand'
  BY DEF Slots, Listed, IInv, TypeOK, AuthAtHand
<1>7. LoopInv'
  BY DEF IInv, LoopInv, AuthAtHand, Slots
<1>8. UNCHANGED <<running, list, link, at, erase>> /\ pc' = "frames" /\ msg' = NoMsg
  OBVIOUS
<1> HIDE DEF AnswerOk, Answer, given, lost
<1>9. /\ rec'[s] = IF Alive THEN given ELSE lost
      /\ \A t \in Conns : t # s => rec'[t] = rec[t]
  BY <1>0, <1>1
<1>10. TypeOK'
  <2>1. rec' \in [Conns -> Records]
    BY <1>0, <1>1, <1>3
  <2> QED BY <1>8, <2>1 DEF IInv, TypeOK
<1>11. ListInv'
  BY <1>0, <1>4, <1>5, <1>6, <1>8, <1>9 DEF IInv, ListInv
<1>12. MarksInv /\ AnswersHold /\ ValidInv /\ DeviceInv
  BY DEF IInv, AuthInv
<1>13. MarksInv'
  <2>1. Alive => rec[s].proved \/ Misled
    <3>1. msg.kind = "auth" /\ AuthAtHand
      BY DEF AnswerOk, Answer, AuthAtHand
    <3> QED BY <1>0, <1>12, <3>1 DEF MarksInv, Misled
  <2>2. rec'[s].auth \/ rec'[s].served => rec'[s].proved \/ rec'[s].misled
    <3>1. CASE Alive
      BY <1>4, <1>9, <2>1, <3>1
    <3>2. CASE ~Alive
      BY <1>0, <1>5, <1>9, <1>12, <3>2 DEF MarksInv
    <3> QED BY <3>1, <3>2
  <2> QED BY <1>6, <1>9, <1>12, <2>2 DEF MarksInv
<1>14. ValidInv'
  <2>1. rec'[s].valid => link[s] \in Held \/ rec'[s].adrift
    <3>1. CASE Alive
      BY <1>0, <1>4, <1>9, <1>12, <3>1 DEF ValidInv
    <3>2. CASE ~Alive
      BY <1>5, <1>9, <3>2
    <3> QED BY <3>1, <3>2
  <2> QED BY <1>6, <1>9, <1>12, <2>1 DEF ValidInv
<1>15. AnswersHold'
  <2>1. rec'[s].valid /\ ~rec'[s].adrift => (rec'[s].auth <=> rec'[s].told)
    <3>1. CASE Alive
      BY <1>0, <1>4, <1>9, <1>12, <3>1 DEF ValidInv
    <3>2. CASE ~Alive
      BY <1>5, <1>9, <3>2
    <3> QED BY <3>1, <3>2
  <2> QED BY <1>6, <1>9, <1>12, <2>1 DEF AnswersHold
<1>16. DeviceInv'
  <2>1. \A t \in Listed : rec[t].valid /\ rec[t].dev = msg.dev => t = msg.from
    BY <1>12 DEF DeviceInv, AuthAtHand, AnswerOk, Answer
  <2>2. ASSUME NEW t \in Listed, t # s, rec'[t].valid, rec'[s].valid, rec'[t].dev = rec'[s].dev,
               rec'[s].dev # NoDevice, ~rec'[t].doubled, ~rec'[s].doubled
        PROVE  FALSE
    <3>0. rec'[t] = rec[t]
      BY <1>6, <1>9, <2>2
    <3>1. CASE Alive
      <4>1. t = msg.from
        BY <1>4, <1>9, <2>1, <2>2, <3>0, <3>1
      <4>2. Doubled
        BY <1>4, <1>9, <2>2, <3>0, <3>1, <4>1 DEF Doubled
      <4> QED BY <1>4, <1>9, <2>2, <3>1, <4>2
    <3>2. CASE ~Alive
      BY <1>0, <1>5, <1>9, <1>12, <2>2, <3>0, <3>2 DEF DeviceInv, OnePerDevice
    <3> QED BY <3>1, <3>2
  <2>3. ASSUME NEW r \in Listed, NEW t \in Listed, rec'[r].valid, rec'[t].valid,
               rec'[r].dev = rec'[t].dev, rec'[r].dev # NoDevice, ~rec'[r].doubled, ~rec'[t].doubled
        PROVE  r = t
    <3>1. CASE r = s
      BY <2>2, <2>3, <3>1
    <3>2. CASE t = s
      BY <2>2, <2>3, <3>2
    <3>3. CASE r # s /\ t # s
      BY <1>6, <1>9, <1>12, <2>3, <3>3 DEF DeviceInv, OnePerDevice
    <3> QED BY <3>1, <3>2, <3>3
  <2> QED BY <1>6, <2>3 DEF DeviceInv, OnePerDevice
<1> QED BY <1>7, <1>10, <1>11, <1>13, <1>14, <1>15, <1>16 DEF IInv, AuthInv

LEMMA AuthenticateKeeps == ASSUME IInv, Authenticate PROVE IInv'
<1> DEFINE c == Client
           sender == [rec[c] EXCEPT !.buffer = Tail(@),
                                    !.proved = @ \/ Head(rec[c].buffer) = "auth"]
<1> USE DEF Authenticate, Frame
<1>0. /\ c \in Listed /\ c \in Conns /\ rec \in [Conns -> Records] /\ rec[c] \in Records
      /\ at \in Slots /\ c = list[at] /\ Listed \subseteq Conns
  <2>1. at \in Slots /\ c = list[at]
    BY DEF More, Alive, Client
  <2>2. rec \in [Conns -> Records] /\ list \in Seq(Conns)
    BY DEF IInv, TypeOK
  <2>3. Listed \subseteq Conns /\ list[at] \in Listed
    <3> HIDE DEF Authenticate, Frame
    <3> QED BY <2>1, <2>2 DEF Listed, Slots
  <2> QED BY <2>1, <2>2, <2>3
<1>1. sender \in Records
  <2>1. rec[c].buffer \in Seq(Frames) /\ rec[c].buffer # <<>> /\ rec[c].proved \in BOOLEAN
    BY <1>0 DEF Records, More
  <2>2. Tail(rec[c].buffer) \in Seq(Frames)
    BY <2>1, HeadTailProperties
  <2> QED BY <1>0, <2>1, <2>2 DEF Records
<1>2. /\ rec'[c] = sender
      /\ \A t \in Conns : t # c => rec'[t] = [rec[t] EXCEPT !.valid = @ /\ t \notin Rivals(c)]
  BY <1>0
<1>3. \A t \in Conns : rec'[t] \in Records
  <2>1. ASSUME NEW t \in Conns, t # c PROVE rec'[t] \in Records
    <3>1. rec[t] \in Records
      BY <1>0
    <3> QED BY <1>2, <2>1, <3>1 DEF Records
  <2> QED BY <1>1, <1>2, <2>1
<1>4. \A t \in Conns : /\ rec'[t].auth = rec[t].auth /\ rec'[t].dev = rec[t].dev
                       /\ rec'[t].told = rec[t].told /\ rec'[t].served = rec[t].served
                       /\ rec'[t].adrift = rec[t].adrift /\ rec'[t].misled = rec[t].misled
                       /\ rec'[t].doubled = rec[t].doubled
                       /\ (rec[t].proved => rec'[t].proved)
                       /\ rec'[t].valid = (rec[t].valid /\ t \notin Rivals(c))
  <2>1. c \notin Rivals(c)
    BY DEF Rivals
  <2>2. /\ sender.auth = rec[c].auth /\ sender.dev = rec[c].dev /\ sender.told = rec[c].told
        /\ sender.served = rec[c].served /\ sender.adrift = rec[c].adrift
        /\ sender.misled = rec[c].misled /\ sender.doubled = rec[c].doubled
        /\ sender.valid = rec[c].valid /\ (rec[c].proved => sender.proved)
    BY <1>0 DEF Records
  <2>3. ASSUME NEW t \in Conns, t # c
        PROVE  /\ rec'[t].auth = rec[t].auth /\ rec'[t].dev = rec[t].dev
               /\ rec'[t].told = rec[t].told /\ rec'[t].served = rec[t].served
               /\ rec'[t].adrift = rec[t].adrift /\ rec'[t].misled = rec[t].misled
               /\ rec'[t].doubled = rec[t].doubled
               /\ (rec[t].proved => rec'[t].proved)
               /\ rec'[t].valid = (rec[t].valid /\ t \notin Rivals(c))
    <3>1. rec[t] \in Records
      BY <1>0
    <3> QED BY <1>2, <2>3, <3>1 DEF Records
  <2>4. rec[c].valid \in BOOLEAN
    BY <1>0 DEF Records
  <2> HIDE DEF sender, c, Authenticate, Frame
  <2>5. TAKE t \in Conns
  <2>6. CASE t = c
    BY <1>2, <2>1, <2>2, <2>4, <2>6
  <2>7. CASE t # c
    BY <2>3, <2>7
  <2> QED BY <2>6, <2>7
<1>5. \A t \in Conns : link'[t] = IF t \in Rivals(c) /\ rec[t].valid THEN "closed" ELSE link[t]
  OBVIOUS
<1>6. msg'.kind = Head(rec[c].buffer) /\ msg'.dev = Owner[c] /\ msg'.dev \in Devices
      /\ msg'.kind \in {"auth", "wrong", "short"} /\ msg'.from = c /\ msg' \in Messages
  BY <1>0, DevicesAssumption DEF Messages
<1>7. TypeOK'
  <2>1. rec' \in [Conns -> Records]
    <3>1. rec' = [t \in Conns |-> rec'[t]]
      OBVIOUS
    <3> QED BY <1>3, <3>1
  <2>2. link' \in [Conns -> Links]
    BY DEF Links, IInv, TypeOK
  <2>3. erase' \in 0 .. Len(list')
    <3>1. erase' = Len(list) /\ list' = list
      BY DEF EraseFrom
    <3>2. Len(list) \in Nat
      BY LenProperties DEF IInv, TypeOK
    <3> HIDE DEF Authenticate, Frame
    <3> QED BY <3>1, <3>2
  <2>4. msg' \in Messages \cup {NoMsg}
    BY <1>6
  <2> QED BY <2>1, <2>2, <2>3, <2>4 DEF IInv, TypeOK
<1>8. LoopInv'
  BY <1>0, <1>6 DEF IInv, LoopInv, AuthAtHand, Slots
<1>9. Slots' = Slots /\ Listed' = Listed /\ UNCHANGED <<list, at>>
  BY DEF Slots, Listed
<1> HIDE DEF Authenticate, Frame, sender
<1>10. ListInv'
  <2>1. \A t \in Conns : t \notin Listed => rec'[t] = Fresh
    <3> SUFFICES ASSUME NEW t \in Conns, t \notin Listed PROVE rec'[t] = Fresh
      OBVIOUS
    <3>1. t # c /\ t \notin Rivals(c) /\ rec[t] = Fresh
      BY <1>0 DEF Rivals, IInv, ListInv
    <3>2. rec'[t] = [Fresh EXCEPT !.valid = @ /\ t \notin Rivals(c)]
      BY <1>2, <3>1
    <3> QED BY <3>1, <3>2 DEF Fresh
  <2>2. \A t \in Conns : link'[t] \in Held => t \in Listed /\ rec'[t].valid
    BY <1>4, <1>5 DEF Held, IInv, ListInv
  <2>3. \A t \in Listed : link'[t] \notin {"none", "waiting"}
    BY <1>0, <1>5 DEF IInv, ListInv
  <2> QED BY <1>9, <2>1, <2>2, <2>3 DEF IInv, ListInv
<1>11. AuthInv'
  <2>0. MarksInv /\ AnswersHold /\ ValidInv /\ DeviceInv
    BY DEF IInv, AuthInv
  <2>1. MarksInv'
    <3>1. msg'.kind = "auth" => rec'[c].proved
      <4>1. Head(rec[c].buffer) = "auth" => sender.proved
        BY <1>0 DEF Records, sender
      <4> QED BY <1>2, <1>6, <4>1
    <3>2. \A t \in Conns : rec'[t].auth \/ rec'[t].served => rec'[t].proved \/ rec'[t].misled
      BY <1>4, <2>0 DEF MarksInv
    <3> QED BY <1>6, <3>1, <3>2 DEF MarksInv
  <2>2. AnswersHold'
    BY <1>0, <1>4, <1>9, <2>0 DEF AnswersHold
  <2>3. ValidInv'
    BY <1>0, <1>4, <1>5, <1>9, <2>0 DEF ValidInv
  <2>4. DeviceInv'
    <3>1. \A t \in Listed : rec'[t].valid /\ rec'[t].dev = msg'.dev => t = c
      BY <1>0, <1>4, <1>6 DEF Rivals
    <3>2. ASSUME NEW r \in Listed, NEW t \in Listed, rec'[r].valid, rec'[t].valid,
                 rec'[r].dev = rec'[t].dev, rec'[r].dev # NoDevice,
                 ~rec'[r].doubled, ~rec'[t].doubled
          PROVE  r = t
      <4>1. r \in Conns /\ t \in Conns
        BY <1>0
      <4>2. /\ rec[r].valid /\ rec[t].valid /\ rec[r].dev = rec[t].dev
            /\ rec[r].dev # NoDevice /\ ~rec[r].doubled /\ ~rec[t].doubled
        BY <1>4, <3>2, <4>1
      <4> QED BY <2>0, <4>2 DEF DeviceInv, OnePerDevice
    <3> QED BY <1>6, <1>9, <3>1, <3>2 DEF DeviceInv, OnePerDevice
  <2> QED BY <2>1, <2>2, <2>3, <2>4 DEF AuthInv
<1> QED BY <1>7, <1>8, <1>10, <1>11 DEF IInv

LEMMA EraseStaleKeeps == ASSUME IInv, EraseStale PROVE IInv'
<1>0. /\ pc = "erase" /\ pc' = "erase" /\ erase > 0 /\ erase' = erase - 1
      /\ UNCHANGED <<running, link, at, msg>>
  BY DEF EraseStale
<1>1. erase \in Slots /\ list[erase] \in Listed /\ Listed \subseteq Conns
  BY <1>0 DEF IInv, TypeOK, Listed, Slots
<1>2. CASE UNCHANGED <<list, rec>>
  <2>1. TypeOK'
    BY <1>0, <1>2 DEF IInv, TypeOK
  <2>2. LoopInv'
    BY <1>0, <1>1, <1>2 DEF IInv, LoopInv, TypeOK, AuthAtHand, Slots
  <2>3. \A t \in Listed : link'[t] \notin {"none", "waiting"}
    BY <1>0 DEF IInv, ListInv
  <2>4. ListInv' /\ AuthInv'
    BY <1>0, <1>2, <2>3, QuietKeeps DEF AuthAtHand, Unmarked
  <2> QED BY <2>1, <2>2, <2>4 DEF IInv
<1>3. CASE ~rec[list[erase]].valid /\ erase # at /\ Erase(erase)
  <2> DEFINE s == list[erase]
  <2>1. /\ list' \in Seq(Conns) /\ Len(list') = Len(list) - 1 /\ Listed' = Listed \ {s}
        /\ \A j, k \in Slots' : list'[j] = list'[k] => j = k
    BY <1>1, <1>3, Erased DEF Erase, IInv, TypeOK, ListInv
  <2>2. rec \in [Conns -> Records] /\ rec' = [rec EXCEPT ![s] = Fresh]
    BY <1>3 DEF Erase, IInv, TypeOK
  <2>3. rec'[s] = Fresh /\ \A t \in Conns \ {s} : rec'[t] = rec[t]
    BY <1>1, <2>2
  <2>4. Len(list) \in Nat /\ at \in Nat \ {0} /\ erase \in Nat
    BY <1>1 DEF IInv, TypeOK, Slots
  <2>6. TypeOK'
    <3>1. rec' \in [Conns -> Records]
      BY <2>2, FreshIsRecord
    <3>2. erase' \in 0 .. Len(list') /\ Len(list') <= MaxClients
      BY <1>0, <1>1, <2>1, <2>4, BoundsAssumption DEF IInv, TypeOK, Slots
    <3> QED BY <1>0, <2>1, <3>1, <3>2 DEF IInv, TypeOK
  <2>7. LoopInv'
    <3>1. Len(list') > 0 /\ (at \in Slots' \/ erase' < Len(list'))
      <4>1. at \in 1 .. Len(list) \/ erase < Len(list)
        BY <1>0 DEF IInv, LoopInv, Slots
      <4> QED BY <1>0, <1>1, <1>3, <2>1, <2>4, <4>1 DEF Slots
    <3>2. list' # <<>>
      BY <2>1, <3>1, EmptySeq
    <3> QED BY <1>0, <3>1, <3>2 DEF IInv, LoopInv, AuthAtHand
  <2>8. ListInv'
    <3>1. link[s] \notin Held
      BY <1>1, <1>3 DEF IInv, ListInv
    <3> QED BY <1>0, <1>1, <2>1, <2>3, <3>1 DEF IInv, ListInv
  <2>9. AuthInv'
    <3>0. MarksInv /\ AnswersHold /\ ValidInv /\ DeviceInv
      BY DEF IInv, AuthInv
    <3>1. MarksInv'
      <4>1. ~Fresh.auth /\ ~Fresh.served
        BY DEF Fresh
      <4> QED BY <1>0, <1>1, <2>1, <2>3, <3>0, <4>1 DEF MarksInv, AuthAtHand
    <3>2. AnswersHold'
      BY <1>1, <2>1, <2>3, <3>0 DEF AnswersHold
    <3>3. ValidInv'
      BY <1>0, <1>1, <2>1, <2>3, <3>0 DEF ValidInv
    <3>4. DeviceInv'
      BY <1>0, <1>1, <2>1, <2>3, <3>0 DEF DeviceInv, OnePerDevice, AuthAtHand
    <3> QED BY <3>1, <3>2, <3>3, <3>4 DEF AuthInv
  <2> QED BY <2>6, <2>7, <2>8, <2>9 DEF IInv
<1> QED BY <1>2, <1>3 DEF EraseStale

LEMMA TimeoutsKeep == ASSUME IInv, CheckTimeouts PROVE IInv'
<1>1. CASE rec[list[at]].idle
  BY <1>1, RemoveKeeps DEF CheckTimeouts
<1>2. CASE ~rec[list[at]].idle
  <2>1. /\ pc = "timeouts" /\ at' = at + 1
        /\ UNCHANGED <<running, list, rec, link, pc, erase, msg>>
    BY <1>2 DEF CheckTimeouts
  <2>2. TypeOK'
    BY <2>1 DEF IInv, TypeOK
  <2>3. LoopInv'
    BY <2>1 DEF IInv, LoopInv, AuthAtHand, Slots
  <2>4. \A t \in Listed : link'[t] \notin {"none", "waiting"}
    BY <2>1 DEF IInv, ListInv
  <2>5. ListInv' /\ AuthInv'
    BY <2>1, <2>4, QuietKeeps DEF AuthAtHand, Unmarked
  <2> QED BY <2>2, <2>3, <2>5 DEF IInv
<1> QED BY <1>1, <1>2

-----------------------------------------------------------------------------
LEMMA NextKeeps == IInv /\ [Next]_vars => IInv'
<1> SUFFICES ASSUME IInv, [Next]_vars PROVE IInv'
  OBVIOUS
<1>1. CASE Start
  BY <1>1, StartKeeps
<1>2. CASE Stop
  BY <1>2, StopKeeps
<1>3. CASE \E s \in Conns : Connect(s) \/ Leave(s) \/ MinutePasses(s)
  BY <1>3, NetworkKeeps, MinuteKeeps
<1>4. CASE AcceptNewClients
  BY <1>4, AcceptKeeps
<1>5. CASE ReadFromClients
  <2>1. CASE Receives(list[at])
    BY <1>5, <2>1, ReceivesKeeps DEF ReadFromClients
  <2>2. CASE WouldBlock(list[at])
    BY <1>5, <2>2, WalkKeeps DEF ReadFromClients
  <2>3. CASE Ends(list[at])
    BY <1>5, <2>3, RemoveKeeps DEF ReadFromClients, Ends
  <2> QED BY <1>5, <2>1, <2>2, <2>3 DEF ReadFromClients
<1>6. CASE CheckTimeouts
  BY <1>6, TimeoutsKeep
<1>7. CASE ReadDone \/ PollDone \/ FramesDone \/ EraseDone \/ AnswerMalformed
  BY <1>7, WalkKeeps
<1>8. CASE Oversized \/ Command \/ Authenticate \/ EraseStale \/ AnswerOk \/ AnswerWrongPin
  BY <1>8, OversizedKeeps, CommandKeeps, AuthenticateKeeps, EraseStaleKeeps, AnswerOkKeeps,
     AnswerWrongPinKeeps
<1>9. CASE UNCHANGED vars
  <2>1. UNCHANGED <<running, list, rec, link, pc, at, erase, msg>>
    BY <1>9 DEF vars
  <2>2. TypeOK' /\ LoopInv'
    BY <2>1 DEF IInv, TypeOK, LoopInv, AuthAtHand, Slots
  <2>3. \A t \in Listed : link'[t] \notin {"none", "waiting"}
    BY <2>1 DEF IInv, ListInv
  <2>4. ListInv' /\ AuthInv'
    BY <2>1, <2>3, QuietKeeps DEF AuthAtHand, Unmarked
  <2> QED BY <2>2, <2>4 DEF IInv
<1> QED
  BY <1>1, <1>2, <1>3, <1>4, <1>5, <1>6, <1>7, <1>8, <1>9 DEF Next, Poll, ProcessFrames

(***************************************************************************)
(* Inductive: the invariant holds of every behaviour of the server, for    *)
(* any number of connections and devices (tcp_server.cpp).                 *)
(***************************************************************************)
THEOREM Inductive == Spec => []IInv
BY InitIInv, NextKeeps, PTL DEF Spec

(***************************************************************************)
(* TypeCorrect: the list never outgrows MAX_CLIENTS, and the loops that    *)
(* erase count down from a slot that exists (tcp_server.cpp, Poll).        *)
(***************************************************************************)
THEOREM TypeCorrect == Spec => []TypeOK
<1>1. IInv => TypeOK
  BY DEF IInv
<1> QED BY Inductive, <1>1, PTL

(***************************************************************************)
(* AnswersAgree: AnswersHold holds; whatever records an AUTH erases, its   *)
(* own and the others are answered AUTH_OK exactly when their commands are *)
(* carried out, save one whose answer went to no record                    *)
(* (tcp_server.cpp, ProcessFrames).                                        *)
(***************************************************************************)
THEOREM AnswersAgree == Spec => []AnswersHold
<1>1. IInv => AnswersHold
  BY DEF IInv, AuthInv
<1> QED BY Inductive, <1>1, PTL

(***************************************************************************)
(* OnlyProvedServed: ServedProved holds; the commands of a connection that *)
(* did not send the PIN, nor was given the answer of one that did, are     *)
(* dropped (tcp_server.cpp, ProcessFrames).                                *)
(***************************************************************************)
THEOREM OnlyProvedServed == Spec => []ServedProved
<1>1. IInv => ServedProved
  <2>1. IInv => Listed \subseteq Conns
    BY DEF IInv, TypeOK, Listed, Slots
  <2> QED BY <2>1 DEF IInv, AuthInv, MarksInv, ServedProved
<1> QED BY Inductive, <1>1, PTL

(***************************************************************************)
(* DevicesApart: OnePerDevice holds; AUTH leaves its device no other       *)
(* connection, be the one it evicts in front of its own record or behind   *)
(* it (tcp_server.cpp, ProcessFrames).                                     *)
(***************************************************************************)
THEOREM DevicesApart == Spec => []OnePerDevice
<1>1. IInv => OnePerDevice
  BY DEF IInv, AuthInv, DeviceInv
<1> QED BY Inductive, <1>1, PTL

(***************************************************************************)
(* NoSocketLost: SocketsHeld holds; an open socket is in a record that     *)
(* names it, and a record names no closed one, save that of an answer that *)
(* went to no record (tcp_server.cpp).                                     *)
(***************************************************************************)
THEOREM NoSocketLost == Spec => []SocketsHeld
<1>1. IInv => SocketsHeld
  BY DEF IInv, ListInv, AuthInv, ValidInv, SocketsHeld
<1> QED BY Inductive, <1>1, PTL
=============================================================================
