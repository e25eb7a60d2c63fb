------------------------ MODULE PresetHistory_proof -------------------------
(***************************************************************************)
(* For every history length and set of presets: the fences stay apart,     *)
(* every remembered name is a preset's, and, as long as the newest preset  *)
(* was not turned down, what next retraces is the history.                 *)
(***************************************************************************)
EXTENDS PresetHistory, TLAPS

(***************************************************************************)
(* The position is on a remembered name, or there is none.  This is what   *)
(* a new preset that is turned down breaks.                                *)
(***************************************************************************)
PosInv == IF fwd = back THEN pos = back ELSE Remembered(pos)

IntactInv == intact => ~sequential /\ PosInv

IInv == TypeOK /\ NoHoles /\ IntactInv

USE HistLenAssumption, NoFileAssumption

-----------------------------------------------------------------------------
(***************************************************************************)
(* Where a target comes from: a slot of the ring and a name that is a      *)
(* preset's unless it was read from the ring.                              *)
(***************************************************************************)
Target(t) == t.file \in Names /\ t.at \in Slots

LEMMA TargetsTyped ==
    ASSUME TypeOK,
           NEW t \in PrevTargets \cup NextTargets \cup ListTargets \cup FileTargets
    PROVE  Target(t)
BY DEF TypeOK, RingTypeOK, Target, PrevTargets, NextTargets, ListTargets, FileTargets,
       After, Before, Slots, Names

LEMMA LoadTyped ==
    ASSUME TypeOK, NEW t, Target(t), Load(t)
    PROVE  TypeOK'
<1>1. PICK v \in Verdicts(t) :
        Remember(t, v # "refused") /\ Outcome(t.file, v) /\ intact' = (intact /\ ~Breaks(t, v # "refused"))
  BY DEF Load
<1>2. current' \in Names /\ pending' \in Names
  BY <1>1 DEF Outcome, Target, TypeOK, Names
<1>3. RingTypeOK'
  BY <1>1 DEF TypeOK, RingTypeOK, Target, Remember, PushBack, After, Slots, Names
<1>4. intact' \in BOOLEAN
  BY <1>1
<1> QED
  BY <1>2, <1>3, <1>4 DEF TypeOK

LEMMA LoadNoHoles ==
    ASSUME TypeOK, NoHoles, NEW t, Target(t), Load(t)
    PROVE  NoHoles'
<1>1. PICK v \in Verdicts(t) : Remember(t, v # "refused")
  BY DEF Load
<1>2. CASE v # "refused" /\ ~sequential /\ t.at = fwd
  <2>1. t.file # NoFile
    BY <1>1, <1>2 DEF Verdicts
  <2>2. /\ hist' = [hist EXCEPT ![fwd] = t.file]
        /\ fwd' = After(fwd)
        /\ back' = IF After(fwd) = back THEN After(back) ELSE back
    BY <1>1, <1>2 DEF Remember, PushBack
  <2>3. ASSUME NEW i \in Slots \ {0}, Remembered(i)'
        PROVE  i = fwd \/ Remembered(i)
    BY <2>2, <2>3 DEF TypeOK, RingTypeOK, Remembered, After, Slots
  <2> QED
    BY <2>1, <2>2, <2>3 DEF NoHoles, TypeOK, RingTypeOK, Slots
<1>3. CASE ~(v # "refused" /\ ~sequential /\ t.at = fwd)
  BY <1>1, <1>3 DEF Remember, NoHoles, Remembered
<1> QED
  BY <1>2, <1>3

-----------------------------------------------------------------------------
LEMMA InitIInv == Init => IInv
<1> SUFFICES ASSUME Init PROVE IInv
  OBVIOUS
<1>1. sequential \in BOOLEAN /\ intact = ~sequential
  BY DEF Init
<1>2. TypeOK
  BY <1>1 DEF Init, RingInit, TypeOK, RingTypeOK, Slots, Names
<1>3. NoHoles /\ PosInv
  BY DEF Init, RingInit, NoHoles, PosInv, Remembered, Slots
<1> QED
  BY <1>1, <1>2, <1>3 DEF IInv, IntactInv

LEMMA TargetsRemembered ==
    ASSUME TypeOK, PosInv, ~sequential, fwd # back,
           NEW t \in PrevTargets \cup NextTargets \cup ListTargets \cup FileTargets,
           t.at # fwd
    PROVE  Remembered(t.at)
<1> USE DEF TypeOK, RingTypeOK, PosInv, Remembered, Slots
<1>1. CASE t \in PrevTargets
  BY <1>1 DEF PrevTargets, Before
<1>2. CASE t \in NextTargets
  <2>1. t.at = After(pos)
    BY <1>2 DEF NextTargets, Retracing
  <2> QED
    BY <2>1 DEF After
<1>3. CASE t \in ListTargets
  BY <1>3 DEF ListTargets, After
<1>4. CASE t \in FileTargets
  BY <1>4 DEF FileTargets
<1> QED
  BY <1>1, <1>2, <1>3, <1>4

LEMMA LoadIntact ==
    ASSUME TypeOK, IntactInv,
           NEW t \in PrevTargets \cup NextTargets \cup ListTargets \cup FileTargets,
           Load(t)
    PROVE  IntactInv'
<1> USE DEF TypeOK, RingTypeOK, IntactInv
<1> SUFFICES ASSUME intact' PROVE (~sequential /\ PosInv)'
  OBVIOUS
<1>0. PICK v \in Verdicts(t) :
        Remember(t, v # "refused") /\ intact' = (intact /\ ~Breaks(t, v # "refused"))
  BY DEF Load
<1> DEFINE accepted == v # "refused"
<1>1. Remember(t, accepted) /\ intact' = (intact /\ ~Breaks(t, accepted))
  BY <1>0
<1>2. ~sequential /\ PosInv /\ ~Breaks(t, accepted)
  BY <1>1
<1> HIDE DEF accepted
<1>3. CASE accepted /\ t.at = fwd
  <2>1. /\ pos' = fwd /\ fwd' = After(fwd)
        /\ back' = PushBack(After(fwd))
        /\ UNCHANGED sequential
    BY <1>1, <1>2, <1>3 DEF Remember
  <2>2. PosInv'
    BY <2>1 DEF PosInv, Remembered, PushBack, After, Slots
  <2> QED
    BY <1>2, <2>1, <2>2
<1>4. CASE ~(accepted /\ t.at = fwd)
  <2>1. pos' = t.at /\ UNCHANGED <<hist, fwd, back, sequential>>
    BY <1>1, <1>4 DEF Remember
  <2>2. CASE fwd = back
    BY <1>2, <2>1, <2>2 DEF Breaks, PosInv
  <2>3. CASE fwd # back
    <3>1. t.at # fwd
      BY <1>2, <1>4, <2>3 DEF Breaks
    <3>2. Remembered(t.at)
      BY <1>2, <2>3, <3>1, TargetsRemembered
    <3> QED
      BY <1>2, <2>1, <2>3, <3>2 DEF PosInv, Remembered
  <2> QED
    BY <2>2, <2>3
<1> QED
  BY <1>3, <1>4

LEMMA NextIInv == IInv /\ [Next]_vars => IInv'
<1> SUFFICES ASSUME IInv, [Next]_vars PROVE IInv'
  OBVIOUS
<1> USE DEF IInv
<1>1. ASSUME NEW t \in PrevTargets \cup NextTargets \cup ListTargets \cup FileTargets, Load(t)
      PROVE  TypeOK' /\ NoHoles' /\ IntactInv'
  BY <1>1, TargetsTyped, LoadTyped, LoadNoHoles, LoadIntact
<1>2. CASE PrevPreset \/ NextPreset \/ OtherLoad
  BY <1>1, <1>2 DEF PrevPreset, NextPreset, OtherLoad
<1>3. CASE Toggle
  <2>1. TypeOK'
    BY <1>3 DEF Toggle, ToggleOrder, TypeOK, RingTypeOK, Slots, Names
  <2>2. NoHoles'
    BY <1>3 DEF Toggle, ToggleOrder, NoHoles, Remembered, Slots
  <2>3. IntactInv'
    BY <1>3 DEF Toggle, ToggleOrder, IntactInv, PosInv, Remembered, TypeOK, RingTypeOK
  <2> QED
    BY <2>1, <2>2, <2>3
<1>4. CASE Apply \/ GiveUp \/ ClearPreset \/ UNCHANGED vars
  <2>1. UNCHANGED <<ring, intact>> /\ current' \in Names /\ pending' \in Names
    BY <1>4 DEF Apply, GiveUp, ClearPreset, vars, ring, TypeOK, Names
  <2> QED
    BY <2>1 DEF ring, TypeOK, RingTypeOK, NoHoles, IntactInv, PosInv, Remembered
<1> QED
  BY <1>2, <1>3, <1>4 DEF Next

THEOREM Inductive == Spec => []IInv
BY InitIInv, NextIInv, PTL DEF Spec

(***************************************************************************)
(* The ring's variables keep their types: every slot the program names     *)
(* exists.                                                                 *)
(***************************************************************************)
THEOREM TypeCorrect == Spec => []TypeOK
BY Inductive, PTL DEF IInv

(***************************************************************************)
(* Every name between the fences, but for slot 0, is a preset's, whatever  *)
(* loads LoadPreset turned down.                                           *)
(***************************************************************************)
THEOREM HistoryFilled == Spec => []NoHoles
BY Inductive, PTL DEF IInv

(***************************************************************************)
(* Until a new preset is turned down, the next key retraces nothing but    *)
(* the history.                                                            *)
(***************************************************************************)
THEOREM Retraces == Spec => []RetracesHistory
<1>1. IInv => RetracesHistory
  BY DEF IInv, IntactInv, TypeOK, RingTypeOK, RetracesHistory, MarchesThroughHistory,
         Retracing, PosInv, Remembered, After, Slots
<1> QED
  BY <1>1, Inductive, PTL

(***************************************************************************)
(* The fences of a history that is not empty never touch again: LoadPreset *)
(* pushes the back fence on when the forward fence reaches it.             *)
(***************************************************************************)
THEOREM FencesStayApart == Spec => FencesApart
<1>1. ASSUME IInv, [Next]_vars, fwd # back
      PROVE  fwd' # back'
  <2>1. ASSUME NEW t, Load(t)
        PROVE  fwd' # back'
    BY <1>1, <2>1 DEF IInv, TypeOK, RingTypeOK, Load, Remember, PushBack, After, Slots
  <2> QED
    BY <1>1, <2>1 DEF Next, PrevPreset, NextPreset, OtherLoad, Toggle, ToggleOrder,
       Apply, GiveUp, ClearPreset, ring, vars
<1>2. IInv /\ [Next]_vars => [fwd # back => fwd' # back']_vars
  BY <1>1
<1> QED
  BY <1>2, Inductive, PTL DEF Spec, FencesApart

-----------------------------------------------------------------------------
(***************************************************************************)
(* The trail: every step of the history is a step of the trail.            *)
(***************************************************************************)
TrailStep == Trail!Next \/ UNCHANGED <<Path, Place, current, pending, intact>>
AnyTarget == PrevTargets \cup NextTargets \cup ListTargets \cup FileTargets

LEMMA SizeType == TypeOK => Size \in 0 .. HistLen - 1
BY DEF TypeOK, RingTypeOK, Size, Ahead, Slots

LEMMA SlotType ==
    ASSUME TypeOK, NEW k \in 1 .. HistLen
    PROVE  Slot(k) \in Slots
BY DEF TypeOK, RingTypeOK, Slot, Slots

LEMMA PathType == TypeOK => Path \in Seq(Names) /\ Len(Path) = Size
<1> SUFFICES ASSUME TypeOK PROVE Path \in Seq(Names) /\ Len(Path) = Size
  OBVIOUS
<1>1. Size \in Nat /\ Size < HistLen
  BY SizeType
<1>2. \A k \in 1 .. Size : hist[Slot(k)] \in Names
  BY <1>1, SlotType DEF TypeOK, RingTypeOK
<1>3. Path \in [1 .. Size -> Names]
  BY <1>2 DEF Path
<1> QED
  BY <1>1, <1>3

LEMMA NextTypes ==
    TypeOK' => (Size \in 0 .. HistLen - 1 /\ Path \in Seq(Names) /\ Len(Path) = Size)'
<1>1. TypeOK => Size \in 0 .. HistLen - 1 /\ Path \in Seq(Names) /\ Len(Path) = Size
  BY SizeType, PathType
<1> QED
  BY <1>1, PTL

(***************************************************************************)
(* A remembered slot is on the trail, at the place the mapping says.       *)
(***************************************************************************)
LEMMA PlaceOf ==
    ASSUME TypeOK, intact, NEW i \in Slots, Remembered(i)
    PROVE  /\ 1 + Ahead(i) \in 1 .. Size
           /\ Slot(1 + Ahead(i)) = i
BY DEF TypeOK, RingTypeOK, Size, Ahead, Slot, Remembered, Slots

(***************************************************************************)
(* A new preset: the forward fence moves on, and the back fence with it    *)
(* when the ring is full.                                                  *)
(***************************************************************************)
LEMMA Grows ==
    ASSUME TypeOK, TypeOK', intact, intact', NEW p \in Presets,
           hist' = [hist EXCEPT ![fwd] = p],
           fwd' = After(fwd), back' = PushBack(After(fwd))
    PROVE  Path' = Append(IF Len(Path) > HistLen - 2 THEN Tail(Path) ELSE Path, p)
<1> DEFINE Kept == IF Len(Path) > HistLen - 2 THEN Tail(Path) ELSE Path
<1>1. Path \in Seq(Names) /\ Len(Path) = Size /\ Path' \in Seq(Names) /\ Len(Path') = Size'
  <2>1. Path \in Seq(Names) /\ Len(Path) = Size
    BY PathType
  <2>2. Path' \in Seq(Names) /\ Len(Path') = Size'
    BY NextTypes
  <2> QED
    BY <2>1, <2>2
<1>2. Size \in 0 .. HistLen - 1 /\ Size' \in 0 .. HistLen - 1
  <2>1. Size \in 0 .. HistLen - 1
    BY SizeType
  <2>2. Size' \in 0 .. HistLen - 1
    BY NextTypes
  <2> QED
    BY <2>1, <2>2
<1>3. CASE Size = HistLen - 1
  <2>1. back = After(fwd) /\ back' = After(back)
    BY <1>3 DEF TypeOK, RingTypeOK, Size, Ahead, PushBack, After, Slots
  <2>2. Size' = HistLen - 1
    BY <2>1 DEF TypeOK, RingTypeOK, Size, Ahead, After, Slots
  <2>3. Kept = Tail(Path) /\ Len(Kept) = HistLen - 2 /\ Kept \in Seq(Names)
    BY <1>1, <1>2, <1>3
  <2>4. ASSUME NEW k \in 1 .. HistLen - 2 PROVE Path'[k] = Kept[k]
    <3>1. Slot(k)' = Slot(k + 1) /\ Slot(k + 1) # fwd
      BY <2>1 DEF TypeOK, RingTypeOK, Slot, After, Slots
    <3>2. Path'[k] = hist'[Slot(k)'] /\ Kept[k] = hist[Slot(k + 1)]
      BY <1>1, <1>3, <2>2, <2>3 DEF Path
    <3> QED
      BY <3>1, <3>2 DEF TypeOK, RingTypeOK
  <2>5. Path'[HistLen - 1] = p
    <3>1. Slot(HistLen - 1)' = fwd
      BY <2>1 DEF TypeOK, RingTypeOK, Slot, After, Slots
    <3> QED
      BY <2>2, <3>1 DEF Path, TypeOK, RingTypeOK
  <2> QED
    BY <1>1, <2>2, <2>3, <2>4, <2>5
<1>4. CASE Size < HistLen - 1
  <2>1. back # After(fwd) /\ back' = back
    BY <1>4 DEF TypeOK, RingTypeOK, Size, Ahead, PushBack, After, Slots
  <2>2. Size' = Size + 1
    BY <1>4, <2>1 DEF TypeOK, RingTypeOK, Size, Ahead, After, Slots
  <2>3. Kept = Path
    BY <1>1, <1>2, <1>4
  <2>4. ASSUME NEW k \in 1 .. Size PROVE Path'[k] = Path[k]
    <3>1. Slot(k)' = Slot(k) /\ Slot(k) # fwd
      BY <2>1, <1>2 DEF TypeOK, RingTypeOK, Slot, Slots, Size, Ahead
    <3>2. Path'[k] = hist'[Slot(k)'] /\ Path[k] = hist[Slot(k)]
      BY <1>2, <2>2 DEF Path
    <3> QED
      BY <3>1, <3>2 DEF TypeOK, RingTypeOK
  <2>5. PICK n \in 1 .. HistLen - 1 : n = Size + 1
    BY <1>2, <1>4
  <2>6. Path'[n] = p
    <3>1. Slot(n)' = fwd
      BY <1>2, <2>1, <2>5 DEF TypeOK, RingTypeOK, Slot, Slots, Size, Ahead
    <3>2. Path'[n] = hist'[Slot(n)']
      BY <1>2, <2>2, <2>5 DEF Path
    <3> QED
      BY <3>1, <3>2 DEF TypeOK, RingTypeOK
  <2> QED
    BY <1>1, <1>2, <2>2, <2>3, <2>4, <2>5, <2>6
<1> QED
  BY <1>2, <1>3, <1>4

LEMMA NoTrail == ASSUME ~intact PROVE Path = <<>> /\ Place = 0
BY DEF Path, Place, Size

LEMMA NoTrailNext == (~intact)' => (Path = <<>> /\ Place = 0)'
<1>1. ~intact => Path = <<>> /\ Place = 0
  BY NoTrail
<1> QED
  BY <1>1, PTL

\* What becomes of a load is what the trail says of the preset asked for.
LEMMA LoadAsks ==
    ASSUME NEW t, NEW v \in Verdicts(t), Outcome(t.file, v)
    PROVE  /\ Trail!Ask(t.file)
           /\ v = "refused" => UNCHANGED <<current, pending>>
           /\ v # "refused" => t.file # NoFile
BY DEF Trail!Ask, Outcome, Verdicts

LEMMA LoadLoses ==
    ASSUME TypeOK, NEW t \in AnyTarget, Load(t), ~intact'
    PROVE  TrailStep
<1>1. PICK v \in Verdicts(t) : Outcome(t.file, v)
  BY DEF Load
<1>2. t.file \in Names
  BY TargetsTyped DEF AnyTarget, Target
<1>3. (\E p \in Presets : Trail!Ask(p)) \/ UNCHANGED <<current, pending>>
  BY <1>1, <1>2, LoadAsks DEF Names
<1>4. Path' = <<>> /\ Place' = 0 /\ intact' = FALSE
  <2>1. (~intact)'
    OBVIOUS
  <2>2. intact' \in BOOLEAN
    BY DEF Load
  <2> QED
    BY <2>1, <2>2, NoTrailNext
<1>5. Trail!Lose
  BY <1>3, <1>4 DEF Trail!Lose
<1> QED
  BY <1>5 DEF TrailStep, Trail!Next

LEMMA LoadAdds ==
    ASSUME TypeOK, TypeOK', IntactInv, NEW t \in AnyTarget, Load(t), intact', intact,
           t.at = fwd, t.file # NoFile, Remember(t, TRUE), Trail!Ask(t.file)
    PROVE  TrailStep
<1> USE DEF TypeOK, RingTypeOK
<1>1. ~sequential /\ PosInv
  BY DEF IntactInv
<1>2. /\ t.file \in Presets
      /\ hist' = [hist EXCEPT ![fwd] = t.file] /\ pos' = fwd
      /\ fwd' = After(fwd) /\ back' = PushBack(After(fwd))
  <2>1. t.file \in Names /\ t.file # NoFile
    BY TargetsTyped DEF AnyTarget, Target
  <2> QED
    BY <1>1, <2>1 DEF Remember, Names
<1>3. Path' = Append(IF Len(Path) > HistLen - 2 THEN Tail(Path) ELSE Path, t.file)
  BY <1>2, Grows
<1>4. Size \in 0 .. HistLen - 1 /\ Len(Path) = Size /\ Len(Path') = Size'
  BY SizeType, PathType, NextTypes
<1>5. Place = Size
  <2>1. CASE fwd = back
    BY <2>1 DEF Place, Size, Ahead, Slots
  <2>2. CASE fwd # back
    <3>1. Remembered(pos)
      BY <1>1, <2>2 DEF PosInv
    <3>2. t.at = After(pos)
      BY <1>1, <2>2, <3>1 DEF AnyTarget, PrevTargets, NextTargets, ListTargets, FileTargets,
         Retracing, Remembered, Before, Slots
    <3> QED
      BY <2>2, <3>1, <3>2 DEF Place, Size, Ahead, Remembered, After, Slots
  <2> QED
    BY <2>1, <2>2
<1>6. Place' = Size'
  BY <1>2 DEF Place, Size, Ahead, PushBack, After, Slots
<1>7. Trail!Choose(t.file)
  BY <1>2, <1>3, <1>4, <1>5, <1>6 DEF Trail!Choose
<1> QED
  BY <1>2, <1>7 DEF TrailStep, Trail!Next

LEMMA LoadMoves ==
    ASSUME TypeOK, TypeOK', IntactInv, NEW t \in AnyTarget, Load(t), intact', intact,
           NEW v \in BOOLEAN, ~(v /\ t.at = fwd), Remember(t, v), ~Breaks(t, v),
           v => t.file # NoFile, ~v => UNCHANGED <<current, pending>>, Trail!Ask(t.file)
    PROVE  TrailStep
<1> USE DEF TypeOK, RingTypeOK
<1>1. ~sequential /\ PosInv
  BY DEF IntactInv
<1>2. pos' = t.at /\ UNCHANGED <<hist, fwd, back, sequential>>
  BY DEF Remember
<1>3. intact' = intact
  OBVIOUS
<1>4. Size' = Size /\ Path' = Path
  <2>1. Size' = Size
    BY <1>2, <1>3 DEF Size, Ahead
  <2>2. \A k \in 1 .. Size : Slot(k)' = Slot(k)
    BY <1>2 DEF Slot
  <2> QED
    BY <1>2, <2>1, <2>2 DEF Path
<1>5. v => t.file \in Presets
  BY TargetsTyped DEF AnyTarget, Target, Names
<1>6. CASE fwd = back
  <2>1. t.at = fwd /\ ~v
    BY <1>6 DEF Breaks
  <2>2. pos' = pos
    BY <1>1, <1>2, <1>6, <2>1 DEF PosInv
  <2>3. Place' = Place
    BY <1>2, <1>4, <2>2 DEF Place, Ahead
  <2> QED
    BY <1>3, <1>4, <2>1, <2>3 DEF TrailStep
<1>7. CASE fwd # back
  <2>1. t.at # fwd
    BY <1>7 DEF Breaks
  <2>2. Remembered(pos) /\ Remembered(t.at) /\ t.at \in Slots
    BY <1>1, <1>7, <2>1, TargetsRemembered, TargetsTyped DEF PosInv, AnyTarget, Target
  <2>3. Size \in Nat /\ Len(Path) = Size
    BY SizeType, PathType
  <2>4. /\ Place = 1 + Ahead(pos) /\ Place' = 1 + Ahead(t.at)
        /\ Place' \in 1 .. Size /\ Path[Place'] = hist[t.at]
    <3>1. 1 + Ahead(pos) \in 1 .. Size /\ 1 + Ahead(t.at) \in 1 .. Size
      BY <2>2, PlaceOf
    <3>2. Slot(1 + Ahead(t.at)) = t.at
      BY <2>2, PlaceOf
    <3>3. Size # 0
      BY <2>3, <3>1
    <3>4. Place = 1 + Ahead(pos) /\ Place' = 1 + Ahead(t.at)
      BY <1>2, <1>4, <3>3 DEF Place, Ahead
    <3> QED
      BY <3>1, <3>2, <3>4 DEF Path
  <2>5. CASE t \in PrevTargets
    <3>1. t.at = Before(pos) /\ t.file = hist[t.at] /\ pos # back
      BY <1>1, <2>5 DEF PrevTargets
    <3>2. Place' = Place - 1
      BY <2>2, <2>4, <3>1 DEF Ahead, Before, Remembered, Slots
    <3>3. Trail!Move(Place - 1)
      BY <1>3, <1>4, <2>3, <2>4, <3>1, <3>2 DEF Trail!Move
    <3> QED
      BY <3>3 DEF TrailStep, Trail!Next
  <2>6. CASE t \in NextTargets \cup ListTargets
    <3>1. t.at = After(pos)
      BY <1>1, <1>7, <2>6 DEF NextTargets, ListTargets
    <3>2. Place' = Place + 1
      BY <2>1, <2>2, <2>4, <3>1 DEF Ahead, After, Remembered, Slots
    <3>3. CASE ~v
      <4>1. Trail!Ask(Path[Place + 1])
        BY <3>3 DEF Trail!Ask
      <4>2. Trail!Move(Place + 1)
        BY <1>3, <1>4, <2>3, <2>4, <3>2, <4>1 DEF Trail!Move
      <4> QED
        BY <4>2 DEF TrailStep, Trail!Next
    <3>4. CASE v
      <4>1. t.file \in Presets
        BY <1>5, <3>4
      <4>2. Path # <<>>
        BY <2>3, <2>4
      <4>3. Trail!Show(t.file)
        BY <1>3, <1>4, <2>3, <2>4, <3>2, <4>1, <4>2 DEF Trail!Show
      <4> QED
        BY <4>1, <4>3 DEF TrailStep, Trail!Next
    <3> QED
      BY <3>3, <3>4
  <2>7. CASE t \in FileTargets
    <3>1. Place' = Place
      BY <2>4, <2>7 DEF FileTargets
    <3>2. CASE v
      <4>1. Path # <<>>
        BY <2>3, <2>4
      <4>2. Trail!Show(t.file)
        BY <1>3, <1>4, <2>3, <2>4, <3>1, <3>2, <4>1 DEF Trail!Show
      <4> QED
        BY <1>5, <3>2, <4>2 DEF TrailStep, Trail!Next
    <3>3. CASE ~v
      BY <1>3, <1>4, <3>1, <3>3 DEF TrailStep
    <3> QED
      BY <3>2, <3>3
  <2> QED
    BY <2>5, <2>6, <2>7 DEF AnyTarget
<1> QED
  BY <1>6, <1>7

LEMMA ToggleOnTrail ==
    ASSUME TypeOK, TypeOK', Toggle
    PROVE  TrailStep
<1> USE DEF TypeOK, RingTypeOK, Toggle, ToggleOrder
<1>1. CASE sequential
  <2>1. intact' = TRUE /\ UNCHANGED <<current, pending>>
    BY <1>1
  <2>2. Size' = 1
    BY <1>1 DEF Size, Ahead, Slots
  <2>3. Place' = 1
    BY <2>2 DEF Place, Ahead
  <2>4. Path' = <<current>>
    <3>1. Path' \in Seq(Names) /\ Len(Path') = 1
      BY <2>2, NextTypes
    <3>2. Path'[1] = current
      BY <2>2 DEF Path, Slot, Slots
    <3> QED
      BY <3>1, <3>2
  <2>5. Trail!Restart
    BY <2>1, <2>3, <2>4 DEF Trail!Restart
  <2> QED
    BY <2>5 DEF TrailStep, Trail!Next
<1>2. CASE ~sequential
  <2>1. (~intact)' /\ intact' = FALSE
    BY <1>2
  <2>2. Trail!Lose
    BY <2>1, NoTrailNext DEF Trail!Lose
  <2> QED
    BY <2>2 DEF TrailStep, Trail!Next
<1> QED
  BY <1>1, <1>2

(***************************************************************************)
(* The history implements the trail, for every length of the ring.         *)
(***************************************************************************)
THEOREM HistoryIsTrail == Spec => ImplementsTrail
<1>1. Init => Trail!Init
  <2> SUFFICES ASSUME Init PROVE Trail!Init
    OBVIOUS
  <2>1. Size = 0 /\ intact \in BOOLEAN /\ current = NoFile /\ pending = NoFile
    BY DEF Init, RingInit, Size, Ahead
  <2>2. Path = <<>> /\ Place = 0
    BY <2>1 DEF Path, Place
  <2> QED
    BY <2>1, <2>2 DEF Trail!Init
<1>2. ASSUME IInv, IInv', [Next]_vars
      PROVE  TrailStep
  <2> USE DEF IInv
  <2>1. ASSUME NEW t \in AnyTarget, Load(t)
        PROVE  TrailStep
    <3>1. PICK v \in Verdicts(t) :
            /\ Remember(t, v # "refused")
            /\ Outcome(t.file, v)
            /\ intact' = (intact /\ ~Breaks(t, v # "refused"))
      BY <2>1 DEF Load
    <3>2. CASE ~intact'
      BY <1>2, <2>1, <3>2, LoadLoses
    <3>3. CASE intact'
      <4>1. intact /\ ~Breaks(t, v # "refused")
        BY <3>1, <3>3
      <4>2. Trail!Ask(t.file) /\ (v = "refused" => UNCHANGED <<current, pending>>)
            /\ (v # "refused" => t.file # NoFile)
        BY <3>1, LoadAsks
      <4>3. CASE v # "refused" /\ t.at = fwd
        <5>1. Remember(t, TRUE)
          BY <3>1, <4>3
        <5> QED
          BY <1>2, <2>1, <3>3, <4>1, <4>2, <4>3, <5>1, LoadAdds
      <4>4. CASE ~(v # "refused" /\ t.at = fwd)
        <5>1. PICK w \in BOOLEAN : w = (v # "refused")
          OBVIOUS
        <5>2. ~(w /\ t.at = fwd) /\ Remember(t, w) /\ ~Breaks(t, w)
              /\ (w => t.file # NoFile) /\ (~w => UNCHANGED <<current, pending>>)
          BY <3>1, <4>1, <4>2, <4>4, <5>1
        <5> QED
          BY <1>2, <2>1, <3>3, <4>1, <4>2, <5>2, LoadMoves
      <4> QED
        BY <4>3, <4>4
    <3> QED
      BY <3>2, <3>3
  <2>2. CASE PrevPreset \/ NextPreset \/ OtherLoad
    BY <2>1, <2>2 DEF PrevPreset, NextPreset, OtherLoad, AnyTarget
  <2>3. CASE Toggle
    BY <1>2, <2>3, ToggleOnTrail
  <2>4. ASSUME UNCHANGED <<ring, intact>> PROVE UNCHANGED <<Path, Place, intact>>
    BY <2>4 DEF ring, Path, Place, Size, Slot, Ahead
  <2>5. CASE UNCHANGED vars
    BY <2>4, <2>5 DEF vars, ring, TrailStep
  <2>6. CASE Apply \/ GiveUp
    <3>1. UNCHANGED <<Path, Place, intact>>
      BY <2>4, <2>6 DEF Apply, GiveUp
    <3>2. Trail!Arrive
      BY <2>6, <3>1 DEF Apply, GiveUp, Trail!Arrive
    <3> QED
      BY <3>2 DEF TrailStep, Trail!Next
  <2>7. CASE ClearPreset
    <3>1. UNCHANGED <<Path, Place, intact>>
      BY <2>4, <2>7 DEF ClearPreset
    <3>2. Trail!Clear
      BY <2>7, <3>1 DEF ClearPreset, Trail!Clear
    <3> QED
      BY <3>2 DEF TrailStep, Trail!Next
  <2> QED
    BY <1>2, <2>2, <2>3, <2>5, <2>6, <2>7 DEF Next
<1>3. IInv /\ IInv' /\ [Next]_vars => [Trail!Next]_<<Path, Place, current, pending, intact>>
  BY <1>2 DEF TrailStep
<1> QED
  BY <1>1, <1>3, Inductive, PTL DEF Spec, ImplementsTrail, Trail!Spec, Trail!trailVars
=============================================================================
