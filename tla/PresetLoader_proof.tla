------------------------- MODULE PresetLoader_proof -------------------------
(*****************************************************************************)
(* For any presets and any number of loads: what is on screen is what the    *)
(* program says is on screen, the four states stay four, the status tells    *)
(* whether the compile thread works, a compile that is told to stop had its  *)
(* load given up, a finished compile finds its shaders in the cache, and the *)
(* two halves of a double preset stay together.                              *)
(*****************************************************************************)
EXTENDS PresetLoader, TLAPS

USE KindsAssumption, SwitchesAssumption

\* The state the pending load imported its preset into.
Pending == content[ptr.new]

\* The load that is under way.
LoadInv ==
    /\ loading # 0 => Pending.file = loadingFile
    /\ loading > 1 => status # 1
    /\ CancelHitsItsLoad

\* The shaders of the pending load, as far as the ticks came.
ShaderInv ==
    /\ loading \in {1, 2} => shaders.new = NoShaders
    /\ loading \in 3 .. 5 => shaders.new = LoadOne(NoShaders, Pending)
    /\ loading \in 6 .. 8 => shaders.new = LoadAll(NoShaders, Pending)

IInv == TypeOK /\ StatusTracksThread /\ StatesApart /\ LoadInv /\ ShaderInv /\ Shown

-----------------------------------------------------------------------------
(***************************************************************************)
(* The type invariant in parts.                                            *)
(***************************************************************************)
CallTypeOK == /\ loads \in 0 .. MaxLoads
              /\ rc \in {"idle", "cancel", "reset", "mash"}
              /\ mash \in Names

LoadTypeOK == /\ onDisk \subseteq Presets
              /\ current \in Titles
              /\ loading \in 0 .. 8
              /\ loadingFile \in Names

FlagTypeOK == loadingDouble \in BOOLEAN /\ permanent \in BOOLEAN /\ blending \in BOOLEAN

StateTypeOK == /\ content \in [1 .. 4 -> Contents]
               /\ ptr \in Quad(1 .. 4)
               /\ shaders \in Quad([warp : Contents, comp : Contents])

JobTypeOK == /\ status \in 0 .. 2
             /\ cancel \in 0 .. 1
             /\ thread \in {"none", "exiting", "exited"} \cup Working
             /\ path \in Names
             /\ compiling \in Names

PreTypeOK == /\ pre \in {"idle", "warp", "comp"}
             /\ preFile \in Names
             /\ counted \subseteq Names
             /\ lock \in {"free", "preset", "pre"}
             /\ cached \subseteq Names

LEMMA TypeParts ==
    TypeOK <=> /\ CallTypeOK /\ LoadTypeOK /\ FlagTypeOK
               /\ StateTypeOK /\ JobTypeOK /\ PreTypeOK
BY Zenon DEF TypeOK, CallTypeOK, LoadTypeOK, FlagTypeOK, StateTypeOK, JobTypeOK, PreTypeOK

(***************************************************************************)
(* The data: loading shaders keeps the type of a set of shaders.           *)
(***************************************************************************)
ShaderSets == [warp : Contents, comp : Contents]

LEMMA NamesTyped == Blank \in Contents /\ Whole("cleared") \in Contents /\ NoShaders \in ShaderSets
BY DEF Blank, Whole, Contents, Titles, Names, NoShaders, ShaderSets

LEMMA PresetTyped ==
    ASSUME NEW f \in Presets
    PROVE  Whole(f) \in Contents /\ Half(f, 1) \in Contents /\ Half(f, 2) \in Contents
BY DEF Whole, Half, Contents, Titles, Names

LEMMA LoadOneTyped ==
    ASSUME NEW s \in ShaderSets, NEW c \in Contents
    PROVE  LoadOne(s, c) \in ShaderSets
BY DEF LoadOne, ShaderSets

LEMMA LoadAllTyped ==
    ASSUME NEW s \in ShaderSets, NEW c \in Contents
    PROVE  LoadAll(s, c) \in ShaderSets
BY LoadOneTyped DEF LoadAll

\* A preset without shaders needs none.
LEMMA NothingToLoad ==
    /\ LoadAll(NoShaders, Blank) = NoShaders
    /\ LoadAll(NoShaders, Whole("cleared")) = NoShaders
BY DEF LoadAll, LoadOne, HasShaders, Blank, Whole

\* The pieces of the type invariant the pointers and shaders live in.
LEMMA PtrTyped ==
    ASSUME TypeOK
    PROVE  /\ ptr.state \in 1 .. 4 /\ ptr.old \in 1 .. 4
           /\ ptr.new \in 1 .. 4 /\ ptr.double \in 1 .. 4
           /\ shaders.state \in ShaderSets /\ shaders.old \in ShaderSets
           /\ shaders.new \in ShaderSets /\ shaders.double \in ShaderSets
           /\ content[ptr.state] \in Contents /\ content[ptr.old] \in Contents
           /\ content[ptr.new] \in Contents /\ content[ptr.double] \in Contents
BY DEF TypeOK, Quad, ShaderSets

LEMMA SwappedTyped ==
    ASSUME TypeOK
    PROVE  Swapped(ptr) \in Quad(1 .. 4)
BY PtrTyped DEF Swapped, Quad

LEMMA SwappedShadersTyped ==
    ASSUME NEW s \in Quad(ShaderSets)
    PROVE  SwappedShaders(s) \in Quad(ShaderSets)
BY NamesTyped DEF SwappedShaders, Quad

LEMMA SwappedApart ==
    ASSUME TypeOK, StatesApart, ptr' = Swapped(ptr)
    PROVE  StatesApart'
BY PtrTyped DEF StatesApart, Swapped

-----------------------------------------------------------------------------
LEMMA InitIInv == Init => IInv
<1> SUFFICES ASSUME Init PROVE IInv
  OBVIOUS
<1>1. ptr \in Quad(1 .. 4) /\ StatesApart
  BY DEF Init, Quad, StatesApart
<1>2. shaders \in Quad([warp : Contents, comp : Contents])
  BY NamesTyped DEF Init, Quad, ShaderSets
<1>3. content \in [1 .. 4 -> Contents]
  BY NamesTyped DEF Init
<1>4. TypeOK
  <2>1. CallTypeOK /\ LoadTypeOK /\ JobTypeOK /\ PreTypeOK
    BY DEF Init, CallTypeOK, LoadTypeOK, JobTypeOK, PreTypeOK, Names, Titles
  <2>2. FlagTypeOK
    BY DEF Init, FlagTypeOK
  <2> QED
    BY <1>1, <1>2, <1>3, <2>1, <2>2, TypeParts DEF StateTypeOK
<1>5. Shown
  BY NothingToLoad DEF Init, Shown, Blank, Whole
<1>6. StatusTracksThread /\ LoadInv /\ ShaderInv
  BY DEF Init, StatusTracksThread, Working, LoadInv, CancelHitsItsLoad, ShaderInv
<1> QED
  BY <1>1, <1>4, <1>5, <1>6 DEF IInv

-----------------------------------------------------------------------------
(***************************************************************************)
(* StopPendingPresetCompile, wherever it is called.                        *)
(***************************************************************************)
LEMMA StopKeeps ==
    ASSUME TypeOK, StatusTracksThread, StopPending, UNCHANGED <<path, compiling>>
    PROVE  /\ JobTypeOK' /\ StatusTracksThread'
           /\ status' = 1 => status = 1 /\ cancel' = cancel
BY DEF TypeOK, JobTypeOK, StopPending, Ended, StatusTracksThread, Working

(***************************************************************************)
(* LoadPreset, called with any name.                                       *)
(***************************************************************************)
LEMMA LoadPresetKeeps ==
    ASSUME IInv, NEW f \in Names, LoadPreset(f), CallTypeOK'
    PROVE  IInv'
<1> USE DEF IInv
<1>1. /\ UNCHANGED <<onDisk, precompiler, lock, cached>>
      /\ PreTypeOK'
  BY DEF LoadPreset, precompiler, TypeOK, PreTypeOK
<1>2. CASE permanent' = FALSE /\ TurnedDown(f)
  <2>1. UNCHANGED <<shown, load, blending, job>>
    BY <1>2 DEF TurnedDown
  <2>2. LoadTypeOK' /\ StateTypeOK' /\ JobTypeOK'
    BY <1>1, <2>1 DEF TypeOK, LoadTypeOK, StateTypeOK, JobTypeOK, shown, load, job
  <2>3. FlagTypeOK'
    BY <1>2, <2>1 DEF TypeOK, FlagTypeOK, load
  <2>4. StatusTracksThread' /\ StatesApart' /\ LoadInv' /\ ShaderInv' /\ Shown'
    BY <2>1 DEF StatusTracksThread, StatesApart, LoadInv, CancelHitsItsLoad, ShaderInv,
                Shown, Pending, shown, load, job
  <2> QED
    BY <1>1, <2>2, <2>3, <2>4, TypeParts, PTL
<1>3. CASE Accepts(f) /\ permanent' = FALSE /\ DoubleUnreadable(f)
  <2>1. /\ StopPending
        /\ loadingDouble' = FALSE
        /\ UNCHANGED <<current, content, ptr, shaders, loading, loadingFile, blending,
                       path, compiling>>
    BY <1>3 DEF DoubleUnreadable, shown
  <2>2. JobTypeOK' /\ StatusTracksThread' /\ (status' = 1 => status = 1 /\ cancel' = cancel)
    BY <2>1, StopKeeps
  <2>3. LoadTypeOK' /\ StateTypeOK'
    BY <1>1, <2>1 DEF TypeOK, LoadTypeOK, StateTypeOK
  <2>4. FlagTypeOK'
    BY <1>3, <2>1 DEF TypeOK, FlagTypeOK
  <2>5. StatesApart' /\ LoadInv' /\ ShaderInv' /\ Shown'
    BY <2>1, <2>2 DEF StatesApart, LoadInv, CancelHitsItsLoad, ShaderInv, Shown, Pending
  <2> QED
    BY <1>1, <2>2, <2>3, <2>4, <2>5, TypeParts, PTL
<1>4. CASE Accepts(f) /\ permanent' = FALSE /\ LoadDouble(f)
  <2>1. /\ StopPending
        /\ f \in Presets
        /\ loading' = 1 /\ loadingFile' = f /\ loadingDouble' = TRUE
        /\ content' = [content EXCEPT ![ptr.double] = Half(f, 1), ![ptr.new] = Half(f, 2)]
        /\ shaders' = [shaders EXCEPT !.new = NoShaders,
                                      !.double = LoadAll(NoShaders, Half(f, 1))]
        /\ UNCHANGED <<current, ptr, blending, path, compiling>>
    BY <1>4 DEF LoadDouble
  <2>2. JobTypeOK' /\ StatusTracksThread' /\ (status' = 1 => status = 1 /\ cancel' = cancel)
    BY <2>1, StopKeeps
  <2>3. LoadAll(NoShaders, Half(f, 1)) \in ShaderSets
    BY <2>1, LoadAllTyped, NamesTyped, PresetTyped
  <2>4. LoadTypeOK'
    BY <1>1, <2>1 DEF TypeOK, LoadTypeOK, Names
  <2>5. StateTypeOK'
    BY <2>1, <2>3, PresetTyped, NamesTyped, PtrTyped DEF TypeOK, StateTypeOK, Quad, ShaderSets
  <2>6. FlagTypeOK'
    BY <1>4, <2>1 DEF TypeOK, FlagTypeOK
  <2>7. /\ content'[ptr.new] = Half(f, 2)
        /\ content'[ptr.state] = content[ptr.state]
        /\ shaders'.new = NoShaders /\ shaders'.state = shaders.state
    BY <2>1, PtrTyped DEF TypeOK, StatesApart, Quad
  <2>8. status # 1
    BY <1>4 DEF Accepts
  <2>9. StatesApart' /\ LoadInv' /\ ShaderInv' /\ Shown'
    BY <2>1, <2>2, <2>7, <2>8 DEF StatesApart, LoadInv, CancelHitsItsLoad, ShaderInv, Shown,
                                  Pending, Half
  <2> QED
    BY <1>1, <2>2, <2>4, <2>5, <2>6, <2>9, TypeParts, PTL
<1>5. CASE Accepts(f) /\ permanent' = FALSE /\ (LoadInBackground(f) \/ LoadSlowly(f))
  <2>1. /\ f \in Presets
        /\ loading' = 1 /\ loadingFile' = f
        /\ content' = [content EXCEPT ![ptr.new] = Whole(f)]
        /\ shaders' = [shaders EXCEPT !.new = NoShaders]
        /\ UNCHANGED <<current, ptr, blending, loadingDouble, compiling>>
    BY <1>5 DEF LoadInBackground, LoadSlowly, Import
  <2>2. /\ JobTypeOK' /\ StatusTracksThread' /\ (status' = 1 => cancel' = 0)
    <3>1. CASE LoadInBackground(f)
      BY <2>1, <3>1 DEF LoadInBackground, TypeOK, JobTypeOK, StatusTracksThread, Working, Names,
                        Ended
    <3>2. CASE LoadSlowly(f)
      BY <1>5, <3>2, StopKeeps DEF LoadSlowly, Accepts
    <3> QED
      BY <1>5, <3>1, <3>2
  <2>3. LoadTypeOK'
    BY <1>1, <2>1 DEF TypeOK, LoadTypeOK, Names
  <2>4. StateTypeOK'
    BY <2>1, PresetTyped, NamesTyped, PtrTyped DEF TypeOK, StateTypeOK, Quad, ShaderSets
  <2>5. FlagTypeOK'
    BY <1>5, <2>1 DEF TypeOK, FlagTypeOK
  <2>6. /\ content'[ptr.new] = Whole(f)
        /\ content'[ptr.state] = content[ptr.state]
        /\ shaders'.new = NoShaders /\ shaders'.state = shaders.state
    BY <2>1, PtrTyped DEF TypeOK, StatesApart, Quad
  <2>7. StatesApart' /\ LoadInv' /\ ShaderInv' /\ Shown'
    BY <2>1, <2>2, <2>6 DEF StatesApart, LoadInv, CancelHitsItsLoad, ShaderInv, Shown,
                            Pending, Whole
  <2> QED
    BY <1>1, <2>2, <2>3, <2>4, <2>5, <2>7, TypeParts, PTL
<1>6. CASE Accepts(f) /\ LoadAtOnce(f)
  <2> DEFINE s == [shaders EXCEPT !.new = LoadAll(NoShaders, Whole(f))]
  <2>1. /\ f \in Presets
        /\ StopPending
        /\ content' = [content EXCEPT ![ptr.new] = Whole(f)]
        /\ ApplyLoad(f, s, FALSE)
        /\ UNCHANGED <<path, compiling>>
    BY <1>6 DEF LoadAtOnce, Import
  <2>2. JobTypeOK' /\ StatusTracksThread'
    BY <2>1, StopKeeps
  <2>3. LoadAll(NoShaders, Whole(f)) \in ShaderSets
    BY <2>1, LoadAllTyped, NamesTyped, PresetTyped
  <2>4. s \in Quad(ShaderSets) /\ s.new = LoadAll(NoShaders, Whole(f))
    BY <2>3 DEF TypeOK, Quad, ShaderSets
  <2> HIDE DEF s
  <2>5. /\ ptr' = Swapped(ptr) /\ shaders' = SwappedShaders(s)
        /\ current' = f /\ loading' = 0 /\ loadingFile' = NoFile
        /\ loadingDouble' = FALSE /\ permanent' = loadingDouble
        /\ blending' = (loadingDouble \/ FALSE)
    BY <2>1 DEF ApplyLoad
  <2>6. LoadTypeOK'
    BY <1>1, <2>1, <2>5 DEF TypeOK, LoadTypeOK, Names, Titles
  <2>7. FlagTypeOK'
    BY <2>5 DEF TypeOK, FlagTypeOK
  <2>8. StateTypeOK'
    BY <2>1, <2>4, <2>5, PresetTyped, SwappedTyped, SwappedShadersTyped
       DEF TypeOK, StateTypeOK, ShaderSets
  <2>9. StatesApart'
    BY <2>5, SwappedApart
  <2>10. Shown'
    <3>1. ptr'.state = ptr.new /\ shaders'.state = s.new
      BY <2>5 DEF Swapped, SwappedShaders
    <3>2. content'[ptr.new] = Whole(f)
      BY <2>1, PtrTyped DEF TypeOK
    <3> QED
      BY <2>4, <2>5, <3>1, <3>2 DEF Shown, Whole
  <2>11. LoadInv' /\ ShaderInv'
    BY <2>5 DEF LoadInv, CancelHitsItsLoad, ShaderInv
  <2> QED
    BY <1>1, <2>2, <2>6, <2>7, <2>8, <2>9, <2>10, <2>11, TypeParts, PTL
<1> QED
  BY <1>2, <1>3, <1>4, <1>5, <1>6 DEF LoadPreset

-----------------------------------------------------------------------------
(***************************************************************************)
(* The last tick and the device reset put the pending state on screen.     *)
(***************************************************************************)
LEMMA SwapShows ==
    ASSUME IInv, loading # 0, ptr' = Swapped(ptr), current' = loadingFile,
           UNCHANGED content, loading' = 0,
           shaders'.state = LoadAll(NoShaders, Pending)
    PROVE  StatesApart' /\ Shown' /\ LoadInv' /\ ShaderInv'
<1> USE DEF IInv
<1>1. StatesApart'
  BY SwappedApart
<1>2. Shown'
  BY DEF Shown, LoadInv, Pending, Swapped
<1>3. LoadInv' /\ ShaderInv'
  BY DEF LoadInv, CancelHitsItsLoad, ShaderInv
<1> QED
  BY <1>1, <1>2, <1>3

LEMMA TickKeeps == IInv /\ Tick => IInv'
<1> SUFFICES ASSUME IInv, Tick PROVE IInv'
  OBVIOUS
<1> USE DEF IInv
<1>1. /\ loading \in 1 .. 7 /\ ~(loading = 1 /\ status = 1)
      /\ loading' = loading + 1
      /\ shaders' = IF loading \in {2, 5}
                     THEN [shaders EXCEPT !.new = LoadOne(shaders.new, Pending)] ELSE shaders
      /\ UNCHANGED <<onDisk, loads, current, content, ptr, loadingFile, loadingDouble,
                     permanent, blending, rc, mash, path, compiling, precompiler, lock, cached>>
  BY DEF Tick, TickDue, Pending
<1>2. /\ JobTypeOK' /\ StatusTracksThread'
      /\ status' = 1 => status = 1 /\ cancel' = cancel
  BY <1>1, StopKeeps DEF Tick, StatusTracksThread, TypeOK, JobTypeOK
<1>3. CallTypeOK' /\ LoadTypeOK' /\ PreTypeOK'
  BY <1>1 DEF TypeOK, CallTypeOK, LoadTypeOK, PreTypeOK, precompiler
<1>4. FlagTypeOK'
  BY <1>1 DEF TypeOK, FlagTypeOK
<1>5. LoadOne(shaders.new, Pending) \in ShaderSets
  BY LoadOneTyped, PtrTyped DEF Pending
<1>6. StateTypeOK'
  BY <1>1, <1>5 DEF TypeOK, StateTypeOK, Quad, ShaderSets
<1>7. shaders'.state = shaders.state
  BY <1>1 DEF TypeOK, Quad
<1>8. StatesApart' /\ Shown' /\ LoadInv'
  BY <1>1, <1>2, <1>7 DEF TypeOK, StatesApart, Shown, LoadInv, CancelHitsItsLoad, Pending
<1>9. ShaderInv'
  <2>1. CASE loading \in {2, 5}
    <3>1. shaders'.new = LoadOne(shaders.new, Pending)
      BY <1>1, <2>1 DEF TypeOK, Quad
    <3> QED
      BY <1>1, <2>1, <3>1 DEF ShaderInv, LoadAll, Pending
  <2>2. CASE loading \notin {2, 5}
    BY <1>1, <2>2 DEF TypeOK, ShaderInv, Pending
  <2> QED
    BY <2>1, <2>2
<1> QED
  BY <1>2, <1>3, <1>4, <1>6, <1>8, <1>9, TypeParts, PTL

LEMMA TickAppliesKeeps == IInv /\ TickApplies => IInv'
<1> SUFFICES ASSUME IInv, TickApplies PROVE IInv'
  OBVIOUS
<1> USE DEF IInv
<1>1. PICK b \in BOOLEAN : ApplyLoad(loadingFile, shaders, b)
  BY DEF TickApplies
<1>2. /\ loading = 8 /\ StopPending
      /\ UNCHANGED <<onDisk, loads, content, rc, mash, path, compiling,
                     precompiler, lock, cached>>
  BY DEF TickApplies
<1>3. /\ ptr' = Swapped(ptr) /\ shaders' = SwappedShaders(shaders)
      /\ current' = loadingFile /\ loading' = 0 /\ loadingFile' = NoFile
      /\ loadingDouble' = FALSE /\ permanent' = loadingDouble
      /\ blending' = (loadingDouble \/ b)
  BY <1>1 DEF ApplyLoad
<1>4. JobTypeOK' /\ StatusTracksThread'
  BY <1>2, StopKeeps
<1>5. CallTypeOK' /\ LoadTypeOK' /\ PreTypeOK'
  BY <1>2, <1>3 DEF TypeOK, CallTypeOK, LoadTypeOK, PreTypeOK, precompiler, Names, Titles
<1>6. FlagTypeOK'
  BY <1>3 DEF TypeOK, FlagTypeOK
<1>7. StateTypeOK'
  BY <1>2, <1>3, SwappedTyped, SwappedShadersTyped DEF TypeOK, StateTypeOK, ShaderSets
<1>8. shaders'.state = LoadAll(NoShaders, Pending)
  BY <1>2, <1>3 DEF SwappedShaders, ShaderInv
<1>9. StatesApart' /\ Shown' /\ LoadInv' /\ ShaderInv'
  BY <1>2, <1>3, <1>8, SwapShows
<1> QED
  BY <1>4, <1>5, <1>6, <1>7, <1>9, TypeParts, PTL

LEMMA ResetKeeps == IInv /\ ResetDevice => IInv'
<1> SUFFICES ASSUME IInv, ResetDevice PROVE IInv'
  OBVIOUS
<1> USE DEF IInv
<1>1. /\ StopPending /\ blending' = permanent'
      /\ shaders' = ShadersAfterReset(content, ptr', permanent')
      /\ rc' = "idle"
      /\ UNCHANGED <<onDisk, loads, content, mash, path, compiling,
                     precompiler, lock, cached>>
  BY DEF ResetDevice
<1>2. JobTypeOK' /\ StatusTracksThread' /\ (status' = 1 => status = 1 /\ cancel' = cancel)
  BY <1>1, StopKeeps
<1>3. CallTypeOK' /\ PreTypeOK'
  BY <1>1 DEF TypeOK, CallTypeOK, PreTypeOK, precompiler
<1>4. /\ ptr' \in Quad(1 .. 4) /\ LoadTypeOK'
      /\ loadingDouble' \in BOOLEAN /\ permanent' \in BOOLEAN
  <2>1. CASE loading = 0
    BY <1>1, <2>1 DEF ResetDevice, TypeOK, LoadTypeOK, load
  <2>2. CASE loading # 0
    <3>1. ptr' \in Quad(1 .. 4) /\ LoadTypeOK'
      BY <1>1, <2>2, SwappedTyped DEF ResetDevice, TypeOK, LoadTypeOK, Names, Titles
    <3>2. loadingDouble' \in BOOLEAN /\ permanent' \in BOOLEAN
      BY <2>2 DEF ResetDevice, TypeOK
    <3> QED
      BY <3>1, <3>2
  <2> QED
    BY <2>1, <2>2
<1>5. FlagTypeOK'
  BY <1>1, <1>4 DEF FlagTypeOK
<1>6. /\ content[ptr'.state] \in Contents /\ content[ptr'.old] \in Contents
  BY <1>4 DEF TypeOK, Quad
<1>7. /\ LoadAll(NoShaders, content[ptr'.state]) \in ShaderSets
      /\ LoadAll(NoShaders, content[ptr'.old]) \in ShaderSets
  BY <1>6, LoadAllTyped, NamesTyped
<1>8. SwappedShaders(shaders).double \in ShaderSets
  BY SwappedShadersTyped DEF TypeOK, Quad, ShaderSets
<1>9. /\ shaders' \in Quad(ShaderSets)
      /\ shaders'.state = LoadAll(NoShaders, content[ptr'.state])
      /\ shaders'.new = NoShaders
  BY <1>1, <1>7, <1>8, NamesTyped, PtrTyped DEF ShadersAfterReset, TypeOK, Quad, ShaderSets
<1>10. StateTypeOK'
  BY <1>1, <1>4, <1>9 DEF TypeOK, StateTypeOK, ShaderSets
<1>11. StatesApart' /\ Shown' /\ LoadInv' /\ ShaderInv'
  <2>1. CASE loading = 0
    <3>1. UNCHANGED <<current, ptr, load>>
      BY <2>1 DEF ResetDevice
    <3> QED
      BY <1>1, <1>2, <1>9, <2>1, <3>1 DEF StatesApart, Shown, LoadInv, CancelHitsItsLoad,
                                          ShaderInv, Pending, load
  <2>2. CASE loading # 0
    <3>1. current' = loadingFile /\ ptr' = Swapped(ptr) /\ loading' = 0
      BY <2>2 DEF ResetDevice
    <3>2. shaders'.state = LoadAll(NoShaders, Pending)
      BY <1>9, <3>1 DEF Swapped, Pending
    <3> QED
      BY <1>1, <2>2, <3>1, <3>2, SwapShows
  <2> QED
    BY <2>1, <2>2
<1> QED
  BY <1>2, <1>3, <1>4, <1>5, <1>10, <1>11, TypeParts, PTL

-----------------------------------------------------------------------------
(***************************************************************************)
(* The rest of the render thread.                                          *)
(***************************************************************************)
LEMMA ClearKeeps == IInv /\ ClearPreset => IInv'
<1> SUFFICES ASSUME IInv, ClearPreset PROVE IInv'
  OBVIOUS
<1> USE DEF IInv
<1>1. /\ content' = [content EXCEPT ![ptr.state] = Whole("cleared")]
      /\ current' = "cleared" /\ blending' = FALSE
      /\ shaders' = [shaders EXCEPT !.old = shaders.state, !.state = NoShaders]
      /\ UNCHANGED <<onDisk, loads, ptr, load, permanent, rc, mash, job,
                     precompiler, lock, cached>>
  BY DEF ClearPreset
<1>2. CallTypeOK' /\ LoadTypeOK' /\ JobTypeOK' /\ PreTypeOK'
  BY <1>1 DEF TypeOK, CallTypeOK, LoadTypeOK, JobTypeOK, PreTypeOK, precompiler, load, job, Titles
<1>3. FlagTypeOK'
  BY <1>1 DEF TypeOK, FlagTypeOK, load
<1>4. StateTypeOK'
  BY <1>1, PtrTyped, NamesTyped DEF TypeOK, StateTypeOK, Quad, ShaderSets
<1>5. /\ content'[ptr.state] = Whole("cleared")
      /\ content'[ptr.new] = content[ptr.new]
      /\ shaders'.new = shaders.new /\ shaders'.state = NoShaders
  BY <1>1, PtrTyped DEF TypeOK, Quad, StatesApart
<1>6. StatusTracksThread' /\ StatesApart' /\ LoadInv' /\ ShaderInv'
  BY <1>1, <1>5 DEF StatusTracksThread, StatesApart, LoadInv, CancelHitsItsLoad, ShaderInv,
                    Pending, load, job
<1>7. Shown'
  BY <1>1, <1>5, NothingToLoad DEF Shown, Whole
<1> QED
  BY <1>2, <1>3, <1>4, <1>6, <1>7, TypeParts, PTL

LEMMA SmallStepsKeep ==
    ASSUME IInv, BlendEnds \/ CancelReads \/ ResetWaits \/ CancelPendingPresetLoad
                 \/ FileVanishes
    PROVE  IInv'
<1> USE DEF IInv
<1>1. /\ UNCHANGED <<shown, permanent, thread, path, compiling, precompiler, lock, cached>>
      /\ status' = status /\ onDisk' \subseteq onDisk
      /\ UNCHANGED <<loads, mash>> /\ rc' \in {rc, "cancel", "reset", "idle"}
      /\ \/ UNCHANGED <<load, cancel>>
         \/ GiveUp /\ cancel' = 1
      /\ blending' \in {blending, FALSE}
  BY DEF BlendEnds, CancelReads, ResetWaits, CancelPendingPresetLoad, FileVanishes, AskToStop,
         GiveUp, job
<1>2. CallTypeOK' /\ PreTypeOK' /\ JobTypeOK'
  BY <1>1 DEF TypeOK, CallTypeOK, PreTypeOK, JobTypeOK, precompiler
<1>3. LoadTypeOK' /\ StateTypeOK'
  BY <1>1 DEF TypeOK, LoadTypeOK, StateTypeOK, load, GiveUp, shown, Names
<1>4. FlagTypeOK'
  BY <1>1 DEF TypeOK, FlagTypeOK, load, GiveUp
<1>5. StatusTracksThread' /\ StatesApart' /\ LoadInv' /\ ShaderInv' /\ Shown'
  BY <1>1 DEF StatusTracksThread, StatesApart, LoadInv, CancelHitsItsLoad, ShaderInv, Shown,
              Pending, GiveUp, load, shown
<1> QED
  BY <1>2, <1>3, <1>4, <1>5, TypeParts, PTL

(***************************************************************************)
(* Neither the compile thread nor the precompiler touches what the render  *)
(* thread keeps.                                                           *)
(***************************************************************************)
LEMMA ThreadsKeep == IInv /\ (Thread \/ Precompiler) => IInv'
<1> SUFFICES ASSUME IInv, Thread \/ Precompiler PROVE IInv'
  OBVIOUS
<1> USE DEF IInv
<1>1. UNCHANGED render
  BY DEF Thread, ThreadStarts, ThreadLocks, ThreadWarp, ThreadComp, ThreadUnlocks, ThreadClears,
         ThreadMarks, ThreadExits, Precompiler, PrecompileLocks, PrecompileWarp, PrecompileComp
<1>2. CallTypeOK' /\ LoadTypeOK' /\ StateTypeOK' /\ FlagTypeOK'
  BY <1>1, TypeParts DEF render, shown, load, CallTypeOK, LoadTypeOK, StateTypeOK, FlagTypeOK
<1>3. /\ JobTypeOK' /\ PreTypeOK' /\ StatusTracksThread'
      /\ cancel' = 1 /\ status' = 1 => cancel = 1 /\ status = 1
      /\ loading > 1 => status' # 1
  <2>0. JobTypeOK /\ PreTypeOK
    BY TypeParts
  <2> USE <2>0 DEF JobTypeOK, PreTypeOK, StatusTracksThread, Working, LoadInv
  <2>1. CASE ThreadStarts
    BY <1>1, <2>1 DEF ThreadStarts, render, precompiler
  <2>2. CASE ThreadLocks
    BY <1>1, <2>2 DEF ThreadLocks, render, precompiler
  <2>3. CASE ThreadWarp
    BY <1>1, <2>3 DEF ThreadWarp, render, precompiler
  <2>4. CASE ThreadComp
    BY <1>1, <2>4 DEF ThreadComp, render, precompiler
  <2>5. CASE ThreadUnlocks
    BY <1>1, <2>5 DEF ThreadUnlocks, render, precompiler
  <2>6. CASE ThreadClears
    BY <1>1, <2>6 DEF ThreadClears, render, precompiler
  <2>7. CASE ThreadMarks
    BY <1>1, <2>7 DEF ThreadMarks, render, precompiler
  <2>8. CASE ThreadExits
    BY <1>1, <2>8 DEF ThreadExits, render, precompiler
  <2>9. CASE PrecompileLocks
    BY <1>1, <2>9, KindsAssumption DEF PrecompileLocks, render, job, Names
  <2>10. CASE PrecompileWarp
    BY <1>1, <2>10 DEF PrecompileWarp, render, job
  <2>11. CASE PrecompileComp
    BY <1>1, <2>11 DEF PrecompileComp, render, job
  <2> QED
    BY <2>1, <2>2, <2>3, <2>4, <2>5, <2>6, <2>7, <2>8, <2>9, <2>10, <2>11 DEF Thread, Precompiler
<1>4. StatesApart' /\ LoadInv' /\ ShaderInv' /\ Shown'
  BY <1>1, <1>3 DEF render, shown, load, StatesApart, LoadInv, CancelHitsItsLoad, ShaderInv,
                    Shown, Pending
<1> QED
  BY <1>2, <1>3, <1>4, TypeParts, PTL

-----------------------------------------------------------------------------
LEMMA NextIInv == IInv /\ [Next]_vars => IInv'
<1> SUFFICES ASSUME IInv, [Next]_vars PROVE IInv'
  OBVIOUS
<1>1. CASE Request
  <2>1. PICK f \in Presets : LoadPreset(f)
    BY <1>1 DEF Request
  <2>2. CallTypeOK'
    BY <1>1 DEF Request, Ask, IInv, TypeOK, CallTypeOK
  <2> QED
    BY <2>1, <2>2, LoadPresetKeeps DEF Names
<1>2. CASE RandomizeShader
  <2>1. PICK f \in Presets : LoadPreset(f)
    BY <1>2 DEF RandomizeShader
  <2>2. CallTypeOK'
    BY <1>2 DEF RandomizeShader, Ask, IInv, TypeOK, CallTypeOK, Names
  <2> QED
    BY <2>1, <2>2, LoadPresetKeeps DEF Names
<1>3. CASE ReloadPreset
  <2>1. CallTypeOK' /\ mash \in Names
    BY <1>3 DEF ReloadPreset, IInv, TypeOK, CallTypeOK, Names
  <2> QED
    BY <1>3, <2>1, LoadPresetKeeps DEF ReloadPreset
<1>4. CASE UNCHANGED vars
  <2>1. UNCHANGED <<render, job, precompiler, lock, cached>>
    BY <1>4 DEF vars, render, job
  <2>2. CallTypeOK' /\ LoadTypeOK' /\ StateTypeOK' /\ FlagTypeOK' /\ JobTypeOK' /\ PreTypeOK'
    BY <2>1, TypeParts DEF IInv, render, shown, load, job, precompiler, CallTypeOK, LoadTypeOK,
                           StateTypeOK, FlagTypeOK, JobTypeOK, PreTypeOK
  <2>3. StatusTracksThread' /\ StatesApart' /\ LoadInv' /\ ShaderInv' /\ Shown'
    BY <2>1 DEF IInv, render, shown, load, job, StatusTracksThread, StatesApart, LoadInv,
                CancelHitsItsLoad, ShaderInv, Shown, Pending
  <2> QED
    BY <2>2, <2>3, TypeParts, PTL DEF IInv
<1> QED
  BY <1>1, <1>2, <1>3, <1>4, TickKeeps, TickAppliesKeeps, ResetKeeps, ClearKeeps,
     SmallStepsKeep, ThreadsKeep DEF Next

THEOREM Inductive == Spec => []IInv
BY InitIInv, NextIInv, PTL DEF Spec

(***************************************************************************)
(* The loader's variables keep their types.                                *)
(***************************************************************************)
THEOREM TypeCorrect == Spec => []TypeOK
BY Inductive, PTL DEF IInv

(***************************************************************************)
(* The preset the program reports is the one on screen, with its own       *)
(* shaders, through every cancel, replacement and device reset.            *)
(***************************************************************************)
THEOREM ShowsCurrent == Spec => []Shown
BY Inductive, PTL DEF IInv

(***************************************************************************)
(* The four state pointers never meet.                                     *)
(***************************************************************************)
THEOREM StatesStayApart == Spec => []StatesApart
BY Inductive, PTL DEF IInv

(***************************************************************************)
(* The status is 1 exactly while the compile thread works, so only a       *)
(* device reset ever waits for a compile.                                  *)
(***************************************************************************)
THEOREM StatusTracks == Spec => []StatusTracksThread
BY Inductive, PTL DEF IInv

(***************************************************************************)
(* A compile that is told to stop has no load waiting for it.              *)
(***************************************************************************)
THEOREM CancelsOwnLoad == Spec => []CancelHitsItsLoad
BY Inductive, PTL DEF IInv, LoadInv

-----------------------------------------------------------------------------
(***************************************************************************)
(* The shader cache.  While the load of a preset that is compiled in the   *)
(* background has not come to its second tick, its shaders are cached or   *)
(* the compile thread is still on its way to them; nobody else told it to  *)
(* stop, for a compile is cancelled together with its load.                *)
(***************************************************************************)
OnItsWay(f) == /\ thread \in {"started", "locking", "warp", "comp"}
               /\ path = f
               /\ thread # "started" => compiling = f

Compiled(f) == Caching /\ f \in Shaded \ Unstarted => f \in cached \/ OnItsWay(f)

CacheInv == loading # 0 => Compiled(Pending.file)

LEMMA InitCacheInv == Init => CacheInv
BY DEF Init, CacheInv

\* A load in the background starts the thread for its file; no other load is of such a file.
LEMMA LoadCaches ==
    ASSUME IInv, CacheInv, NEW f \in Names, LoadPreset(f)
    PROVE  CacheInv'
<1> USE DEF IInv
<1>0. cached' = cached
  BY DEF LoadPreset
<1>1. CASE TurnedDown(f)
  BY <1>0, <1>1 DEF TurnedDown, shown, load, job, CacheInv, Compiled, OnItsWay, Pending
<1>2. CASE Accepts(f) /\ DoubleUnreadable(f)
  <2>1. status # 1 /\ thread \notin Working
    BY <1>2 DEF Accepts, StatusTracksThread
  <2>2. UNCHANGED <<content, ptr, loading>>
    BY <1>2 DEF DoubleUnreadable, shown
  <2> QED
    BY <1>0, <2>1, <2>2 DEF CacheInv, Compiled, OnItsWay, Pending, Working
<1>3. CASE LoadDouble(f)
  <2>1. f \in Double /\ content'[ptr'.new] = Half(f, 2)
    BY <1>3, PtrTyped DEF LoadDouble, TypeOK
  <2> QED
    BY <2>1 DEF CacheInv, Compiled, Pending, Half
<1>4. CASE LoadInBackground(f)
  <2>1. content'[ptr'.new] = Whole(f) /\ path' = f
        /\ (thread' = "started" \/ f \in Unstarted)
    BY <1>4, PtrTyped DEF LoadInBackground, Import, TypeOK
  <2> QED
    BY <2>1 DEF CacheInv, Compiled, OnItsWay, Pending, Whole
<1>5. CASE LoadSlowly(f)
  <2>1. content'[ptr'.new] = Whole(f) /\ ~(Caching /\ f \in Shaded)
    BY <1>5, PtrTyped DEF LoadSlowly, Background, Import, TypeOK
  <2> QED
    BY <2>1 DEF CacheInv, Compiled, Pending, Whole
<1>6. CASE LoadAtOnce(f)
  BY <1>6 DEF LoadAtOnce, ApplyLoad, CacheInv
<1> QED
  BY <1>1, <1>2, <1>3, <1>4, <1>5, <1>6 DEF LoadPreset

LEMMA ThreadCaches == ASSUME IInv, CacheInv, Thread \/ Precompiler PROVE CacheInv'
<1> USE DEF IInv
<1>1. UNCHANGED <<loading, path>> /\ UNCHANGED Pending
  BY DEF Thread, ThreadStarts, ThreadLocks, ThreadWarp, ThreadComp, ThreadUnlocks, ThreadClears,
         ThreadMarks, ThreadExits, Precompiler, PrecompileLocks, PrecompileWarp, PrecompileComp,
         render, load, shown, Pending
<1>2. SUFFICES ASSUME loading # 0, Caching, Pending.file \in Shaded \ Unstarted,
                      Pending.file \notin cached
               PROVE  Pending.file \in cached' \/ OnItsWay(Pending.file)'
  <2>1. CASE Pending.file \in cached
    <3>1. cached \subseteq cached'
      BY DEF Thread, ThreadStarts, ThreadLocks, ThreadWarp, ThreadComp, ThreadUnlocks,
             ThreadClears, ThreadMarks, ThreadExits, Precompiler, PrecompileLocks,
             PrecompileWarp, PrecompileComp
    <3> QED
      BY <1>1, <2>1, <3>1 DEF CacheInv, Compiled
  <2> QED
    BY <1>1, <2>1 DEF CacheInv, Compiled, OnItsWay
<1>3. OnItsWay(Pending.file)
  BY <1>2 DEF CacheInv, Compiled
<1>4. status = 1 /\ cancel # 1
  BY <1>2, <1>3 DEF OnItsWay, StatusTracksThread, Working, LoadInv, CancelHitsItsLoad
<1>5. CASE ThreadStarts
  BY <1>1, <1>3, <1>5 DEF ThreadStarts, OnItsWay
<1>6. CASE ThreadLocks
  BY <1>1, <1>3, <1>6 DEF ThreadLocks, OnItsWay
<1>7. CASE ThreadWarp
  BY <1>1, <1>3, <1>4, <1>7 DEF ThreadWarp, OnItsWay
<1>8. CASE ThreadComp
  BY <1>1, <1>3, <1>4, <1>8 DEF ThreadComp, OnItsWay
<1>9. CASE ThreadUnlocks \/ ThreadClears \/ ThreadMarks \/ ThreadExits
  BY <1>3, <1>9 DEF ThreadUnlocks, ThreadClears, ThreadMarks, ThreadExits, OnItsWay
<1>10. CASE Precompiler
  BY <1>1, <1>3, <1>10 DEF Precompiler, PrecompileLocks, PrecompileWarp, PrecompileComp, job,
                           OnItsWay
<1> QED
  BY <1>5, <1>6, <1>7, <1>8, <1>9, <1>10 DEF Thread

LEMMA StepCacheInv == IInv /\ CacheInv /\ [Next]_vars => CacheInv'
<1> SUFFICES ASSUME IInv, CacheInv, [Next]_vars PROVE CacheInv'
  OBVIOUS
<1> USE DEF IInv
<1>1. CASE Request \/ RandomizeShader
  BY <1>1, LoadCaches DEF Request, RandomizeShader, Names
<1>2. CASE ReloadPreset
  BY <1>2, LoadCaches DEF ReloadPreset, TypeOK
<1>3. CASE ClearPreset
  <2>1. UNCHANGED <<loading, thread, path, compiling, cached>>
    BY <1>3 DEF ClearPreset, load, job
  <2>2. UNCHANGED Pending
    BY <1>3, PtrTyped DEF ClearPreset, Pending, StatesApart, TypeOK
  <2> QED
    BY <2>1, <2>2 DEF CacheInv, Compiled, OnItsWay
<1>4. CASE Tick
  <2>1. /\ loading # 0 /\ UNCHANGED <<content, ptr, cached, path, compiling>>
        /\ thread' = thread \/ thread \notin Working
    BY <1>4 DEF Tick, TickDue, StopPending, Ended, Working
  <2> QED
    BY <2>1 DEF CacheInv, Compiled, OnItsWay, Pending, Working
<1>5. CASE TickApplies \/ ResetDevice \/ CancelPendingPresetLoad
  BY <1>5 DEF TickApplies, ApplyLoad, ResetDevice, load, CancelPendingPresetLoad, GiveUp, CacheInv
<1>6. CASE BlendEnds \/ CancelReads \/ ResetWaits \/ FileVanishes \/ UNCHANGED vars
  <2>1. UNCHANGED <<content, ptr, loading, thread, path, compiling, cached>>
    BY <1>6 DEF BlendEnds, CancelReads, ResetWaits, FileVanishes, vars, shown, load, job
  <2> QED
    BY <2>1 DEF CacheInv, Compiled, OnItsWay, Pending
<1> QED
  BY <1>1, <1>2, <1>3, <1>4, <1>5, <1>6, ThreadCaches DEF Next

(***************************************************************************)
(* Once a load in the background goes on, the render thread finds its      *)
(* shaders in the cache, for any presets and any order of cancels.         *)
(***************************************************************************)
THEOREM FindsCache == Spec => []RenderFindsCache
<1>1. IInv /\ CacheInv => RenderFindsCache
  BY DEF IInv, LoadInv, StatusTracksThread, Working, CacheInv, Compiled, OnItsWay, Pending,
         RenderFindsCache, TypeOK
<1> QED
  BY <1>1, InitIInv, NextIInv, InitCacheInv, StepCacheInv, PTL DEF Spec

-----------------------------------------------------------------------------
(***************************************************************************)
(* The halves of a double preset.  Its pending load keeps the second half  *)
(* where the new state is and the first where the double state is, with    *)
(* its shaders; on screen they are the state and the old state.            *)
(***************************************************************************)
HalvesWait ==
    /\ loading = 0 => loadingFile = NoFile
    /\ rc = "mash" => loadingFile \notin Spared
    /\ loadingFile \in Spared =>
         /\ loadingDouble = TRUE
         /\ Pending = Half(loadingFile, 2)
         /\ content[ptr.double] = Half(loadingFile, 1)
         /\ shaders.double = LoadAll(NoShaders, Half(loadingFile, 1))

HalvesShown ==
    permanent /\ content[ptr.state].file \in Spared =>
        /\ content[ptr.state].half = 2
        /\ content[ptr.old] = Half(content[ptr.state].file, 1)
        /\ shaders.old = LoadAll(NoShaders, content[ptr.old])

HalvesInv == HalvesWait /\ HalvesShown

LEMMA InitHalvesInv == Init => HalvesInv
BY DEF Init, HalvesInv, HalvesWait, HalvesShown

\* A load that no double preset waits for: of its own halves, or of none.
LEMMA LoadPairs ==
    ASSUME IInv, HalvesInv, NEW f \in Names, LoadPreset(f),
           loadingFile \notin Spared, rc' = "mash" => f \notin Spared
    PROVE  HalvesInv'
<1> USE DEF IInv, HalvesInv
<1>0. NoFile \notin Spared
  OBVIOUS
<1>1. CASE TurnedDown(f) /\ permanent' = FALSE
  BY <1>1 DEF TurnedDown, shown, load, HalvesWait, HalvesShown, Pending
<1>2. CASE DoubleUnreadable(f) /\ permanent' = FALSE
  BY <1>2 DEF DoubleUnreadable, shown, HalvesWait, HalvesShown, Pending
<1>3. CASE LoadDouble(f) /\ permanent' = FALSE
  <2>1. /\ loading' = 1 /\ loadingFile' = f /\ loadingDouble' = TRUE /\ UNCHANGED ptr
        /\ shaders'.double = LoadAll(NoShaders, Half(f, 1))
    BY <1>3 DEF LoadDouble, TypeOK, Quad
  <2>2. content'[ptr.new] = Half(f, 2) /\ content'[ptr.double] = Half(f, 1)
    BY <1>3, PtrTyped DEF LoadDouble, TypeOK, StatesApart
  <2> QED
    BY <1>3, <2>1, <2>2 DEF HalvesWait, HalvesShown, Pending
<1>4. CASE (LoadInBackground(f) \/ LoadSlowly(f)) /\ permanent' = FALSE
  <2>1. f \in Presets \ Double /\ loading' = 1 /\ loadingFile' = f
    BY <1>4 DEF LoadInBackground, LoadSlowly, Import
  <2> QED
    BY <1>4, <2>1 DEF HalvesWait, HalvesShown
<1>5. CASE LoadAtOnce(f)
  <2>1. f \in Presets \ Double /\ loading' = 0 /\ loadingFile' = NoFile
        /\ ptr' = Swapped(ptr) /\ content' = [content EXCEPT ![ptr.new] = Whole(f)]
    BY <1>5 DEF LoadAtOnce, Import, ApplyLoad
  <2>2. content'[ptr'.state] = Whole(f)
    BY <2>1, PtrTyped DEF Swapped, TypeOK
  <2> QED
    BY <1>0, <2>1, <2>2 DEF HalvesWait, HalvesShown, Whole
<1> QED
  BY <1>1, <1>2, <1>3, <1>4, <1>5 DEF LoadPreset

\* The pending load comes on the screen.
LEMMA SwapPairs ==
    ASSUME IInv, HalvesInv, loading # 0,
           ptr' = Swapped(ptr), UNCHANGED content, loading' = 0, loadingFile' = NoFile,
           permanent' = loadingDouble,
           permanent' => shaders'.old \in {shaders.double, LoadAll(NoShaders, content[ptr'.old])}
    PROVE  HalvesInv'
<1> USE DEF IInv, HalvesInv
<1>1. HalvesWait'
  BY DEF HalvesWait
<1>2. HalvesShown'
  <2>1. content'[ptr'.state] = Pending /\ Pending.file = loadingFile
    BY DEF Swapped, Pending, LoadInv
  <2>2. ASSUME permanent', loadingFile \in Spared
        PROVE  /\ content'[ptr'.old] = Half(loadingFile, 1)
               /\ shaders'.old = LoadAll(NoShaders, content'[ptr'.old])
    <3>1. ptr'.old = ptr.double
      BY <2>2 DEF Swapped, HalvesWait
    <3> QED
      BY <2>2, <3>1 DEF HalvesWait
  <2> QED
    BY <2>1, <2>2 DEF HalvesWait, HalvesShown, Half
<1> QED
  BY <1>1, <1>2

LEMMA StepHalvesInv == IInv /\ HalvesInv /\ [Next]_vars => HalvesInv'
<1> SUFFICES ASSUME IInv, HalvesInv, [Next]_vars PROVE HalvesInv'
  OBVIOUS
<1> USE DEF IInv, HalvesInv
<1>1. CASE Request
  <2>1. PICK f \in Presets : LoadPreset(f)
    BY <1>1 DEF Request
  <2>2. loadingFile \notin Spared /\ rc' # "mash"
    BY <1>1 DEF Request
  <2> QED
    BY <2>1, <2>2, LoadPairs DEF Names
<1>2. CASE RandomizeShader
  <2>1. PICK f \in Presets \ Spared : LoadPreset(f)
    BY <1>2 DEF RandomizeShader
  <2>2. loadingFile \notin Spared
    BY <1>2 DEF RandomizeShader
  <2> QED
    BY <2>1, <2>2, LoadPairs DEF Names
<1>3. CASE ReloadPreset
  <2>1. mash \in Names /\ LoadPreset(mash) /\ rc = "mash" /\ rc' = "idle"
    BY <1>3 DEF ReloadPreset, TypeOK
  <2> QED
    BY <2>1, LoadPairs DEF HalvesWait
<1>4. CASE ClearPreset
  <2>1. /\ UNCHANGED <<ptr, loading, loadingFile, loadingDouble, permanent, rc>>
        /\ content' = [content EXCEPT ![ptr.state] = Whole("cleared")]
        /\ shaders'.double = shaders.double
    BY <1>4 DEF ClearPreset, load, TypeOK, Quad
  <2>2. /\ content'[ptr.state] = Whole("cleared")
        /\ content'[ptr.new] = content[ptr.new]
        /\ content'[ptr.double] = content[ptr.double]
    BY <2>1, PtrTyped DEF TypeOK, StatesApart
  <2> QED
    BY <2>1, <2>2 DEF HalvesWait, HalvesShown, Pending, Whole
<1>5. CASE Tick
  <2>1. /\ UNCHANGED <<content, ptr, loadingFile, loadingDouble, permanent, rc>>
        /\ shaders'.double = shaders.double /\ shaders'.old = shaders.old
        /\ loading # 0
    BY <1>5 DEF Tick, TickDue, TypeOK, Quad
  <2> QED
    BY <2>1, <1>5 DEF Tick, TypeOK, HalvesWait, HalvesShown, Pending
<1>6. CASE TickApplies
  <2>1. PICK b \in BOOLEAN : ApplyLoad(loadingFile, shaders, b)
    BY <1>6 DEF TickApplies
  <2>2. /\ loading # 0 /\ UNCHANGED content
        /\ ptr' = Swapped(ptr) /\ loading' = 0 /\ loadingFile' = NoFile
        /\ permanent' = loadingDouble
        /\ shaders' = SwappedShaders(shaders)
    BY <1>6, <2>1 DEF TickApplies, ApplyLoad
  <2>3. permanent' => shaders'.old = shaders.double
    BY <2>2 DEF SwappedShaders
  <2> QED
    BY <2>2, <2>3, SwapPairs
<1>7. CASE ResetDevice
  <2>0. shaders'.old = IF permanent' THEN LoadAll(NoShaders, content[ptr'.old]) ELSE NoShaders
    BY <1>7 DEF ResetDevice, ShadersAfterReset, TypeOK, Quad
  <2>1. CASE loading = 0
    <3>1. UNCHANGED <<content, ptr, permanent, loading, loadingFile>> /\ rc' = "idle"
      BY <1>7, <2>1 DEF ResetDevice, load
    <3> QED
      BY <2>0, <2>1, <3>1 DEF HalvesWait, HalvesShown
  <2>2. CASE loading # 0
    <3>1. /\ UNCHANGED content
          /\ ptr' = Swapped(ptr) /\ loading' = 0 /\ loadingFile' = NoFile
          /\ permanent' = loadingDouble
      BY <1>7, <2>2 DEF ResetDevice
    <3> QED
      BY <2>0, <2>2, <3>1, SwapPairs
  <2> QED
    BY <2>1, <2>2
<1>8. CASE CancelPendingPresetLoad
  BY <1>8 DEF CancelPendingPresetLoad, GiveUp, shown, HalvesWait, HalvesShown
<1>9. CASE BlendEnds \/ CancelReads \/ ResetWaits \/ FileVanishes \/ UNCHANGED vars
  <2>1. UNCHANGED <<content, ptr, shaders, loading, loadingFile, loadingDouble, permanent>>
        /\ (rc' = rc \/ rc' # "mash")
    BY <1>9 DEF BlendEnds, CancelReads, ResetWaits, FileVanishes, vars, shown, load
  <2> QED
    BY <2>1 DEF HalvesWait, HalvesShown, Pending
<1>10. CASE Thread \/ Precompiler
  <2>1. UNCHANGED render
    BY <1>10 DEF Thread, ThreadStarts, ThreadLocks, ThreadWarp, ThreadComp, ThreadUnlocks,
           ThreadClears, ThreadMarks, ThreadExits, Precompiler, PrecompileLocks, PrecompileWarp,
           PrecompileComp
  <2> QED
    BY <2>1 DEF render, shown, load, HalvesWait, HalvesShown, Pending
<1> QED
  BY <1>1, <1>2, <1>3, <1>4, <1>5, <1>6, <1>7, <1>8, <1>9, <1>10 DEF Next

(***************************************************************************)
(* A double preset whose load was not replaced is blended with the other   *)
(* half of its own file, through every swap, cancel and device reset.      *)
(***************************************************************************)
THEOREM HalvesStayTogether == Spec => []HalvesTogether
<1>1. HalvesInv => HalvesTogether
  BY DEF HalvesInv, HalvesShown, HalvesTogether
<1> QED
  BY <1>1, InitIInv, NextIInv, InitHalvesInv, StepHalvesInv, PTL DEF Spec
=============================================================================
