---------------------------- MODULE PresetLoader ----------------------------
(***************************************************************************)
(* Loading a preset (plugin_presets.cpp): the render thread imports the    *)
(* file, a background thread compiles its shaders, the render thread ticks *)
(* through a slow load and applies it by swapping four CState pointers.    *)
(* Esc, other loads, a device reset and the startup precompiler get in     *)
(* between.                                                                *)
(***************************************************************************)
EXTENDS Naturals

CONSTANTS Presets,       \* the preset files
          NoFile,        \* the empty name
          Shaded,        \* the presets with pixel shaders
          Double,        \* the .milk2 files, two presets in one
          Broken,        \* the .milk2 files that do not parse
          Caching,       \* m_ShaderCaching
          Precompile,    \* the presets named in precompile.txt
          Fragile,       \* the preset files that may be deleted while the program runs
          Unstarted,     \* the presets for which the compile thread may fail to start
          Spared,        \* the .milk2 files whose load no other load replaces
          MaxLoads       \* bound on the loads the user and the timers ask for

ASSUME KindsAssumption == /\ NoFile \notin Presets
                          /\ "cleared" \notin Presets \cup {NoFile}
                          /\ Shaded \subseteq Presets
                          /\ Double \subseteq Presets
                          /\ Broken \subseteq Double
                          /\ Precompile \subseteq Shaded
                          /\ Shaded \cap Double = {}
                          /\ Spared \subseteq Double
ASSUME SwitchesAssumption == Caching \in BOOLEAN /\ MaxLoads \in Nat

(***************************************************************************)
(* What a CState holds: a preset, one half of a double preset, or the      *)
(* defaults of ClearPreset, which are named after the time of day.         *)
(***************************************************************************)
Names == Presets \cup {NoFile}
Titles == Names \cup {"cleared"}
Contents == [file : Titles, half : 0 .. 2]
Whole(p) == [file |-> p, half |-> 0]
Half(p, h) == [file |-> p, half |-> h]
Blank == Whole(NoFile)

VARIABLES
    \* the render thread
    onDisk,         \* the presets whose file exists
    loads,          \* loads asked for so far
    current,        \* m_szCurrentPresetFile
    loading,        \* m_nLoadingPreset
    loadingFile,    \* m_szLoadingPreset
    loadingDouble,  \* m_bLoadingMilk2
    permanent,      \* m_bMilk2PermanentBlend
    blending,       \* m_pState->m_bBlending: the old state is seen as well
    content,        \* m_state_DO_NOT_USE: the four CStates
    ptr,            \* m_pState, m_pOldState, m_pNewState, m_pMilk2OldState
    shaders,        \* m_shaders, m_OldShaders, m_NewShaders, m_Milk2OldShaders
    rc,             \* the call the render thread is in the middle of
    mash,           \* szOldPreset, while the ! key is handled
    \* the compile thread
    status,         \* m_nPresetCompileStatus
    cancel,         \* m_nPresetCompileCancel
    thread,         \* what the thread of m_hPresetCompileThread does
    path,           \* m_sPresetCompilePath
    compiling,      \* the file that thread compiles
    \* the precompiler and what both share
    pre,            \* what the precompiler does
    preFile,        \* the file it compiles
    counted,        \* the files it counted as compiled
    lock,           \* who holds compileMutex
    cached          \* the presets whose shaders are in the cache

load == <<loading, loadingFile, loadingDouble>>
shown == <<current, content, ptr, shaders>>
job == <<status, cancel, thread, path, compiling>>
precompiler == <<pre, preFile, counted>>
vars == <<onDisk, loads, shown, load, permanent, blending, rc, mash, job,
          precompiler, lock, cached>>

Quad(S) == [state : S, old : S, new : S, double : S]
NoShaders == [warp |-> Blank, comp |-> Blank]
Working == {"started", "locking", "warp", "comp", "unlock", "clear", "mark"}

TypeOK ==
    /\ onDisk \subseteq Presets
    /\ loads \in 0 .. MaxLoads
    /\ current \in Titles
    /\ loading \in 0 .. 8
    /\ loadingFile \in Names
    /\ loadingDouble \in BOOLEAN
    /\ permanent \in BOOLEAN
    /\ blending \in BOOLEAN
    /\ content \in [1 .. 4 -> Contents]
    /\ ptr \in Quad(1 .. 4)
    /\ shaders \in Quad([warp : Contents, comp : Contents])
    /\ rc \in {"idle", "cancel", "reset", "mash"}
    /\ mash \in Names
    /\ status \in 0 .. 2
    /\ cancel \in 0 .. 1
    /\ thread \in {"none", "exiting", "exited"} \cup Working
    /\ path \in Names
    /\ compiling \in Names
    /\ pre \in {"idle", "warp", "comp"}
    /\ preFile \in Names
    /\ counted \subseteq Names
    /\ lock \in {"free", "preset", "pre"}
    /\ cached \subseteq Names

Init ==
    /\ onDisk = Presets
    /\ loads = 0
    /\ current = NoFile
    /\ loading = 0 /\ loadingFile = NoFile /\ loadingDouble = FALSE
    /\ permanent = FALSE /\ blending = FALSE
    /\ content = [b \in 1 .. 4 |-> Blank]
    /\ ptr = [state |-> 1, old |-> 2, new |-> 3, double |-> 4]
    /\ shaders = [state |-> NoShaders, old |-> NoShaders,
                  new |-> NoShaders, double |-> NoShaders]
    /\ rc = "idle" /\ mash = NoFile
    /\ status = 0 /\ cancel = 0 /\ thread = "none"
    /\ path = NoFile /\ compiling = NoFile
    /\ pre = "idle" /\ preFile = NoFile /\ counted = {}
    /\ lock = "free"
    /\ cached = {}

-----------------------------------------------------------------------------
(***************************************************************************)
(* Helpers of the render thread.                                           *)
(***************************************************************************)
HasShaders(c) == c.file \in Shaded \/ c.half # 0

(***************************************************************************)
(* LoadShaders loads what is missing from a set: with bTick one shader,    *)
(* else both.                                                              *)
(***************************************************************************)
LoadOne(s, c) == IF ~HasShaders(c) THEN s
                 ELSE IF s.warp = Blank THEN [s EXCEPT !.warp = c]
                 ELSE IF s.comp = Blank THEN [s EXCEPT !.comp = c] ELSE s
LoadAll(s, c) == LoadOne(LoadOne(s, c), c)

(***************************************************************************)
(* StopPendingPresetCompile(false): nothing happens while the thread runs, *)
(* even one that has only its return left.                                 *)
(***************************************************************************)
Ended == thread \in {"none", "exited"}
StopPending == IF Ended
               THEN thread' = "none" /\ cancel' = 0 /\ status' = 0
               ELSE UNCHANGED <<thread, cancel, status>>

(***************************************************************************)
(* The last tick of a load, with the states and shaders it finds: the      *)
(* pointers are swapped and, for a double preset, its first half becomes   *)
(* the state blended from.                                                 *)
(***************************************************************************)
Swapped(p) == [state |-> p.new,
               old |-> IF loadingDouble THEN p.double ELSE p.state,
               new |-> p.old,
               double |-> IF loadingDouble THEN p.state ELSE p.double]

SwappedShadersPlain(s) == [state |-> s.new,
                      old |-> s.state,
                      new |-> NoShaders,
                      double |-> IF loadingDouble THEN NoShaders ELSE s.double]

SwappedShaders(s) == [state |-> s.new,
                      old |-> IF loadingDouble THEN s.double ELSE s.state,
                      new |-> NoShaders,
                      double |-> IF loadingDouble THEN NoShaders ELSE s.double]

ApplyLoad(file, s, blended) ==
    /\ current' = file
    /\ ptr' = Swapped(ptr)
    /\ shaders' = SwappedShaders(s)
    /\ permanent' = loadingDouble
    /\ blending' = (loadingDouble \/ blended)
    /\ loading' = 0 /\ loadingFile' = NoFile /\ loadingDouble' = FALSE

-----------------------------------------------------------------------------
(***************************************************************************)
(* LoadPreset.  Whatever becomes of it, the permanent blend of the preset  *)
(* on screen is over.                                                      *)
(***************************************************************************)
AcceptsWhileCompiling(f) == f \in onDisk
Accepts(f) == f \in onDisk /\ status # 1

TurnedDown(f) == ~Accepts(f) /\ UNCHANGED <<shown, load, blending, job>>

DoubleUnreadable(f) ==
    /\ f \in Broken
    /\ StopPending
    /\ loadingDouble' = FALSE
    /\ UNCHANGED <<shown, loading, loadingFile, blending, path, compiling>>

LoadDouble(f) ==
    /\ f \in Double \ Broken
    /\ StopPending
    /\ loading' = 1 /\ loadingFile' = f /\ loadingDouble' = TRUE
    /\ content' = [content EXCEPT ![ptr.double] = Half(f, 1),
                                  ![ptr.new] = Half(f, 2)]
    /\ shaders' = [shaders EXCEPT !.new = NoShaders,
                                  !.double = LoadAll(NoShaders, Half(f, 1))]
    /\ UNCHANGED <<current, ptr, blending, path, compiling>>

Import(f) ==
    /\ f \in Presets \ Double
    /\ content' = [content EXCEPT ![ptr.new] = Whole(f)]

Background(f) == Caching /\ f \in Shaded

LoadInBackgroundKeeps(f) ==
    /\ Background(f)
    /\ Import(f)
    /\ Ended
    /\ loading' = 1 /\ loadingFile' = f
    /\ path' = f
    /\ cancel' = 0
    /\ \/ status' = 1 /\ thread' = "started"
       \/ f \in Unstarted /\ status' = 2 /\ thread' = "none"
    /\ UNCHANGED <<loadingDouble, current, ptr, shaders, blending, compiling>>

(***************************************************************************)
(* StartPendingPresetCompile waits for a thread that has only its return   *)
(* left: the action waits with it.                                         *)
(***************************************************************************)
LoadInBackground(f) ==
    /\ Background(f)
    /\ Import(f)
    /\ Ended
    /\ loading' = 1 /\ loadingFile' = f
    /\ shaders' = [shaders EXCEPT !.new = NoShaders]
    /\ path' = f
    /\ cancel' = 0
    /\ \/ status' = 1 /\ thread' = "started"
       \/ f \in Unstarted /\ status' = 2 /\ thread' = "none"
    /\ UNCHANGED <<loadingDouble, current, ptr, blending, compiling>>

LoadAtOnce(f) ==
    /\ ~Background(f)
    /\ Import(f)
    /\ StopPending
    /\ ApplyLoad(f, [shaders EXCEPT !.new = LoadAll(NoShaders, Whole(f))], FALSE)
    /\ UNCHANGED <<path, compiling>>

LoadSlowly(f) ==
    /\ ~Background(f)
    /\ content[ptr.state] # Blank
    /\ Import(f)
    /\ StopPending
    /\ loading' = 1 /\ loadingFile' = f
    /\ shaders' = [shaders EXCEPT !.new = NoShaders]
    /\ UNCHANGED <<loadingDouble, current, ptr, blending, path, compiling>>

LoadPreset(f) ==
    /\ \/ /\ permanent' = FALSE
          /\ \/ TurnedDown(f)
             \/ /\ Accepts(f)
                /\ \/ DoubleUnreadable(f) \/ LoadDouble(f)
                   \/ LoadInBackground(f) \/ LoadSlowly(f)
       \/ Accepts(f) /\ LoadAtOnce(f)
    /\ UNCHANGED <<onDisk, precompiler, lock, cached>>

Ask == loads < MaxLoads /\ loads' = loads + 1

-----------------------------------------------------------------------------
(***************************************************************************)
(* What asks for a load: the back and next keys and the timers, a choice   *)
(* from the list, a message or a dropped file.  Any file may be asked for. *)
(***************************************************************************)
Request == /\ rc = "idle"
           /\ loadingFile \notin Spared
           /\ Ask
           /\ \E f \in Presets : LoadPreset(f)
           /\ UNCHANGED <<rc, mash>>

(***************************************************************************)
(* The ! and @ keys: a random preset is loaded and, in the same call, the  *)
(* preset on screen again with one shader locked.                          *)
(***************************************************************************)
RandomizeShader == /\ rc = "idle"
                   /\ loadingFile \notin Spared
                   /\ Ask
                   /\ \E f \in Presets \ Spared : LoadPreset(f)
                   /\ rc' = "mash"
                   /\ mash' = IF current \in Names THEN current ELSE NoFile

ReloadPreset == /\ rc = "mash"
                /\ LoadPreset(mash)
                /\ rc' = "idle" /\ mash' = NoFile
                /\ UNCHANGED loads

(***************************************************************************)
(* ClearPreset: the state on screen gets the defaults and its shaders.     *)
(***************************************************************************)
ClearPreset ==
    /\ rc = "idle"
    /\ content' = [content EXCEPT ![ptr.state] = Whole("cleared")]
    /\ current' = "cleared"
    /\ blending' = FALSE
    /\ shaders' = [shaders EXCEPT !.old = shaders.state, !.state = NoShaders]
    /\ UNCHANGED <<onDisk, loads, ptr, load, permanent, rc, mash, job,
                   precompiler, lock, cached>>

-----------------------------------------------------------------------------
(***************************************************************************)
(* LoadPresetTick, once a frame while a load is under way: it waits for    *)
(* the compile, loads a shader at 2 and at 5, applies the load at 8.       *)
(***************************************************************************)
TickDueCompiled == loading \in 1 .. 7 /\ (loading = 1 => status = 2)
TickDueAnyTime == loading \in 1 .. 7
TickDue == loading \in 1 .. 7 /\ ~(loading = 1 /\ status = 1)

Tick ==
    /\ rc = "idle"
    /\ TickDue
    /\ IF loading = 1 /\ status = 2 THEN StopPending
       ELSE UNCHANGED <<thread, cancel, status>>
    /\ shaders' = IF loading \in {2, 5}
                  THEN [shaders EXCEPT !.new = LoadOne(@, content[ptr.new])]
                  ELSE shaders
    /\ loading' = loading + 1
    /\ UNCHANGED <<onDisk, loads, current, content, ptr, loadingFile,
                   loadingDouble, permanent, blending, rc, mash, path, compiling,
                   precompiler, lock, cached>>

TickApplies ==
    /\ rc = "idle"
    /\ loading = 8
    /\ status = 1 => Ended
    /\ StopPending
    /\ \E blended \in BOOLEAN : ApplyLoad(loadingFile, shaders, blended)
    /\ UNCHANGED <<onDisk, loads, content, rc, mash, path, compiling,
                   precompiler, lock, cached>>

BlendEnds ==
    /\ rc = "idle"
    /\ blending /\ ~permanent
    /\ blending' = FALSE
    /\ UNCHANGED <<onDisk, loads, shown, load, permanent, rc, mash, job,
                   precompiler, lock, cached>>

-----------------------------------------------------------------------------
(***************************************************************************)
(* CancelPendingPresetLoad: the status is read, then the flag is set.      *)
(***************************************************************************)
CancelReads ==
    /\ rc = "idle"
    /\ status = 1
    /\ rc' = "cancel"
    /\ UNCHANGED <<onDisk, loads, shown, load, permanent, blending, mash, job,
                   precompiler, lock, cached>>

AskToStop == cancel' = 1 /\ UNCHANGED status

GiveUp == loading' = 0 /\ loadingFile' = NoFile /\ loadingDouble' = FALSE

CancelPendingPresetLoad ==
    /\ rc = "cancel"
    /\ AskToStop
    /\ GiveUp
    /\ rc' = "idle"
    /\ UNCHANGED <<onDisk, loads, shown, permanent, blending, mash,
                   thread, path, compiling, precompiler, lock, cached>>

(***************************************************************************)
(* CleanUpMyDX9Stuff and AllocateMyDX9Stuff, when the window is resized or *)
(* the device lost: a running compile is waited for, a pending load is     *)
(* applied, and the shaders of what is then on screen are loaded again.    *)
(***************************************************************************)
ResetWaits ==
    /\ rc = "idle"
    /\ status = 1
    /\ rc' = "reset"
    /\ UNCHANGED <<onDisk, loads, shown, load, permanent, blending, mash, job,
                   precompiler, lock, cached>>

ShadersAfterReset(c, p, perm) ==
    [shaders EXCEPT !.state = LoadAll(NoShaders, c[p.state]),
                    !.old = IF perm THEN LoadAll(NoShaders, c[p.old]) ELSE NoShaders,
                    !.new = NoShaders,
                    !.double = IF loading = 0 THEN @ ELSE SwappedShaders(shaders).double]

ResetDevice ==
    /\ IF rc = "reset" THEN Ended ELSE rc = "idle" /\ status # 1
    /\ StopPending
    /\ IF loading = 0
       THEN UNCHANGED <<current, ptr, permanent, load>>
       ELSE /\ current' = loadingFile
            /\ ptr' = Swapped(ptr)
            /\ permanent' = loadingDouble
            /\ loading' = 0 /\ loadingFile' = NoFile /\ loadingDouble' = FALSE
    /\ blending' = permanent'
    /\ shaders' = ShadersAfterReset(content, ptr', permanent')
    /\ rc' = "idle"
    /\ UNCHANGED <<onDisk, loads, content, mash, path, compiling,
                   precompiler, lock, cached>>

-----------------------------------------------------------------------------
(***************************************************************************)
(* The compile thread, CompilePendingPresetShaders.  compileMutex is held  *)
(* for one file; the flag is looked at before each of its two shaders.     *)
(***************************************************************************)
render == <<onDisk, loads, shown, load, permanent, blending, rc, mash, path>>

ThreadStarts == /\ thread = "started"
                /\ compiling' = path
                /\ thread' = "locking"
                /\ UNCHANGED <<render, status, cancel, precompiler, lock, cached>>

ThreadLocks == /\ thread = "locking" /\ lock = "free"
               /\ lock' = "preset"
               /\ thread' = "warp"
               /\ UNCHANGED <<render, status, cancel, compiling, precompiler, cached>>

ThreadWarp == /\ thread = "warp"
              /\ thread' = IF cancel = 1 THEN "unlock" ELSE "comp"
              /\ UNCHANGED <<render, status, cancel, compiling, precompiler, lock, cached>>

ThreadComp == /\ thread = "comp"
              /\ thread' = "unlock"
              /\ cached' = IF cancel = 1 THEN cached ELSE cached \cup {compiling}
              /\ UNCHANGED <<render, status, cancel, compiling, precompiler, lock>>

ThreadUnlocks == /\ thread = "unlock"
                 /\ thread' = "clear"
                 /\ lock' = "free"
                 /\ UNCHANGED <<render, status, cancel, compiling, precompiler, cached>>

ThreadClears == /\ thread = "clear"
                /\ thread' = "mark"
                /\ cancel' = 0
                /\ UNCHANGED <<render, status, compiling, precompiler, lock, cached>>

ThreadMarks == /\ thread = "mark"
               /\ thread' = "exiting"
               /\ status' = 2
               /\ UNCHANGED <<render, cancel, compiling, precompiler, lock, cached>>

ThreadExits == /\ thread = "exiting"
               /\ thread' = "exited"
               /\ UNCHANGED <<render, status, cancel, compiling, precompiler, lock, cached>>

Thread == \/ ThreadStarts \/ ThreadLocks \/ ThreadWarp \/ ThreadComp
          \/ ThreadUnlocks \/ ThreadClears \/ ThreadMarks \/ ThreadExits

(***************************************************************************)
(* The startup precompiler goes through the same function, and so looks at *)
(* the same flag; it counts a file whatever became of its shaders.         *)
(***************************************************************************)
PrecompileLocks == /\ pre = "idle" /\ lock = "free"
                   /\ \E f \in Precompile \ counted :
                         /\ f \in onDisk
                         /\ preFile' = f
                   /\ lock' = "pre"
                   /\ pre' = "warp"
                   /\ UNCHANGED <<render, job, counted, cached>>

PrecompileWarp == /\ pre = "warp"
                  /\ IF cancel = 1
                     THEN /\ pre' = "idle" /\ lock' = "free"
                          /\ counted' = counted \cup {preFile}
                     ELSE pre' = "comp" /\ UNCHANGED <<lock, counted>>
                  /\ UNCHANGED <<render, job, preFile, cached>>

PrecompileComp == /\ pre = "comp"
                  /\ pre' = "idle" /\ lock' = "free"
                  /\ counted' = counted \cup {preFile}
                  /\ cached' = IF cancel = 1 THEN cached ELSE cached \cup {preFile}
                  /\ UNCHANGED <<render, job, preFile>>

Precompiler == PrecompileLocks \/ PrecompileWarp \/ PrecompileComp

FileVanishes == /\ \E f \in onDisk \cap Fragile : onDisk' = onDisk \ {f}
                /\ UNCHANGED <<loads, shown, load, permanent, blending, rc, mash,
                               job, precompiler, lock, cached>>

-----------------------------------------------------------------------------
Finish == Tick \/ TickApplies \/ CancelPendingPresetLoad \/ ReloadPreset
          \/ (rc = "reset" /\ ResetDevice)

Next == \/ Request \/ RandomizeShader \/ ClearPreset
        \/ CancelReads \/ ResetWaits \/ ResetDevice
        \/ Tick \/ TickApplies \/ BlendEnds \/ CancelPendingPresetLoad \/ ReloadPreset
        \/ Thread \/ Precompiler \/ FileVanishes

Spec == Init /\ [][Next]_vars

(***************************************************************************)
(* The render loop calls LoadPresetTick every frame and a call it is in    *)
(* goes on; the operating system runs both threads and a compile ends.     *)
(***************************************************************************)
FairSpec == /\ Spec
            /\ WF_vars(Finish)
            /\ WF_vars(Thread)
            /\ WF_vars(Precompiler)

-----------------------------------------------------------------------------
(***************************************************************************)
(* Shown: the name the program reports is that of the state on screen, and *)
(* the shaders on screen are that state's, whichever loads, cancels and    *)
(* resets came in between (LoadPresetTick, plugin_presets.cpp:845-915).    *)
(***************************************************************************)
Shown == LET c == content[ptr.state] IN
         /\ current = c.file
         /\ shaders.state = LoadAll(NoShaders, c)

(***************************************************************************)
(* StatesApart: the four state pointers are always four states             *)
(* (plugin_presets.cpp:848-861).                                           *)
(***************************************************************************)
StatesApart == /\ ptr.state \notin {ptr.old, ptr.new, ptr.double}
               /\ ptr.old \notin {ptr.new, ptr.double}
               /\ ptr.new # ptr.double

(***************************************************************************)
(* StatusTracksThread: while a thread works the status is 1, so nothing    *)
(* that waits for a thread with another status waits for a compile         *)
(* (StopPendingPresetCompile, plugin_presets.cpp:528-553).                 *)
(***************************************************************************)
StatusTracksThread == (thread \in Working) <=> (status = 1)

(***************************************************************************)
(* RenderFindsCache: once the background compile let a load go on, its     *)
(* shaders are in the cache and the render thread need not compile them,   *)
(* unless the thread may not have started; in particular no flag of an     *)
(* earlier Esc cuts a later compile short (plugin_presets.cpp:728-731).    *)
(***************************************************************************)
RenderFindsCache ==
    loading > 1 => LET c == content[ptr.new] IN
                   Caching /\ c.file \in Shaded \ Unstarted => c.file \in cached

(***************************************************************************)
(* CancelHitsItsLoad: a compile that is told to stop is one whose load was *)
(* given up, never that of a load still pending                            *)
(* (CancelPendingPresetLoad, plugin_presets.cpp:542-560).                  *)
(***************************************************************************)
CancelHitsItsLoad == cancel = 1 /\ status = 1 => loading = 0

(***************************************************************************)
(* HalvesTogether: a double preset whose load nothing replaced is blended, *)
(* for good, with the other half of its own file, whatever was on screen,  *)
(* loading or cancelled before it and whatever resets come after it        *)
(* (plugin_presets.cpp:854-904, plugin_dx9.cpp:1083-1086).                 *)
(***************************************************************************)
HalvesTogether ==
    permanent /\ blending /\ content[ptr.state].file \in Spared =>
        /\ content[ptr.state].half = 2
        /\ content[ptr.old] = Half(content[ptr.state].file, 1)
        /\ shaders.old = LoadAll(NoShaders, content[ptr.old])

(***************************************************************************)
(* LoadEnds: every load is applied, cancelled or replaced by one that is   *)
(* (plugin_presets.cpp:822-935).                                           *)
(***************************************************************************)
LoadEnds == loading # 0 ~> loading = 0
=============================================================================
