----------------------------- MODULE PresetScan -----------------------------
(***************************************************************************)
(* The scan of the preset directory (plugin_presets.cpp, CancelThread in   *)
(* plugin.cpp).  A thread of its own reads the files of a directory and    *)
(* adds them to the list, a burst at a time, under the critical section    *)
(* that the render thread holds while it draws.  The window's thread       *)
(* starts a scan and waits for the first burst; to start another it asks   *)
(* the one that runs to quit, and terminates it when that takes too long.  *)
(* When Explorer takes the window away, everything is torn down and built  *)
(* again, with the list and the name of its directory kept.                *)
(*                                                                         *)
(* A list is the directory it is of and how many of its presets are in it, *)
(* and one of them is selected.  What the user and the Remote ask of the   *)
(* list, and the system that they and the scan make, is in PresetMenu.     *)
(***************************************************************************)
EXTENDS Integers

CONSTANTS Dirs, Count,  \* the directories there are, and how many presets they hold at first
          Most,         \* the most that one holds
          Default,      \* the one FindValidPresetDir finds
          Missing,      \* a name that is of no directory
          Burst,        \* so many are enough for the window to go on: 30
          Interval,     \* PRESET_UPDATE_INTERVAL
          MaxCalls      \* bound on the scans asked for and the windows lost

ASSUME DirsAssumption == Most \in Nat /\ Count \in [Dirs -> 0 .. Most] /\ Default \in Dirs /\ Missing \notin Dirs
ASSUME DefaultAssumption == Count[Default] > 0
ASSUME BurstAssumption == {Burst, Interval} \subseteq Nat \ {0} /\ MaxCalls \in Nat

VARIABLES
    dir,      \* m_szPresetDir
    mask,     \* m_szUpdatePresetMask, Missing for none
    ready,    \* m_bPresetListReady
    list,     \* m_presets
    nPresets, \* m_nPresets
    cursor,   \* m_nPresetListCurPos
    held,     \* how many presets are in each directory now
    holder,   \* of g_cs
    alive,    \* g_bThreadAlive
    quit,     \* g_bThreadShouldQuit
    scan,     \* the thread: where it is, and its local variables
    window,   \* where the window's thread is
    call,     \* the arguments of UpdatePresetList, the newDir of ChangePresetDir, and what
              \* the caller does with the cursor afterwards
    calls,
    orphaned, \* history: the scan was terminated while it held g_cs
    lapses    \* history: a scan was "cut" off with the window, and none was forced since;
              \* one that found nothing "crossed" ChangePresetDir, both setting m_szPresetDir;
              \* a file that was dropped was "missed" in the list, and none has ended since

listVars == <<dir, mask, ready, list, nPresets>>
threadVars == <<holder, alive, quit, scan>>
scanVars == <<listVars, threadVars, cursor, held, window, call, calls, orphaned, lapses>>

Names == Dirs \cup {Missing}
Calls == [force : BOOLEAN, whole : BOOLEAN, reselect : BOOLEAN, newDir : Names,
          next : {"stay", "clamp", "find", "dropped"}, cursor : -1 .. Most]
UpdatePresetList(force, reselect) ==
    [force |-> force, whole |-> FALSE, reselect |-> reselect, newDir |-> Missing,
     next |-> "stay", cursor |-> 0]
NoCall == UpdatePresetList(FALSE, FALSE)
Threads == [at : {"gone", "enter", "begin", "reading", "publish", "finish", "sorting"},
            force : BOOLEAN, reselect : BOOLEAN, files : Names, found : 0 .. Most,
            retrying : BOOLEAN]
Gone == [at |-> "gone", force |-> FALSE, reselect |-> FALSE, files |-> Missing, found |-> 0,
         retrying |-> FALSE]

\* Flags, names and counters are of their kinds, and the list holds at most a directory.
TypeOK ==
    /\ dir \in Names /\ mask \in Names
    /\ ready \in BOOLEAN /\ alive \in BOOLEAN /\ quit \in BOOLEAN
    /\ list \in [dir : Names, size : 0 .. Most] /\ nPresets \in 0 .. Most
    /\ cursor \in -1 .. Most /\ held \in [Dirs -> 0 .. Most]
    /\ holder \in {"nobody", "scan", "window", "deleted"}
    /\ scan \in Threads
    /\ window \in {"idle", "frame", "drawing", "painting", "tried", "cancelling", "closing",
                   "spawn", "waiting", "looking"}
    /\ call \in Calls /\ calls \in 0 .. MaxCalls
    /\ orphaned \in BOOLEAN /\ lapses \subseteq {"cut", "crossed", "missed"}

\* A directory from the settings, and the first UpdatePresetList.
Init ==
    /\ dir \in Names /\ mask = Missing /\ ready = FALSE
    /\ list = [dir |-> Missing, size |-> 0] /\ nPresets = 0 /\ cursor = 0 /\ held = Count
    /\ holder = "nobody" /\ alive = FALSE /\ quit = FALSE /\ scan = Gone
    /\ window = "spawn" /\ call = UpdatePresetList(FALSE, TRUE) /\ calls = 0
    /\ orphaned = FALSE /\ lapses = {}

-----------------------------------------------------------------------------
(***************************************************************************)
(* __UpdatePresetList, the scan thread.                                    *)
(***************************************************************************)
others == <<held, window, call, calls, quit, orphaned>>

Enter(from, to) ==
    /\ scan.at = from /\ holder = "nobody"
    /\ holder' = "scan" /\ scan' = [scan EXCEPT !.at = to]
    /\ UNCHANGED <<listVars, cursor, alive, others, lapses>>

EnterFirst == Enter("enter", "begin")

\* LeaveCriticalSection; one that is deleted is not entered again.
Leave == holder' = IF holder = "deleted" THEN "deleted" ELSE "nobody"

Ends == scan' = Gone /\ alive' = FALSE

\* The directory the scan is for, another if it is not there.
Valid(d) == IF d \in Dirs THEN d ELSE Default

\* Nothing is found: the default directory is tried, once, without leaving g_cs.
Retry ==
    IF scan.retrying THEN Ends /\ Leave /\ UNCHANGED dir
    ELSE /\ dir' = Default /\ scan' = [scan EXCEPT !.at = "begin", !.retrying = TRUE]
         /\ UNCHANGED <<holder, alive>>

Crossing == IF window \in {"tried", "cancelling"} THEN {"crossed"} ELSE {}

\* A scan that is forced, or for another directory than the last, starts the list again.
Rescan ==
    /\ scan.at = "begin"
    /\ scan.force \/ mask # Valid(dir)
    /\ mask' = Valid(dir) /\ ready' = FALSE
    /\ list' = [dir |-> Valid(dir), size |-> 0] /\ nPresets' = 0
    /\ IF held[Valid(dir)] = 0 THEN Retry /\ lapses' = (lapses \ {"cut"}) \cup Crossing
       ELSE /\ lapses' = lapses \ {"cut"}
            /\ dir' = Valid(dir) /\ Leave
            /\ scan' = [scan EXCEPT !.at = "reading", !.files = Valid(dir), !.found = 0]
            /\ UNCHANGED alive
    /\ UNCHANGED <<cursor, others>>

\* One for the same directory finds nothing to read: the search was not kept.
Continue ==
    /\ scan.at = "begin" /\ ~scan.force /\ mask = Valid(dir)
    /\ dir' = Valid(dir) /\ Leave
    /\ IF ready THEN Ends
       ELSE /\ scan' = [scan EXCEPT !.at = "reading", !.files = Missing, !.found = 0]
            /\ UNCHANGED alive
    /\ UNCHANGED <<mask, ready, list, nPresets, cursor, others, lapses>>

Total == IF scan.files = Missing THEN 0 ELSE held[scan.files]

ReadUpTo(last) ==
    /\ scan.at = "reading" /\ ~quit /\ scan.found < last
    /\ LET found == scan.found + 1
           due == found = Burst \/ found % Interval = 0
       IN  scan' = [scan EXCEPT !.found = found,
                                !.at = IF found < Total /\ due THEN "publish" ELSE "reading"]
    /\ UNCHANGED <<listVars, cursor, holder, alive, others, lapses>>

Read == ReadUpTo(Total)

\* Under g_cs, what was found is added to the list; less of it when asked to quit.
Publish ==
    /\ scan.at = "publish" /\ holder = "nobody"
    /\ \E n \in nPresets .. scan.found :
           /\ n = scan.found \/ quit
           /\ list' = [list EXCEPT !.size = @ + n - nPresets] /\ nPresets' = n
    /\ scan' = [scan EXCEPT !.at = "reading"]
    /\ UNCHANGED <<dir, mask, ready, cursor, holder, alive, others, lapses>>

Quit ==
    /\ scan.at = "reading" /\ quit
    /\ Ends
    /\ UNCHANGED <<listVars, cursor, holder, others, lapses>>

AllRead ==
    /\ scan.at = "reading" /\ ~quit /\ scan.found >= Total
    /\ scan' = [scan EXCEPT !.at = "finish"]
    /\ UNCHANGED <<listVars, cursor, holder, alive, others, lapses>>

EnterLast == Enter("finish", "sorting")

AddTheRest ==
    /\ list' = [list EXCEPT !.size = IF scan.found > nPresets THEN @ + scan.found - nPresets ELSE @]
    /\ nPresets' = scan.found /\ ready' = TRUE

Entries == 0 .. nPresets - 1

\* Mutant: the preset that is selected is where it was in the list before.
FinishWhereItWas ==
    /\ scan.at = "sorting" /\ AddTheRest
    /\ IF scan.found = 0 THEN Retry /\ lapses' = lapses \cup Crossing
       ELSE Ends /\ Leave /\ UNCHANGED dir /\ lapses' = lapses \ {"missed"}
    /\ UNCHANGED <<mask, cursor, others>>

\* The last of what was found is added, the list is sorted, and the first of it selected, or
\* the preset that was loaded last.
Finish ==
    /\ scan.at = "sorting" /\ AddTheRest
    /\ IF scan.found = 0
         THEN Retry /\ lapses' = lapses \cup Crossing /\ UNCHANGED cursor
         ELSE /\ Ends /\ Leave /\ UNCHANGED dir /\ lapses' = lapses \ {"missed"}
              /\ cursor' \in {0} \cup {i \in 0 .. scan.found - 1 : scan.reselect}
    /\ UNCHANGED <<mask, others>>

Scan == \/ EnterFirst \/ Rescan \/ Continue \/ Read \/ Publish
        \/ Quit \/ AllRead \/ EnterLast \/ Finish

-----------------------------------------------------------------------------
(***************************************************************************)
(* The window's thread.  It is idle between messages and frames.           *)
(***************************************************************************)
Goes(from, to) == window = from /\ window' = to
unasked == <<cursor, held, call, calls, orphaned>>

\* MyRenderFn
WantFrame ==
    /\ Goes("idle", "frame")
    /\ UNCHANGED <<listVars, threadVars, unasked, lapses>>

Draw ==
    /\ Goes("frame", "drawing") /\ holder = "nobody" /\ holder' = "window"
    /\ UNCHANGED <<listVars, alive, quit, scan, unasked, lapses>>

\* The menus are painted after g_cs is left.
Drawn ==
    /\ Goes("drawing", "painting") /\ holder' = "nobody"
    /\ UNCHANGED <<listVars, alive, quit, scan, unasked, lapses>>

Called == calls < MaxCalls /\ calls' = calls + 1

\* UpdatePresetList, with bForce
ForceScan(from, c) ==
    /\ window = from /\ window' = IF alive THEN "cancelling" ELSE "spawn"
    /\ quit' = (quit \/ alive) /\ call' = c
    /\ UNCHANGED <<mask, ready, list, nPresets, cursor, holder, alive, scan, orphaned>>

\* The directory that is set is scanned again, or another is chosen in the list.
Refresh(d, c) ==
    /\ Called /\ ForceScan("idle", c)
    /\ dir' = d /\ lapses' = lapses \ {"crossed"}

\* And without bForce: a scan only if none runs or has ended.
Open(from) ==
    /\ Called /\ ~alive /\ ~ready /\ Goes(from, "spawn")
    /\ call' = UpdatePresetList(FALSE, TRUE)
    /\ UNCHANGED <<listVars, threadVars, cursor, held, orphaned, lapses>>

\* ChangePresetDir: the name is set before it is known to be good.
ChangePresetDir(d, whole, next) ==
    /\ Called /\ Goes("idle", "tried")
    /\ dir' = d
    /\ call' = [UpdatePresetList(TRUE, FALSE) EXCEPT !.whole = whole, !.newDir = d, !.next = next]
    /\ lapses' = lapses \ {"crossed"}
    /\ UNCHANGED <<mask, ready, list, nPresets, threadVars, cursor, held, orphaned>>

Max0(n) == IF n < 0 THEN 0 ELSE n
AtMost(n, most) == IF n > most THEN most ELSE n

\* What the caller selects: what it had, as far as the list goes, or a file it looks up.
Selected(next) ==
    CASE next = "stay" -> {cursor}
      [] next = "clamp" -> {Max0(AtMost(call.cursor, nPresets - 1))}
      [] next = "find" -> {0} \cup Entries
      [] next = "dropped" -> {-1} \cup Entries

\* UpdatePresetList returns; ChangePresetDir sets the directory again.
Return ==
    /\ window' = "idle"
    /\ dir' = IF call.newDir = Missing THEN dir ELSE call.newDir
    /\ cursor' \in Selected(call.next)
    /\ lapses' = IF call.next = "dropped" /\ cursor' = -1 THEN lapses \cup {"missed"} ELSE lapses
    /\ call' = NoCall

\* Mutant: the directory is changed and the scan is not forced.
DirIsValidUnforced ==
    /\ window = "tried" /\ dir \in Dirs
    /\ IF alive \/ ready THEN Return ELSE window' = "spawn" /\ UNCHANGED <<dir, cursor, lapses, call>>
    /\ UNCHANGED <<mask, ready, list, nPresets, threadVars, held, calls, orphaned>>

DirIsValid ==
    /\ dir \in Dirs /\ ForceScan("tried", call)
    /\ UNCHANGED <<dir, held, calls, lapses>>

\* The name to go back to is that of m_szPresetDir itself: it stays.
DirIsInvalid ==
    /\ Goes("tried", "idle") /\ dir \notin Dirs /\ call' = NoCall
    /\ cursor' \in Selected(call.next)
    /\ lapses' = IF call.next = "dropped" /\ cursor' = -1 THEN lapses \cup {"missed"} ELSE lapses
    /\ UNCHANGED <<listVars, threadVars, held, calls, orphaned>>

\* The window is lost.  CleanUpMyNonDx9Stuff deletes g_cs before it ends the scan.
Close ==
    /\ Called /\ Goes("idle", "closing") /\ quit' = TRUE /\ holder' = "deleted"
    /\ UNCHANGED <<listVars, alive, scan, cursor, held, call, orphaned, lapses>>

-----------------------------------------------------------------------------
(***************************************************************************)
(* CancelThread and what follows it: the scan has quit, or it is           *)
(* terminated where it is.  It is slow where it waits for the disk, or for *)
(* a g_cs that does not come free.                                         *)
(***************************************************************************)
Lost == orphaned \/ holder = "deleted"
Slow == scan.at \in {"begin", "reading"} \/ (Lost /\ scan.at \in {"enter", "publish", "finish"})

\* AllocateMyNonDx9Stuff makes g_cs anew; the list is kept.
Respawned ==
    /\ Goes("closing", "idle")
    /\ holder' = "nobody" /\ quit' = FALSE /\ orphaned' = FALSE
    /\ lapses' = lapses \cup (IF alive \/ ~ready THEN {"cut"} ELSE {})

Restarted ==
    /\ Goes("cancelling", "spawn")
    /\ orphaned' = (orphaned \/ (alive /\ holder = "scan"))
    /\ UNCHANGED <<holder, quit, lapses>>

\* Mutant: a scan that does not quit is waited for.
CancelPatiently ==
    /\ ~alive
    /\ Respawned \/ Restarted
    /\ UNCHANGED <<listVars, alive, scan, cursor, held, call, calls>>

CancelThread ==
    /\ ~alive \/ Slow
    /\ alive' = FALSE /\ scan' = Gone
    /\ Respawned \/ Restarted
    /\ UNCHANGED <<listVars, cursor, held, call, calls>>

Spawn ==
    /\ Goes("spawn", "waiting")
    /\ quit' = FALSE /\ alive' = TRUE
    /\ scan' = [Gone EXCEPT !.at = "enter", !.force = call.force, !.reselect = call.reselect]
    /\ UNCHANGED <<listVars, holder, unasked, lapses>>

\* The scan has ended.
Waited ==
    /\ window = "waiting" /\ ~alive /\ Return
    /\ UNCHANGED <<mask, ready, list, nPresets, threadVars, held, calls, orphaned>>

\* Or it runs in the background, and there is enough to start with.
Sleep ==
    /\ Goes("waiting", "looking") /\ alive /\ ~call.whole
    /\ UNCHANGED <<listVars, threadVars, unasked, lapses>>

Look ==
    /\ window = "looking" /\ holder = "nobody"
    /\ \/ nPresets >= Burst /\ Return
       \/ nPresets < Burst /\ window' = "waiting" /\ UNCHANGED <<dir, cursor, lapses, call>>
    /\ UNCHANGED <<mask, ready, list, nPresets, threadVars, held, calls, orphaned>>

Update == CancelThread \/ Spawn \/ Waited \/ Sleep \/ Look

Window == WantFrame \/ Draw \/ Drawn \/ DirIsValid \/ DirIsInvalid \/ Update

-----------------------------------------------------------------------------
(***************************************************************************)
(* Properties.                                                             *)
(***************************************************************************)
\* Whoever has g_cs may use every index below m_nPresets, and the list is no longer than its
\* directory ever was, whatever scan was ended, terminated or begun again before.
IndexSafe == nPresets <= list.size /\ (list.size = 0 \/ list.size <= Count[list.dir])

IsWhole == list = [dir |-> dir, size |-> held[dir]] /\ nPresets = held[dir]

\* When the list is said to be ready and no scan runs, it holds every preset of the directory
\* that is set, unless that is not there or empty, or for one of the two lapses.
ListIsWhole ==
    window = "idle" /\ ready /\ ~alive /\ dir \in Dirs
        => IsWhole \/ held[dir] = 0 \/ lapses \cap {"cut", "crossed"} # {}

\* The list can be used by whoever has g_cs, and is what it is said to be.
ListSound == TypeOK /\ IndexSafe /\ ListIsWhole

\* The frame gets g_cs, unless a scan was terminated with it.
RenderEnters == window = "frame" ~> (window = "drawing" \/ orphaned)

\* A call of UpdatePresetList and the end of the window return, though a scan may have to be
\* terminated first: one that waits for the disk, or for the g_cs that was deleted under it.
WindowGoesOn ==
    window \in {"cancelling", "closing", "spawn", "waiting", "looking"}
        ~> (window = "idle" \/ orphaned)

\* A scan ends, by itself or with CancelThread.
ScanEnds == alive ~> (~alive \/ orphaned)

\* Neither the frame, nor the window, nor the scan is kept for ever by another.
WaitsEnd == RenderEnters /\ WindowGoesOn /\ ScanEnds
=============================================================================
