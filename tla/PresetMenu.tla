----------------------------- MODULE PresetMenu -----------------------------
(***************************************************************************)
(* The menus of the visualizer (m_UI_mode in plugin_input.cpp and menu.cpp)*)
(* over the list of presets.  The keys open the list, move in it, delete,  *)
(* rename and save presets and change the directory; each of these starts  *)
(* scans of PresetScan, which go on in the background while the menus are  *)
(* used.  The user and the Remote send keys in any mode, and files are     *)
(* dropped on the window in any mode.                                      *)
(*                                                                         *)
(* Texts that are typed are TextEntry's; here they begin and end.          *)
(***************************************************************************)
EXTENDS PresetScan

CONSTANT MaxPage  \* lines of the list that may be on the screen

ASSUME PageAssumption == MaxPage \in Nat \ {0}

VARIABLES
    ui,      \* m_UI_mode
    typing,  \* m_waitstring.bActive
    asked    \* history: the place of the preset that a question is about, until the list is
             \* emptied or sorted

menuVars == <<ui, typing, asked>>
vars == <<scanVars, menuVars>>

None == -2

\* "prompt" is one of UI_IMPORT_WAVE, UI_EXPORT_WAVE, UI_IMPORT_SHAPE and UI_EXPORT_SHAPE.
Modes == {"regular", "menu", "load", "del", "rename", "saveas", "overwrite", "prompt",
          "string", "upgrade", "mashup"}

MenuTypeOK ==
    /\ TypeOK
    /\ ui \in Modes /\ typing \in BOOLEAN
    /\ asked \in {None} \cup -1 .. Most

MenuInit == Init /\ ui = "regular" /\ typing = FALSE /\ asked = None

-----------------------------------------------------------------------------
(***************************************************************************)
(* Keys that change the mode and nothing of the list.                      *)
(***************************************************************************)
Idle == window = "idle"
Into(mode, text) == Idle /\ ui' = mode /\ typing' = text /\ asked' = None /\ UNCHANGED scanVars
At(mode) == ui = mode /\ ~typing

\* F1, in any mode
Help == Into("regular", FALSE)

\* The keys M and S.
ToggleMenu == \/ At("menu") /\ Into("regular", FALSE)
              \/ At("regular") /\ Into("menu", FALSE)
SaveAs == At("regular") /\ Into("saveas", TRUE)

\* CMilkMenu::HandleKeydown; an item of the menu is chosen, or the menu is left.
Choose == At("menu") /\ \/ \E mode \in {"prompt", "string"} : Into(mode, TRUE)
                        \/ \E mode \in {"upgrade", "mashup"} : Into(mode, FALSE)
LeaveMenu == At("menu") /\ Into("regular", FALSE)

\* Escape
Escape ==
    \/ typing /\ Into(IF ui = "rename" THEN "load" ELSE "regular", FALSE)
    \/ typing /\ ui = "string" /\ Into("menu", FALSE)  \* where code was edited
    \/ ~typing /\ ui \in {"load", "mashup"} /\ Into("regular", FALSE)
    \/ At("del") /\ Into("load", FALSE)
    \/ At("upgrade") /\ Into("menu", FALSE)
    \/ At("overwrite") /\ Into("saveas", TRUE)

\* The answer to a question is any character but y.
No == \/ At("del") /\ Into("load", FALSE)
      \/ At("overwrite") /\ Into("saveas", TRUE)
      \/ At("upgrade") /\ Into("menu", FALSE)

\* A text is accepted: it is imported, exported or compiled; the name to save under is taken.
AcceptText ==
    /\ typing
    /\ \/ ui \in {"prompt", "string"} /\ Into("menu", FALSE)
       \/ ui = "saveas" /\ Into("overwrite", FALSE)

-----------------------------------------------------------------------------
(***************************************************************************)
(* The list.  Its entries are presets and directories, which cannot be     *)
(* told apart by their place.  Keys read it without g_cs.                  *)
(***************************************************************************)
Moves(p) == Idle /\ At("load") /\ cursor' = p
            /\ UNCHANGED <<listVars, threadVars, held, window, call, calls, orphaned, lapses, menuVars>>

Up == Moves(IF cursor > 0 THEN cursor - 1 ELSE cursor)
Down == Moves(IF cursor < nPresets - 1 THEN cursor + 1 ELSE cursor)
Home == Moves(0)
End == Moves(nPresets - 1)
SeekToPreset == \E i \in Entries : Moves(i)

\* The preset selected is asked about, if it is one.
Ask(mode, text) ==
    /\ Idle /\ At("load")
    /\ ui' = mode /\ typing' = text /\ asked' = cursor
    /\ UNCHANGED scanVars
AskDelete == Ask("del", FALSE)
AskName == Ask("rename", TRUE)

Answered(mode) == ui' = mode /\ typing' = FALSE /\ asked' = None

\* The key L
OpenList ==
    /\ Idle /\ ~typing /\ ui \in {"regular", "menu"}
    /\ \/ Open("idle")
       \/ (alive \/ ready) /\ UNCHANGED scanVars
    /\ ui' = "load" /\ UNCHANGED <<typing, asked>>

\* Return on a directory; on a preset, it is loaded.
OpenDir(d) ==
    /\ At("load") /\ Refresh(d, UpdatePresetList(TRUE, FALSE))
    /\ UNCHANGED <<held, menuVars>>

\* DeletePresetFile.  The parent directory, which is in every list but that of a drive, stays.
Delete ==
    /\ At("del") /\ dir \in Dirs /\ held[dir] > 1
    /\ held' = [held EXCEPT ![dir] = @ - 1]
    /\ Refresh(dir, [UpdatePresetList(TRUE, TRUE) EXCEPT !.next = "clamp", !.cursor = cursor])
    /\ Answered("load")

\* A file cannot be deleted, or cannot be renamed; a name that is taken is asked for again.
DeleteFails == At("del") /\ Into("load", FALSE)
RenameFails == ui = "rename" /\ typing /\ Into("load", FALSE)

\* RenamePresetFile
Rename ==
    /\ ui = "rename" /\ typing
    /\ Refresh(dir, [UpdatePresetList(TRUE, FALSE) EXCEPT !.next = "find"])
    /\ Answered("load") /\ UNCHANGED held

\* SavePresetAs, to a new file or over one that exists.
Save ==
    /\ \/ ui = "saveas" /\ typing /\ dir \in Dirs /\ held[dir] < Count[dir]
          /\ held' = [held EXCEPT ![dir] = @ + 1]
       \/ At("overwrite") /\ UNCHANGED held
    /\ Refresh(dir, UpdatePresetList(TRUE, TRUE))
    /\ Answered("regular")
SaveFails == \/ ui = "saveas" /\ typing /\ Into("regular", FALSE)
             \/ At("overwrite") /\ Into("regular", FALSE)

\* LoadRandomPreset brings the list up if it holds no preset: it is empty, or all of it is
\* directories, which may be so of any list.
NothingToLoad ==
    /\ Idle /\ ui \in {"regular", "menu"} /\ ui' = "load"
    /\ UNCHANGED <<scanVars, typing, asked>>

\* LoadPresetFilesViaDragAndDrop, and a preset that the Remote names.
Drop(d) == ChangePresetDir(d, TRUE, "dropped") /\ UNCHANGED menuVars
LoadFrom(d) == ChangePresetDir(d, FALSE, "stay") /\ UNCHANGED menuVars

-----------------------------------------------------------------------------
(***************************************************************************)
(* MyRenderUI.                                                             *)
(***************************************************************************)
\* The page keys are obeyed here; whether they were used since the last frame is left open.
Paged(n) == {cursor, AtMost(cursor + n, nPresets - 1), Max0(cursor - n),
             Max0(AtMost(cursor + n, nPresets - 1) - n)}

Painted == Goes("painting", "idle")
           /\ UNCHANGED <<listVars, threadVars, held, call, calls, orphaned, lapses, typing, asked>>

PaintList ==
    /\ ui = "load" /\ ~typing /\ Painted
    /\ IF nPresets = 0 THEN ui' = "regular" /\ UNCHANGED cursor
       ELSE (\E n \in 1 .. MaxPage : cursor' \in Paged(n)) /\ UNCHANGED ui

\* The list holds nothing, or nothing but directories; or it is made ready.
PaintMashUp ==
    /\ ui = "mashup"
    /\ \/ Painted /\ ui' = "regular" /\ UNCHANGED cursor
       \/ nPresets > 0 /\ (alive \/ ready) /\ Painted /\ UNCHANGED <<cursor, ui>>
       \/ nPresets > 0 /\ Open("painting") /\ UNCHANGED menuVars

PaintOther == ui \notin {"load", "mashup"} /\ Painted /\ UNCHANGED <<cursor, ui>>

Paint == PaintList \/ PaintMashUp \/ PaintOther

-----------------------------------------------------------------------------
\* A scan empties the list, or sorts it and selects.
ScanStep ==
    /\ Scan
    /\ asked' = IF nPresets' < nPresets \/ scan.at = "sorting" THEN None ELSE asked
    /\ UNCHANGED <<ui, typing>>

\* What was dropped is selected.
WindowStep ==
    \/ /\ Window
       /\ asked' = IF call.next = "dropped" /\ call' = NoCall THEN None ELSE asked
       /\ UNCHANGED <<ui, typing>>
    \/ Paint

Keys ==
    \/ Help \/ ToggleMenu \/ SaveAs \/ Choose \/ LeaveMenu \/ Escape \/ No \/ AcceptText
    \/ Up \/ Down \/ Home \/ End \/ SeekToPreset
    \/ AskDelete \/ AskName \/ OpenList \/ Delete \/ DeleteFails \/ Rename \/ RenameFails
    \/ Save \/ SaveFails \/ NothingToLoad
    \/ \E d \in Names : OpenDir(d) \/ LoadFrom(d)
    \/ \E d \in Dirs : Drop(d)

Next == ScanStep \/ WindowStep \/ Keys \/ (Close /\ UNCHANGED menuVars)

Spec == MenuInit /\ [][Next]_vars

\* Threads run on.  The window sleeps between frames and between looks, and leaves g_cs free:
\* the scan gets it in the end.
FairSpec ==
    /\ Spec /\ WF_vars(ScanStep)
    /\ SF_vars(ScanStep /\ (EnterFirst \/ Publish \/ EnterLast))
    /\ WF_vars(WindowStep) /\ SF_vars(WindowStep /\ (Draw \/ Look))

-----------------------------------------------------------------------------
(***************************************************************************)
(* Properties.                                                             *)
(***************************************************************************)
\* Keys go to the text exactly in the modes that have one: no key is taken for an answer while
\* a text is typed, and none is typed into a text that is not there.
ModesAgree == typing <=> ui \in {"rename", "saveas", "prompt", "string"}

\* Between scans, a preset of the list is selected, whatever happened to the list before:
\* keys that read it read an entry.  Excepted are a drop that is not in the list, and a list
\* that was cut off with the window.
Selects == Idle /\ ~alive /\ nPresets > 0 /\ lapses \cap {"cut", "missed"} = {} => cursor \in Entries

\* The preset that is deleted or renamed is the one the user was asked about, until a scan
\* empties or sorts the list under the question.
QuestionStands == asked # None /\ Idle => ui \in {"del", "rename"} /\ cursor = asked

\* The menus agree with each other and with the list.
MenuSound == MenuTypeOK /\ ModesAgree /\ Selects /\ QuestionStands
=============================================================================
