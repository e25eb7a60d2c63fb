----------------------------- MODULE PresetRing -----------------------------
(***************************************************************************)
(* The preset history of plugin_presets.cpp: a ring of HistLen names       *)
(* between two fences and the position the back and next keys move.  What  *)
(* the names are, and when a load is turned down, is left to the modules   *)
(* that extend this one; a *target* is the pair LoadPreset is called with: *)
(* the file to load and the position the caller set before it called.      *)
(***************************************************************************)
EXTENDS Naturals

CONSTANTS Presets,    \* the preset files
          NoFile,     \* the empty name, or another that is no file's
          HistLen     \* PRESET_HIST_LEN

ASSUME HistLenAssumption == HistLen \in Nat /\ HistLen > 2
ASSUME NoFileAssumption == NoFile \notin Presets

VARIABLES hist,         \* m_presetHistory
          pos,          \* m_presetHistoryPos
          back,         \* m_presetHistoryBackFence
          fwd,          \* m_presetHistoryFwdFence
          sequential    \* m_bSequentialPresetOrder

ring == <<hist, pos, back, fwd, sequential>>

Slots == 0 .. HistLen - 1
Names == Presets \cup {NoFile}

RingTypeOK == /\ hist \in [Slots -> Names]
              /\ pos \in Slots
              /\ back \in Slots
              /\ fwd \in Slots
              /\ sequential \in BOOLEAN

RingInit == /\ hist = [i \in Slots |-> NoFile]
            /\ pos = 0
            /\ back = 0
            /\ fwd = 0

After(i)  == IF i = HistLen - 1 THEN 0 ELSE i + 1
Before(i) == IF i = 0 THEN HistLen - 1 ELSE i - 1

(***************************************************************************)
(* The slots from the back fence up to the forward fence.                  *)
(***************************************************************************)
Remembered(i) == IF back <= fwd THEN back <= i /\ i < fwd
                                ELSE back <= i \/ i < fwd

-----------------------------------------------------------------------------
(***************************************************************************)
(* PrevPreset.  In random order the position steps back unless it is at    *)
(* the back fence; in sequential order the previous file of the list is    *)
(* taken (which one is left open) and the position stays.                  *)
(***************************************************************************)
PrevTargets ==
    IF sequential THEN [file : Presets, at : {pos}]
    ELSE IF pos = back THEN {}
    ELSE {[file |-> hist[Before(pos)], at |-> Before(pos)]}

(***************************************************************************)
(* LoadRandomPreset.  In random order, names the user stepped back over    *)
(* are loaded again; otherwise a file is chosen, and the position advances *)
(* whenever the history is not empty.                                      *)
(***************************************************************************)
Retracing == ~sequential /\ After(pos) # fwd /\ fwd # back

NextTargets ==
    IF Retracing THEN {[file |-> hist[After(pos)], at |-> After(pos)]}
    ELSE [file : Presets, at : {IF fwd # back THEN After(pos) ELSE pos}]

(***************************************************************************)
(* A choice from the preset list moves the position on; a PRESET= message  *)
(* and a file dropped on the window leave it alone.                        *)
(***************************************************************************)
ListTargets == [file : Presets, at : {After(pos)}]
FileTargets == [file : Presets, at : {pos}]

-----------------------------------------------------------------------------
(***************************************************************************)
(* What LoadPreset does to the history.  The position is the caller's      *)
(* whatever happens; the name is added only in random order, only at the   *)
(* forward fence, and only if the load was not turned down before that.    *)
(***************************************************************************)
PushBackTooLate(f) == IF After(f) = back THEN After(After(back)) ELSE back
PushBack(f) == IF f = back THEN After(back) ELSE back

RememberBeforeMoving(t, accepted) ==
    /\ pos' = t.at
    /\ IF accepted /\ ~sequential /\ t.at = fwd
       THEN /\ hist' = [hist EXCEPT ![pos] = t.file]
            /\ fwd' = After(fwd)
            /\ back' = PushBack(After(fwd))
       ELSE UNCHANGED <<hist, fwd, back>>
    /\ UNCHANGED sequential

Remember(t, accepted) ==
    /\ pos' = t.at
    /\ IF accepted /\ ~sequential /\ t.at = fwd
       THEN /\ hist' = [hist EXCEPT ![fwd] = t.file]
            /\ fwd' = After(fwd)
            /\ back' = PushBack(After(fwd))
       ELSE UNCHANGED <<hist, fwd, back>>
    /\ UNCHANGED sequential

(***************************************************************************)
(* The R key: the order is toggled and the history starts over with the    *)
(* preset on screen.                                                       *)
(***************************************************************************)
ToggleOrder(current) ==
    /\ sequential' = ~sequential
    /\ hist' = [hist EXCEPT ![0] = current]
    /\ pos' = 0
    /\ back' = 0
    /\ fwd' = 1
=============================================================================
