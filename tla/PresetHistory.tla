--------------------------- MODULE PresetHistory ----------------------------
(***************************************************************************)
(* The preset history under its callers, with loading reduced to its       *)
(* outcomes.  A load is turned down because the file is gone or a compile  *)
(* is running; or its name is remembered, and then it cannot be read, is   *)
(* shown at once, or is pending: it is shown later, given up with Esc or   *)
(* replaced by another, and a name may be remembered that was never shown. *)
(***************************************************************************)
EXTENDS PresetRing, Sequences

VARIABLES current,     \* m_szCurrentPresetFile
          pending,     \* m_szLoadingPreset, NoFile for none
          intact       \* history: in random order, nothing broke the history

vars == <<hist, pos, back, fwd, sequential, current, pending, intact>>

TypeOK == RingTypeOK /\ current \in Names /\ pending \in Names /\ intact \in BOOLEAN

Init == /\ RingInit
        /\ sequential \in BOOLEAN
        /\ current = NoFile /\ pending = NoFile
        /\ intact = ~sequential

(***************************************************************************)
(* The empty name is not the name of a file, so loading it is turned down. *)
(***************************************************************************)
Verdicts(t) == {"refused"} \cup IF t.file = NoFile THEN {} ELSE {"unreadable", "loading", "shown"}

\* A load that is turned down, or cannot be read, leaves one that is pending alone.
Outcome(f, verdict) ==
    \/ verdict \in {"refused", "unreadable"} /\ UNCHANGED <<current, pending>>
    \/ verdict = "loading" /\ pending' = f /\ UNCHANGED current
    \/ verdict = "shown" /\ current' = f /\ pending' = NoFile

(***************************************************************************)
(* The two loads that leave the position on no name: a new preset that is  *)
(* turned down, and a choice from the list before anything is remembered.  *)
(***************************************************************************)
Breaks(t, accepted) == IF fwd = back THEN t.at # fwd ELSE t.at = fwd /\ ~accepted

Load(t) == \E verdict \in Verdicts(t) :
              /\ Remember(t, verdict # "refused")
              /\ Outcome(t.file, verdict)
              /\ intact' = (intact /\ ~Breaks(t, verdict # "refused"))

PrevPreset == \E t \in PrevTargets : Load(t)
NextPreset == \E t \in NextTargets : Load(t)
OtherLoad == \E t \in ListTargets \cup FileTargets : Load(t)
Toggle == ToggleOrder(current) /\ intact' = sequential /\ UNCHANGED <<current, pending>>

\* The tick, or a device reset, applies the load; Esc gives it up.
Apply == /\ pending # NoFile
         /\ current' = pending /\ pending' = NoFile
         /\ UNCHANGED <<ring, intact>>

GiveUp == /\ pending # NoFile
          /\ pending' = NoFile
          /\ UNCHANGED <<ring, current, intact>>

\* The preset that is made up instead has a name, and is no file.
ClearPreset == /\ current' = NoFile
               /\ UNCHANGED <<ring, pending, intact>>

Next == PrevPreset \/ NextPreset \/ OtherLoad \/ Toggle \/ Apply \/ GiveUp \/ ClearPreset

Spec == Init /\ [][Next]_vars

-----------------------------------------------------------------------------
(***************************************************************************)
(* NoHoles: every name between the fences is the name of a preset file,    *)
(* whatever was turned down in between; only R pressed before the first    *)
(* preset is on screen, or on a cleared one, leaves another, in slot 0     *)
(* (LoadPreset, plugin_presets.cpp:582-616).                               *)
(***************************************************************************)
NoHoles == \A i \in Slots \ {0} : Remembered(i) => hist[i] # NoFile

(***************************************************************************)
(* FencesApart: once something is remembered the fences never touch again, *)
(* so a full ring does not look empty (plugin_presets.cpp:610-612).        *)
(***************************************************************************)
FencesApart == [][fwd # back => fwd' # back']_vars

(***************************************************************************)
(* RetracesHistory: when the next key marches forward it loads a name of   *)
(* the history, whatever lists, messages, missing files and R keys came    *)
(* before, as long as the newest preset was not turned down                *)
(* (plugin_presets.cpp:80-88).                                             *)
(***************************************************************************)
MarchesThroughHistory == Retracing => Remembered(After(pos))
RetracesHistory == intact => MarchesThroughHistory

(***************************************************************************)
(* ImplementsTrail: next and back walk a trail of the newest HistLen - 1   *)
(* presets that were asked for, shown or not, so one can go back           *)
(* HistLen - 2 times (plugin.h:710), until the trail is lost; the R key    *)
(* starts a new one.                                                       *)
(***************************************************************************)
Ahead(i) == IF back <= i THEN i - back ELSE i + HistLen - back
Slot(k) == IF back + k <= HistLen THEN back + k - 1 ELSE back + k - 1 - HistLen

Size == IF intact THEN Ahead(fwd) ELSE 0
Place == IF Size = 0 THEN 0 ELSE 1 + Ahead(pos)
Path == [k \in 1 .. Size |-> hist[Slot(k)]]

Trail == INSTANCE PresetTrail
            WITH Depth <- HistLen - 2, trail <- Path, at <- Place, asked <- pending,
                 kept <- intact

ImplementsTrail == Trail!Spec
=============================================================================
