---------------------------- MODULE PresetTrail -----------------------------
(***************************************************************************)
(* What the preset history promises: the presets asked for so far, in      *)
(* order, the newest Depth + 1 of them, and a place in them.  Back moves   *)
(* towards the oldest, next towards the newest, and past the newest a      *)
(* preset is chosen and becomes the newest, whether it can be shown or     *)
(* not; one that is asked for by name is not added.  A preset that is      *)
(* asked for is shown, now or later, or it is not to be had.  The trail    *)
(* may be lost, and starts over with the preset on screen.                 *)
(***************************************************************************)
EXTENDS Naturals, Sequences

CONSTANTS Presets, NoFile, Depth

VARIABLES trail, at, current, asked, kept

trailVars == <<trail, at, current, asked, kept>>

Init == trail = <<>> /\ at = 0 /\ current = NoFile /\ asked = NoFile /\ kept \in BOOLEAN

Ask(p) == \/ p # NoFile /\ asked' = p /\ UNCHANGED current
          \/ p # NoFile /\ current' = p /\ asked' = NoFile
          \/ UNCHANGED <<current, asked>>

Move(i) == /\ i \in 1 .. Len(trail)
           /\ at' = i
           /\ Ask(trail[i])
           /\ UNCHANGED <<trail, kept>>

Choose(p) == /\ kept /\ at = Len(trail)
             /\ trail' = Append(IF Len(trail) > Depth THEN Tail(trail) ELSE trail, p)
             /\ at' = Len(trail')
             /\ Ask(p)
             /\ UNCHANGED kept

Show(p) == /\ kept => trail # <<>> /\ at' \in {at, at + 1} \cap 1 .. Len(trail)
           /\ ~kept => UNCHANGED at
           /\ Ask(p)
           /\ UNCHANGED <<trail, kept>>

Lose == /\ kept' = FALSE /\ trail' = <<>> /\ at' = 0
        /\ (\E p \in Presets : Ask(p)) \/ UNCHANGED <<current, asked>>

Restart == /\ kept' = TRUE /\ trail' = <<current>> /\ at' = 1
           /\ UNCHANGED <<current, asked>>

Arrive == /\ asked # NoFile /\ asked' = NoFile
          /\ current' \in {current, asked}
          /\ UNCHANGED <<trail, at, kept>>

Clear == current' = NoFile /\ UNCHANGED <<trail, at, asked, kept>>

Next == \/ Move(at - 1) \/ Move(at + 1)
        \/ \E p \in Presets : Choose(p) \/ Show(p)
        \/ Lose \/ Restart \/ Arrive \/ Clear

Spec == Init /\ [][Next]_trailVars
=============================================================================
