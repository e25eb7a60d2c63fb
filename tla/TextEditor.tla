----------------------------- MODULE TextEditor -----------------------------
(***************************************************************************)
(* What the keys of a line or code editor mean: a text, a cursor between   *)
(* two of its characters, an anchor at the other end of the selection, and *)
(* whether typing replaces.  TextEntry has these keys on a buffer of C.    *)
(***************************************************************************)
EXTENDS Integers, Sequences, SequencesExt, FiniteSetsExt

CONSTANTS Alnum, Other,  \* characters of words, and between words
          LF,            \* the one that ends a line
          MaxLen         \* keys do not make a text as long

VARIABLES text, cursor, anchor, overtype

None == -1
Length == Len(text)
Low == IF anchor = None THEN cursor ELSE Min({cursor, anchor})
High == IF anchor = None THEN cursor ELSE Max({cursor, anchor})
Before(p) == SubSeq(text, 1, p)
After(p) == SubSeq(text, p + 1, Length)

\* The text without the selection, and the characters s put in its place.
Replaced(s) == Before(Low) \o s \o After(High)

LineStart(p) == Max({0} \cup {q \in 1 .. p : text[q] = LF})
LineEnd(p) == Min({Length} \cup {q \in p .. Length - 1 : text[q + 1] = LF})

-----------------------------------------------------------------------------
\* A character typed n times; a selection goes, and counts against the limit before it does.
Types(c, n) ==
    LET p == Low
        rest == After(High)
        over == SubSeq(rest, n + 1, Len(rest))
        s == [i \in 1 .. n |-> c]
    IN /\ UNCHANGED overtype
       /\ IF Length + n >= MaxLen
            THEN UNCHANGED <<text, cursor, anchor>>
            ELSE /\ text' = Before(p) \o s \o (IF overtype THEN over ELSE rest)
                 /\ cursor' = p + n
                 /\ anchor' = None

\* As much of s as there is room for.
Pastes(s) ==
    LET room == MaxLen - 1 - Len(Replaced(<<>>))
        fits == SubSeq(s, 1, Min({room, Len(s)}))
    IN /\ text' = Replaced(fits)
       /\ cursor' = Low + Len(fits)
       /\ anchor' = None
       /\ UNCHANGED overtype

\* Return while code is edited: the selection goes even if there is no room for the line feed.
Breaks ==
    /\ text' = Replaced(IF Len(Replaced(<<>>)) + 1 < MaxLen THEN <<LF>> ELSE <<>>)
    /\ cursor' = Low + Len(text') - Len(Replaced(<<>>))
    /\ anchor' = None
    /\ UNCHANGED overtype

Cuts == /\ text' = Replaced(<<>>) /\ cursor' = Low /\ anchor' = None
        /\ UNCHANGED overtype

Backspaces(n) ==
    IF anchor # None THEN Cuts ELSE
        /\ cursor' = Max({0, cursor - n})
        /\ text' = Before(cursor') \o After(cursor)
        /\ UNCHANGED <<anchor, overtype>>

\* A key that repeated more often than there are characters to delete deletes none.
Deletes(n) ==
    IF anchor # None THEN Cuts ELSE
        /\ text' = IF cursor + n <= Length THEN Before(cursor) \o After(cursor + n) ELSE text
        /\ UNCHANGED <<cursor, anchor, overtype>>

\* A move begins or keeps a selection with shift, and ends it without.
Moves(p, shift) ==
    /\ cursor' = p
    /\ anchor' = IF ~shift THEN None ELSE IF anchor = None THEN cursor ELSE anchor
    /\ UNCHANGED <<text, overtype>>

Left(n) == Max({0, cursor - n})
Right(n) == Min({Length, cursor + n})

WordStart(p) == text[p] \notin Alnum /\ text[p + 1] \in Alnum
WordLeft == Max({0} \cup {p \in 1 .. cursor - 1 : WordStart(p)})
WordRight == Min({Length} \cup {p \in cursor + 1 .. Length - 1 : WordStart(p)})

Column == cursor - LineStart(cursor)
Above(p) == LET start == LineStart(p)
            IN IF start = 0 THEN p
               ELSE Min({start - 1, LineStart(start - 1) + p - start})
Below(p) == LET end == LineEnd(p)
            IN IF end = Length THEN p
               ELSE Min({LineEnd(end + 1), end + 1 + p - LineStart(p)})

Times(Step(_), n) == LET f[k \in 0 .. n] == IF k = 0 THEN cursor ELSE Step(f[k - 1]) IN f[n]
Up(n) == Times(Above, n)
Down(n) == Times(Below, n)
=============================================================================
