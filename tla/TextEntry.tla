----------------------------- MODULE TextEntry ------------------------------
(***************************************************************************)
(* Text entry (m_waitstring): the name of a preset that is saved or        *)
(* renamed is plain text, the shaders and equations of the menu are code.  *)
(* The text is in a buffer that is never cleared, up to the first Nul, and *)
(* every key edits it in place (WM_CHAR and WM_KEYDOWN in plugin_input.cpp *)
(* with the functions of plugin_waitstring.cpp).  A key carries how often  *)
(* it repeated since the last one was handled.                             *)
(*                                                                         *)
(* The limit of a text depends on the preset directory, and nothing keeps  *)
(* an entry from beginning with a longer text.                             *)
(*                                                                         *)
(* Plain text is of wide characters, code of bytes; one step reads plain   *)
(* text as bytes too, and for that a plain character is one whose upper    *)
(* byte is zero.                                                           *)
(***************************************************************************)
EXTENDS Integers, Sequences, FiniteSetsExt

CONSTANTS Alnum, Other, LF, Nul,
          Size,     \* of szText
          MaxLen,   \* nMaxLen
          Texts,    \* what an entry begins with
          Clips,    \* what the clipboard may hold
          MaxRepeat

ASSUME CharsAssumption == LF # Nul /\ {LF, Nul} \cap (Alnum \cup Other) = {}
ASSUME TextsAssumption == Texts \cup Clips \subseteq Seq(Alnum \cup Other \cup {LF})
ASSUME LengthsAssumption == /\ Size \in Nat \ {0} /\ MaxLen \in Nat /\ MaxLen <= Size
                            /\ \A t \in Texts : Len(t) < Size
ASSUME RepeatAssumption == MaxRepeat \in Nat

VARIABLES
    mode,     \* "idle", "editing", "asking" whether to overwrite a file, or "ruined"
    code,     \* bDisplayAsCode
    szText, nCursorPos, nSelAnchorPos, bOvertypeMode

entry == <<szText, nCursorPos, nSelAnchorPos>>
textVars == <<mode, code, entry, bOvertypeMode>>

NoAnchor == -1
Chars == Alnum \cup Other \cup {LF}
Places == 0 .. Size - 1
Repeats == 1 .. MaxRepeat

Length(b) == Min({i \in DOMAIN b : b[i] = Nul})
Text(b) == [i \in 1 .. Length(b) |-> b[i - 1]]

TextTypeOK ==
    /\ mode \in {"idle", "editing", "asking", "ruined"} /\ code \in BOOLEAN /\ bOvertypeMode \in BOOLEAN
    /\ szText \in [Places -> Chars \cup {Nul}]
    /\ nCursorPos \in Places /\ nSelAnchorPos \in {NoAnchor} \cup Places

TextInit ==
    /\ mode = "idle" /\ code = FALSE /\ bOvertypeMode = FALSE
    /\ szText = [i \in Places |-> Nul]
    /\ nCursorPos = 0 /\ nSelAnchorPos = NoAnchor

-----------------------------------------------------------------------------
(***************************************************************************)
(* Beginning and end.                                                      *)
(***************************************************************************)
\* A name is a line, and so is what is pasted into one.
OneLine(s) == \A i \in DOMAIN s : s[i] # LF

\* The menu takes the cursor back to where it was in the string accepted last, if that is
\* inside the text.
Begin(text, asCode) ==
    /\ mode = "idle" /\ (asCode \/ OneLine(text))
    /\ mode' = "editing" /\ code' = asCode
    /\ szText' = [i \in Places |-> IF i < Len(text) THEN text[i + 1] ELSE IF i = Len(text) THEN Nul ELSE szText[i]]
    /\ nCursorPos' \in IF asCode THEN 0 .. Len(text) ELSE {Len(text)}
    /\ nSelAnchorPos' = NoAnchor
    /\ UNCHANGED bOvertypeMode

\* Control and return while code is edited.
AcceptCode ==
    /\ mode = "editing" /\ code
    /\ mode' = "idle"
    /\ UNCHANGED <<code, entry, bOvertypeMode>>

\* Return with a name: it is used, or the file exists and the user is asked, or it cannot be
\* used and editing goes on.
AcceptName ==
    /\ mode = "editing" /\ ~code
    /\ mode' \in {"idle", "asking", "editing"}
    /\ UNCHANGED <<code, entry, bOvertypeMode>>

Answer(mode2) ==
    /\ mode = "asking" /\ mode' = mode2
    /\ UNCHANGED <<code, entry, bOvertypeMode>>

EscapeKey ==
    /\ mode = "editing" /\ mode' = "idle"
    /\ UNCHANGED <<code, entry, bOvertypeMode>>

-----------------------------------------------------------------------------
(***************************************************************************)
(* The keys that edit.  An editor state is a buffer and a cursor.          *)
(***************************************************************************)
Entry(b, p) == [b |-> b, p |-> p]

\* Mutant: the cursor stays where the end of the selection was.
NukedInPlace ==
    IF nSelAnchorPos = NoAnchor THEN Entry(szText, nCursorPos) ELSE
        LET lo == Min({nCursorPos, nSelAnchorPos})
            hi == Max({nCursorPos, nSelAnchorPos})
            moved == lo .. lo + Length(szText) - hi
        IN Entry([i \in Places |-> szText[IF i \in moved THEN i + hi - lo ELSE i]], hi)

\* WaitString_NukeSelection: what follows the selection moves down, with its Nul.
Nuked ==
    IF nSelAnchorPos = NoAnchor THEN Entry(szText, nCursorPos) ELSE
        LET lo == Min({nCursorPos, nSelAnchorPos})
            hi == Max({nCursorPos, nSelAnchorPos})
            moved == lo .. lo + Length(szText) - hi
        IN Entry([i \in Places |-> szText[IF i \in moved THEN i + hi - lo ELSE i]], lo)

\* n characters are made room for at p: those from p to len move up.
Opened(b, p, len, n) == [i \in Places |-> IF i \in p + n .. len + n THEN b[i - n] ELSE b[i]]
Put(b, p, s) == [i \in Places |-> IF i \in p .. p + Len(s) - 1 THEN s[i - p + 1] ELSE b[i]]

Edits(e) ==
    /\ szText' = e.b /\ nCursorPos' = e.p /\ nSelAnchorPos' = NoAnchor
    /\ UNCHANGED <<mode, code, bOvertypeMode>>

Editing == mode = "editing"
Same == UNCHANGED textVars

\* WM_CHAR; len is that of the text before its selection goes.
Insert(c, e, len) == Entry(Put(Opened(e.b, e.p, len, 1), e.p, <<c>>), e.p + 1)
Appended(b, c) == Put(b, Length(b), <<c, Nul>>)
Overtype(c, e, len) ==
    Entry(IF e.p = len THEN Appended(e.b, c) ELSE Put(e.b, e.p, <<c>>), e.p + 1)

Typed(c, n) ==
    LET len == Length(szText)
        grown[k \in 0 .. n] ==  \* overtype: what len has become
            IF k = 0 THEN len ELSE IF Nuked.p + k - 1 = grown[k - 1] THEN grown[k - 1] + 1 ELSE grown[k - 1]
        after[k \in 0 .. n] ==
            IF k = 0 THEN Nuked
            ELSE IF bOvertypeMode THEN Overtype(c, after[k - 1], grown[k - 1])
            ELSE Insert(c, after[k - 1], len + k - 1)
    IN after[n]

Type(c, n) ==
    /\ Editing
    /\ IF Length(szText) + n >= MaxLen THEN Same ELSE Edits(Typed(c, n))

ToggleOvertype ==
    /\ Editing
    /\ bOvertypeMode' = ~bOvertypeMode
    /\ UNCHANGED <<mode, code, entry>>

CutKey ==
    /\ Editing
    /\ IF nSelAnchorPos = NoAnchor THEN Same ELSE Edits(Nuked)

\* A negative count: the text from p on moves down by k, from its end, over what is still to be
\* moved, so that its last k characters come again and again.
Slid(b, p, len, k) == [i \in Places |-> IF i \in p - k .. len - k THEN b[len - ((len - i) % k)] ELSE b[i]]

\* Writing before the buffer: what the program does then is undefined.
Ruin == /\ mode' = "ruined"
        /\ UNCHANGED <<code, entry, bOvertypeMode>>

(***************************************************************************)
(* WaitString_Paste: the count of what there is room for is negative if    *)
(* the text has been beyond its limit from the beginning.                  *)
(***************************************************************************)
Paste(clip) ==
    /\ Editing
    /\ LET len == Length(Nuked.b)
           n == IF len + Len(clip) + 1 >= MaxLen THEN MaxLen - len - 1 ELSE Len(clip)
       IN \/ /\ n >= 0
             /\ Edits(Entry(Put(Opened(Nuked.b, Nuked.p, len, n), Nuked.p, SubSeq(clip, 1, n)), Nuked.p + n))
          \/ /\ n < 0 /\ Nuked.p + n >= 0
             /\ Edits(Entry(Slid(Nuked.b, Nuked.p, len, -n), Nuked.p + n))
          \/ Nuked.p + n < 0 /\ Ruin

\* Return while code is edited.
ReturnKey ==
    /\ Editing /\ code
    /\ LET len == Length(Nuked.b)
       IN Edits(IF len + 1 < MaxLen
                  THEN Entry(Put(Opened(Nuked.b, Nuked.p, len, 1), Nuked.p, <<LF>>), Nuked.p + 1)
                  ELSE Nuked)

BackKey(n) ==
    /\ Editing
    /\ IF nSelAnchorPos # NoAnchor THEN Edits(Nuked) ELSE
       IF nCursorPos = 0 THEN Same ELSE
         LET dst == Max({0, nCursorPos - n})
             moved == dst .. dst + Length(szText) - nCursorPos
         IN Edits(Entry([i \in Places |-> szText[IF i \in moved THEN i + nCursorPos - dst ELSE i]], dst))

\* Mutant: the Nul stays behind when the rest moves down.
DeleteShortKey(n) ==
    /\ Editing
    /\ IF nSelAnchorPos # NoAnchor THEN Edits(Nuked) ELSE
         LET moved == nCursorPos .. Length(szText) - n - 1
         IN Edits(Entry([i \in Places |-> szText[IF i \in moved THEN i + n ELSE i]], nCursorPos))

DeleteKey(n) ==
    /\ Editing
    /\ IF nSelAnchorPos # NoAnchor THEN Edits(Nuked) ELSE
         LET moved == nCursorPos .. Length(szText) - n
         IN Edits(Entry([i \in Places |-> szText[IF i \in moved THEN i + n ELSE i]], nCursorPos))

-----------------------------------------------------------------------------
(***************************************************************************)
(* The keys that move the cursor.                                          *)
(***************************************************************************)
Column(p) ==
    IF code THEN p - Max({0} \cup {q \in 1 .. p : szText[q - 1] = LF}) ELSE p
LineLength(p) ==
    LET start == p - Column(p)
    IN Min({q \in start .. Size - 1 : szText[q] \in {Nul, LF}}) - start

SeekUpOneLine(p) ==
    LET column == Column(p)
        end == p - column - 1
    IN IF column = p THEN p ELSE end - Max({0, Column(end) - column})

\* The text as bytes, which it is not when it is plain.
Byte(i) == IF code THEN szText[i] ELSE IF i % 2 = 0 THEN szText[i \div 2] ELSE Nul
Bytes == IF code THEN Places ELSE 0 .. 2 * Size - 1
StopFrom(p) == Min({q \in Bytes : q >= p /\ Byte(q) \in {Nul, LF}})

SeekDownOneLine(p) ==
    LET stop == StopFrom(p)
    IN IF Byte(stop) = Nul THEN p ELSE Min({StopFrom(stop + 1), stop + 1 + Column(p)})

Alphanumeric(p) == szText[p - 1] \in Alnum
SeekLeftWord(p) ==
    LET gap == Min({q \in 0 .. p : \A r \in q + 1 .. p : ~Alphanumeric(r)})
    IN Min({q \in 0 .. gap : \A r \in q + 1 .. gap : Alphanumeric(r)})
SeekRightWord(p) ==
    LET len == Length(szText)
        end == Max({q \in p .. len : \A r \in p + 1 .. q : Alphanumeric(r)})
    IN Max({q \in end .. len : \A r \in end + 1 .. q : ~Alphanumeric(r)})

Repeated(Step(_), n) == LET f[k \in 0 .. n] == IF k = 0 THEN nCursorPos ELSE Step(f[k - 1]) IN f[n]

Left(p) == Max({0, p - 1})
Right(p) == IF p < Length(szText) THEN p + 1 ELSE p

Move(p, shift) ==
    /\ Editing
    /\ nCursorPos' = p
    /\ nSelAnchorPos' = IF ~shift THEN NoAnchor ELSE IF nSelAnchorPos = NoAnchor THEN nCursorPos ELSE nSelAnchorPos
    /\ UNCHANGED <<mode, code, szText, bOvertypeMode>>

MoveLeft(n, shift) == Move(Repeated(Left, n), shift)
MoveRight(n, shift) == Move(Repeated(Right, n), shift)
MoveUp(n, shift) == Move(Repeated(SeekUpOneLine, n), shift)
MoveDown(n, shift) == Move(Repeated(SeekDownOneLine, n), shift)
MoveHome(shift) == Move(nCursorPos - Column(nCursorPos), shift)
MoveEnd(shift) == Move(nCursorPos + LineLength(nCursorPos) - Column(nCursorPos), shift)
MoveLeftWord(shift) == Move(SeekLeftWord(nCursorPos), shift)
MoveRightWord(shift) == Move(SeekRightWord(nCursorPos), shift)
MoveFirst(shift) == Move(0, shift)
MoveLast(shift) == Move(Length(szText), shift)

-----------------------------------------------------------------------------
TextNext ==
    \/ \E text \in Texts, asCode \in BOOLEAN : Begin(text, asCode)
    \/ AcceptCode \/ AcceptName \/ EscapeKey
    \/ \E mode2 \in {"idle", "editing"} : Answer(mode2)
    \/ \E c \in Alnum \cup Other, n \in Repeats : Type(c, n)
    \/ ToggleOvertype \/ CutKey \/ ReturnKey
    \/ \E clip \in {s \in Clips : code \/ OneLine(s)} : Paste(clip)
    \/ \E n \in Repeats : BackKey(n) \/ DeleteKey(n)
    \/ \E n \in Repeats, shift \in BOOLEAN :
         MoveLeft(n, shift) \/ MoveRight(n, shift) \/ MoveUp(n, shift) \/ MoveDown(n, shift)
    \/ \E shift \in BOOLEAN :
         \/ MoveHome(shift) \/ MoveEnd(shift) \/ MoveLeftWord(shift) \/ MoveRightWord(shift)
         \/ MoveFirst(shift) \/ MoveLast(shift)

TextSpec == TextInit /\ [][TextNext]_textVars

-----------------------------------------------------------------------------
(***************************************************************************)
(* The text has an end in its buffer, and the cursor and the selection are *)
(* in it; only a text beyond its limit lets a paste write before the       *)
(* buffer (plugin_waitstring.cpp:98-122).                                  *)
(***************************************************************************)
CursorInText ==
    /\ TextTypeOK
    /\ \E i \in Places : szText[i] = Nul
    /\ Editing => nCursorPos <= Length(szText) /\ nSelAnchorPos <= Length(szText)
    /\ mode = "ruined" => Length(szText) >= MaxLen

Editor == INSTANCE TextEditor
    WITH text <- Text(szText), cursor <- nCursorPos, anchor <- nSelAnchorPos, overtype <- bOvertypeMode

\* Typing over a selection that reaches so near the end that the Nul it left is overwritten:
\* what was behind it is text again.
Resurrects(n) == bOvertypeMode /\ nSelAnchorPos # NoAnchor /\ Nuked.p + n > Length(Nuked.b)

\* Pasting into a text that is beyond its limit without the selection.
Overlong == Length(Nuked.b) >= MaxLen

KeyDoesAsMeant ==
    Editing =>
        /\ \A c \in Alnum \cup Other, n \in Repeats :
             Type(c, n) => Resurrects(n) \/ Editor!Types(c, n)
        /\ \A clip \in Clips : Paste(clip) => Overlong \/ Editor!Pastes(clip)
        /\ ReturnKey => Editor!Breaks
        /\ CutKey => Same \/ Editor!Cuts
        /\ \A n \in Repeats :
             /\ BackKey(n) => Editor!Backspaces(n)
             /\ DeleteKey(n) => Editor!Deletes(n)
        /\ \A n \in Repeats, shift \in BOOLEAN :
             /\ MoveLeft(n, shift) => Editor!Moves(Editor!Left(n), shift)
             /\ MoveRight(n, shift) => Editor!Moves(Editor!Right(n), shift)
             /\ MoveUp(n, shift) => Editor!Moves(IF code THEN Editor!Up(n) ELSE nCursorPos, shift)
             /\ MoveDown(n, shift) => Editor!Moves(IF code THEN Editor!Down(n) ELSE nCursorPos, shift)
        /\ \A shift \in BOOLEAN :
             /\ MoveHome(shift) => Editor!Moves(Editor!LineStart(nCursorPos), shift)
             /\ MoveEnd(shift) => Editor!Moves(Editor!LineEnd(nCursorPos), shift)
             /\ MoveLeftWord(shift) => Editor!Moves(Editor!WordLeft, shift)
             /\ MoveRightWord(shift) => Editor!Moves(Editor!WordRight, shift)
             /\ MoveFirst(shift) => Editor!Moves(0, shift)
             /\ MoveLast(shift) => Editor!Moves(Editor!Length, shift)

\* Every key does what it means to the text: no repeat, limit, line or selection makes it do
\* anything else, but for the two lapses.
KeysDoAsMeant == [][KeyDoesAsMeant]_textVars
=============================================================================
