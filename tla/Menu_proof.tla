----------------------------- MODULE Menu_proof ------------------------------
(***************************************************************************)
(* The menus and the text entry they open.                                 *)
(*                                                                         *)
(* PresetMenu: for any directories, bursts and intervals and any number of *)
(* calls, the list of presets can be used by whoever has g_cs and is whole *)
(* when it is said to be ready, a preset of it is selected between scans,  *)
(* and the menus ask about the preset they act on.                         *)
(*                                                                         *)
(* TextEntry: the cursor stays in a text that ends in its buffer, and      *)
(* every key does to the buffer what the editor means by it, for any       *)
(* texts, clipboards, lengths and repeats.  A key that repeats is a loop:  *)
(* what its steps keep it keeps, because a set of numbers has a least.     *)
(***************************************************************************)
EXTENDS PresetMenu, TextEntry, WellFoundedInduction, SequenceTheorems, TLAPS

(***************************************************************************)
(* Numbers and loops.                                                      *)
(***************************************************************************)
LEMMA Least ==
    ASSUME NEW S \in SUBSET Nat, S # {}
    PROVE  \E m \in S : \A k \in S : m <= k
<1>1. IsWellFoundedOn(OpToRel(<, Nat), Nat)
    BY NatLessThanWellFounded
<1>2. PICK R : R = OpToRel(<, Nat)
    OBVIOUS
<1>3. \A x, y \in Nat : x < y => <<x, y>> \in R
    BY <1>2 DEF OpToRel
<1>4. PICK m \in S : \A k \in S : <<k, m>> \notin R
    BY <1>1, <1>2, WFMin
<1>5. ASSUME NEW k \in S PROVE m <= k
    <2>1. k \in Nat /\ m \in Nat
        OBVIOUS
    <2>2. ~(k < m)
        BY <1>3, <1>4, <2>1
    <2>. QED BY <2>1, <2>2
<1>. QED BY <1>5

LEMMA MinIs ==
    ASSUME NEW S \in SUBSET Nat, S # {}
    PROVE  Min(S) \in S /\ \A k \in S : Min(S) <= k
<1>1. \E m \in S : \A k \in S : m <= k
    BY Least
<1>. QED BY <1>1 DEF Min

LEMMA MaxIs ==
    ASSUME NEW S \in SUBSET Nat, S # {}, NEW n \in Nat, \A k \in S : k <= n
    PROVE  Max(S) \in S /\ \A k \in S : Max(S) >= k
<1>1. PICK T : T = {n - k : k \in S}
    OBVIOUS
<1>2. T \in SUBSET Nat /\ T # {}
    <2>1. \A k \in S : n - k \in Nat
        OBVIOUS
    <2>2. PICK k \in S : TRUE
        OBVIOUS
    <2>. QED BY <1>1, <2>1, <2>2
<1>3. PICK m \in T : \A k \in T : m <= k
    BY <1>2, Least
<1>4. PICK j \in S : m = n - j
    BY <1>1, <1>3
<1>5. \A k \in S : n - k \in T
    BY <1>1
<1>6. \A k \in S : j >= k
    BY <1>3, <1>4, <1>5
<1>. QED BY <1>4, <1>6 DEF Max

\* What a loop keeps, it keeps to the end.
LEMMA LoopKeeps ==
    ASSUME NEW n \in Nat, NEW f, NEW T, f[0] \in T[0],
           \A k \in 1 .. n : f[k - 1] \in T[k - 1] => f[k] \in T[k]
    PROVE  f[n] \in T[n]
<1>1. SUFFICES ASSUME f[n] \notin T[n] PROVE FALSE
    OBVIOUS
<1>2. PICK S : S = {k \in 0 .. n : f[k] \notin T[k]}
    OBVIOUS
<1>3. S \in SUBSET Nat /\ S # {}
    BY <1>1, <1>2
<1>4. PICK m \in S : \A k \in S : m <= k
    BY <1>3, Least
<1>5. m \in 1 .. n
    BY <1>2, <1>4
<1>6. m - 1 \in 0 .. n /\ m - 1 \notin S
    BY <1>4, <1>5
<1>. QED BY <1>2, <1>4, <1>5, <1>6

\* A loop has a run.
RunOf(f, n, init, step) == f = [k \in 0 .. n |-> IF k = 0 THEN init ELSE step[<<k, f[k - 1]>>]]

LEMMA LoopRuns ==
    ASSUME NEW n \in Nat, NEW init, NEW step
    PROVE  \E f : RunOf(f, n, init, step)
<1>1. SUFFICES ASSUME ~\E f : RunOf(f, n, init, step) PROVE FALSE
    OBVIOUS
<1>2. PICK S : S = {m \in 0 .. n : ~\E f : RunOf(f, m, init, step)}
    OBVIOUS
<1>3. S \in SUBSET Nat /\ S # {}
    BY <1>1, <1>2
<1>4. PICK m \in S : \A k \in S : m <= k
    BY <1>3, Least
<1>5. m # 0
    <2>1. PICK f : f = [k \in 0 .. 0 |-> init]
        OBVIOUS
    <2>2. f = [k \in 0 .. 0 |-> IF k = 0 THEN init ELSE step[<<k, f[k - 1]>>]]
        BY <2>1
    <2>. QED BY <1>2, <1>4, <2>2 DEF RunOf
<1>6. m - 1 \in 0 .. n /\ m - 1 \notin S /\ m \in 1 .. n
    BY <1>2, <1>4, <1>5
<1>7. PICK f : RunOf(f, m - 1, init, step)
    BY <1>2, <1>6
<1>8. PICK g : g = [k \in 0 .. m |-> IF k = m THEN step[<<m, f[m - 1]>>] ELSE f[k]]
    OBVIOUS
<1>9. RunOf(g, m, init, step)
    <2>0. \A k \in 0 .. m - 1 : f[k] = IF k = 0 THEN init ELSE step[<<k, f[k - 1]>>]
        BY <1>7 DEF RunOf
    <2>1. ASSUME NEW k \in 0 .. m PROVE g[k] = IF k = 0 THEN init ELSE step[<<k, g[k - 1]>>]
        <3>1. CASE k = m
            BY <1>6, <1>8, <3>1
        <3>2. CASE k # m
            <4>1. k \in 0 .. m - 1 /\ g[k] = f[k] /\ (k # 0 => k - 1 \in 0 .. m /\ k - 1 # m)
                BY <1>6, <1>8, <3>2
            <4>2. k # 0 => g[k - 1] = f[k - 1]
                BY <1>8, <4>1
            <4>. QED BY <2>0, <4>1, <4>2
        <3>. QED BY <3>1, <3>2
    <2>. QED BY <1>8, <2>1 DEF RunOf
<1>. QED BY <1>2, <1>4, <1>9

\* What is in V at first, and by every step, is in V at last.
LEMMA LoopIsIn ==
    ASSUME NEW n \in Nat, NEW f, NEW V, f[0] \in V,
           \A k \in 1 .. n : f[k - 1] \in V => f[k] \in V
    PROVE  f[n] \in V
<1>1. PICK T : T = [k \in 0 .. n |-> V]
    OBVIOUS
<1>2. f[0] \in T[0]
    BY <1>1
<1>3. \A k \in 1 .. n : f[k - 1] \in T[k - 1] => f[k] \in T[k]
    BY <1>1
<1>4. f[n] \in T[n]
    BY <1>2, <1>3, LoopKeeps
<1>. QED BY <1>1, <1>4

\* A loop whose k-th step goes from T[k - 1] to T[k] has a run, and the run is in T.
Closed(n, T, step) == \A k \in 1 .. n : \A v \in T[k - 1] : step[<<k, v>>] \in T[k]
RunIn(f, n, T, init, step) ==
    /\ f = [k \in 0 .. n |-> IF k = 0 THEN init ELSE step[<<k, f[k - 1]>>]]
    /\ \A k \in 0 .. n : f[k] \in T[k]

LEMMA LoopStays ==
    ASSUME NEW n \in Nat, NEW T, NEW init \in T[0], NEW step, Closed(n, T, step)
    PROVE  \E f : RunIn(f, n, T, init, step)
<1>1. PICK f : RunOf(f, n, init, step)
    BY LoopRuns
<1>2. f = [k \in 0 .. n |-> IF k = 0 THEN init ELSE step[<<k, f[k - 1]>>]]
    BY <1>1 DEF RunOf
<1>3. 0 \in 0 .. n /\ \A k \in 1 .. n : k \in 0 .. n /\ k # 0
    OBVIOUS
<1>4. f[0] = init /\ \A k \in 1 .. n : f[k] = step[<<k, f[k - 1]>>]
    BY <1>2, <1>3
<1>5. ASSUME NEW j \in 0 .. n PROVE f[j] \in T[j]
    <2>1. j \in Nat /\ \A k \in 1 .. j : k \in 1 .. n
        OBVIOUS
    <2>2. \A k \in 1 .. j : f[k - 1] \in T[k - 1] => f[k] \in T[k]
        BY <1>4, <2>1 DEF Closed
    <2>. QED BY <1>4, <2>1, <2>2, LoopKeeps
<1>. QED BY <1>2, <1>5 DEF RunIn

-----------------------------------------------------------------------------
(***************************************************************************)
(* Buffers and their ends.                                                 *)
(***************************************************************************)
Buffers == [Places -> Chars \cup {Nul}]

\* The text in b ends at q, if not before, and not before p; a plain one has no line feed.
EndsBetween(b, p, q) ==
    /\ b \in Buffers /\ p \in Nat /\ q \in Places /\ p <= q
    /\ b[q] = Nul /\ \A i \in 0 .. p - 1 : b[i] # Nul
    /\ code \/ \A i \in 0 .. q - 1 : b[i] # LF

\* p is a place in the text of b.
InText(b, p) ==
    /\ b \in Buffers /\ p \in Places /\ Length(b) \in Places /\ p <= Length(b)
    /\ b[Length(b)] = Nul /\ \A i \in 0 .. Length(b) - 1 : b[i] # Nul
    /\ code \/ \A i \in 0 .. Length(b) - 1 : b[i] # LF

LEMMA PlacesAre ==
    /\ Size \in Nat \ {0} /\ MaxLen \in Nat /\ MaxLen <= Size /\ Places \in SUBSET Nat /\ 0 \in Places
    /\ \A i : i \in Places <=> i \in Nat /\ i < Size
    /\ LF # Nul /\ LF \in Chars /\ Nul \notin Alnum \cup Other /\ LF \notin Alnum \cup Other
    /\ Alnum \cup Other \subseteq Chars
BY LengthsAssumption, CharsAssumption DEF Places, Chars

LEMMA LengthIs ==
    ASSUME NEW b \in Buffers, NEW q \in Places, b[q] = Nul
    PROVE  /\ Length(b) \in Places /\ b[Length(b)] = Nul /\ Length(b) <= q
           /\ \A i \in 0 .. Length(b) - 1 : b[i] # Nul
<1>1. PICK S : S = {i \in DOMAIN b : b[i] = Nul}
    OBVIOUS
<1>2. DOMAIN b = Places
    BY DEF Buffers
<1>3. S \in SUBSET Nat /\ q \in S
    BY <1>1, <1>2, PlacesAre
<1>4. Min(S) \in S /\ \A k \in S : Min(S) <= k
    BY <1>3, MinIs
<1>5. Length(b) = Min(S)
    BY <1>1 DEF Length
<1>6. Length(b) \in Places /\ b[Length(b)] = Nul /\ Length(b) <= q
    BY <1>1, <1>2, <1>3, <1>4, <1>5
<1>7. ASSUME NEW i \in 0 .. Length(b) - 1 PROVE b[i] # Nul
    <2>1. Length(b) \in Nat /\ i \in Places
        BY <1>6, PlacesAre
    <2>2. i \notin S
        BY <1>4, <1>5, <2>1
    <2>. QED BY <1>1, <1>2, <2>1, <2>2
<1>. QED BY <1>6, <1>7

LEMMA EndsInText ==
    ASSUME NEW b, NEW p, NEW q, EndsBetween(b, p, q)
    PROVE  InText(b, p) /\ Length(b) <= q
<1>1. /\ Length(b) \in Places /\ b[Length(b)] = Nul /\ Length(b) <= q
      /\ \A i \in 0 .. Length(b) - 1 : b[i] # Nul
    BY LengthIs DEF EndsBetween
<1>2. p \in Nat /\ q \in Nat /\ Length(b) \in Nat /\ p <= q /\ q < Size /\ Size \in Nat
    BY <1>1, PlacesAre DEF EndsBetween
<1>3. p <= Length(b)
    BY <1>1, <1>2 DEF EndsBetween
<1>4. p \in Places
    BY <1>2, PlacesAre
<1>5. code \/ \A i \in 0 .. Length(b) - 1 : b[i] # LF
    BY <1>1, <1>2 DEF EndsBetween
<1>. QED BY <1>1, <1>3, <1>4, <1>5 DEF EndsBetween, InText

-----------------------------------------------------------------------------
(***************************************************************************)
(* The invariant.                                                          *)
(***************************************************************************)
TextIInv ==
    /\ TextTypeOK
    /\ \E i \in Places : szText[i] = Nul
    /\ mode # "idle" => /\ InText(szText, nCursorPos)
                        /\ nSelAnchorPos # NoAnchor => nSelAnchorPos <= Length(szText)
    /\ mode = "ruined" => Length(szText) >= MaxLen

\* What of it editing starts from.
LEMMA EditingFacts ==
    ASSUME TextIInv, Editing
    PROVE  /\ szText \in Buffers /\ nCursorPos \in Places /\ code \in BOOLEAN
           /\ nSelAnchorPos \in {NoAnchor} \cup Places
           /\ Length(szText) \in Places /\ nCursorPos <= Length(szText)
           /\ nSelAnchorPos # NoAnchor => nSelAnchorPos <= Length(szText)
           /\ szText[Length(szText)] = Nul
           /\ \A i \in 0 .. Length(szText) - 1 : szText[i] # Nul
           /\ code \/ \A i \in 0 .. Length(szText) - 1 : szText[i] # LF
           /\ \A p \in Places : p # NoAnchor
<1>1. mode # "idle"
    BY DEF Editing
<1>2. \A p \in Places : p # NoAnchor
    BY PlacesAre DEF NoAnchor
<1>. QED BY <1>1, <1>2 DEF TextIInv, TextTypeOK, InText, Buffers

\* A key that edits leaves a cursor in a text.
LEMMA EditKeeps ==
    ASSUME TextIInv, Editing, NEW e, InText(e.b, e.p), Edits(e)
    PROVE  TextIInv'
<1>1. /\ szText' = e.b /\ nCursorPos' = e.p /\ nSelAnchorPos' = NoAnchor
      /\ UNCHANGED <<mode, code, bOvertypeMode>>
    BY DEF Edits
<1>2. InText(szText, nCursorPos)'
    BY <1>1 DEF InText
<1>3. TextTypeOK'
    BY <1>1, <1>2 DEF TextIInv, TextTypeOK, InText, Buffers
<1>4. \E i \in Places : szText'[i] = Nul
    BY <1>2 DEF InText
<1>5. mode' # "ruined"
    BY <1>1 DEF Editing
<1>. QED BY <1>1, <1>2, <1>3, <1>4, <1>5 DEF TextIInv

\* A key that moves the cursor keeps it in the text.
LEMMA MoveKeeps ==
    ASSUME TextIInv, Editing, NEW p \in Nat, p <= Length(szText), NEW shift \in BOOLEAN, Move(p, shift)
    PROVE  TextIInv'
<1>1. /\ nCursorPos' = p /\ UNCHANGED <<mode, code, szText, bOvertypeMode>>
      /\ nSelAnchorPos' \in {NoAnchor, nCursorPos, nSelAnchorPos}
    BY DEF Move
<1>2. /\ Length(szText) \in Places /\ nCursorPos \in Places /\ nCursorPos <= Length(szText)
      /\ nSelAnchorPos \in {NoAnchor} \cup Places
      /\ nSelAnchorPos # NoAnchor => nSelAnchorPos <= Length(szText)
    BY EditingFacts
<1>3. p \in Places
    BY <1>2, PlacesAre
<1>4. InText(szText, p)
    BY <1>3, EditingFacts DEF InText
<1>5. InText(szText, nCursorPos)'
    BY <1>1, <1>4 DEF InText
<1>6. TextTypeOK'
    BY <1>1, <1>2, <1>3 DEF TextIInv, TextTypeOK
<1>7. mode' # "ruined"
    BY <1>1 DEF Editing
<1>. QED BY <1>1, <1>2, <1>5, <1>6, <1>7 DEF TextIInv

-----------------------------------------------------------------------------
(***************************************************************************)
(* The text without its selection.                                         *)
(***************************************************************************)
Lo == IF nSelAnchorPos = NoAnchor THEN nCursorPos ELSE Min({nCursorPos, nSelAnchorPos})
Hi == IF nSelAnchorPos = NoAnchor THEN nCursorPos ELSE Max({nCursorPos, nSelAnchorPos})

LEMMA MinOfTwo ==
    ASSUME NEW a \in Nat, NEW b \in Nat
    PROVE  /\ Min({a, b}) = IF a <= b THEN a ELSE b
           /\ Max({a, b}) = IF a <= b THEN b ELSE a
<1>1. Min({a, b}) \in {a, b} /\ \A k \in {a, b} : Min({a, b}) <= k
    BY MinIs
<1>2. PICK n \in Nat : \A k \in {a, b} : k <= n
    BY a + b \in Nat, a <= a + b, b <= a + b
<1>3. Max({a, b}) \in {a, b} /\ \A k \in {a, b} : Max({a, b}) >= k
    BY <1>2, MaxIs
<1>. QED BY <1>1, <1>3

LEMMA SelectionIs ==
    ASSUME TextIInv, Editing
    PROVE  /\ Lo \in Nat /\ Hi \in Nat /\ Lo <= Hi /\ Hi <= Length(szText)
           /\ nSelAnchorPos = NoAnchor => Lo = nCursorPos /\ Hi = nCursorPos
<1>1. CASE nSelAnchorPos = NoAnchor
    BY <1>1, EditingFacts, PlacesAre DEF Lo, Hi
<1>2. CASE nSelAnchorPos # NoAnchor
    <2>1. nCursorPos \in Nat /\ nSelAnchorPos \in Nat /\ Length(szText) \in Nat
        BY <1>2, EditingFacts, PlacesAre
    <2>2. nCursorPos <= Length(szText) /\ nSelAnchorPos <= Length(szText)
        BY <1>2, EditingFacts
    <2>. QED BY <1>2, <2>1, <2>2, MinOfTwo DEF Lo, Hi
<1>. QED BY <1>1, <1>2

LEMMA NukedIs ==
    ASSUME TextIInv, Editing
    PROVE  /\ Nuked.p = Lo /\ Nuked.b \in Buffers
           /\ \A i \in Places :
                Nuked.b[i] = szText[IF i \in Lo .. Lo + Length(szText) - Hi THEN i + Hi - Lo ELSE i]
<1>1. PICK l \in Places : l = Length(szText)
    BY EditingFacts
<1>2. PICK x \in Nat, y \in Nat : x = Lo /\ y = Hi /\ x <= y /\ y <= l
    BY <1>1, SelectionIs
<1>3. l \in Nat /\ l < Size /\ Size \in Nat
    BY PlacesAre
<1>4. \A i \in Places : IF i \in x .. x + l - y THEN i + y - x \in Places ELSE i \in Places
    BY <1>2, <1>3, PlacesAre
<1>5. szText \in Buffers
    BY EditingFacts
<1>6. CASE nSelAnchorPos = NoAnchor
    <2>1. Nuked.p = nCursorPos /\ Nuked.b = szText
        BY <1>6 DEF Nuked, Entry
    <2>2. x = nCursorPos /\ y = nCursorPos
        BY <1>2, <1>6, SelectionIs
    <2>3. \A i \in Places : i + y - x = i
        BY <2>2, <1>2, PlacesAre
    <2>. QED BY <1>1, <1>2, <1>5, <2>1, <2>2, <2>3
<1>7. CASE nSelAnchorPos # NoAnchor
    <2>1. x = Min({nCursorPos, nSelAnchorPos}) /\ y = Max({nCursorPos, nSelAnchorPos})
        BY <1>2, <1>7 DEF Lo, Hi
    <2>2. Nuked = Entry([i \in Places |-> szText[IF i \in x .. x + l - y THEN i + y - x ELSE i]], x)
        BY <1>1, <1>7, <2>1 DEF Nuked
    <2>3. /\ Nuked.p = x
          /\ Nuked.b = [i \in Places |-> szText[IF i \in x .. x + l - y THEN i + y - x ELSE i]]
        BY <2>2 DEF Entry
    <2>4. Nuked.b \in Buffers
        BY <1>4, <1>5, <2>3 DEF Buffers
    <2>. QED BY <1>1, <1>2, <2>3, <2>4
<1>. QED BY <1>6, <1>7

\* The text that is left ends where what followed the selection does; up to where the whole text
\* ended there is nothing that was not in it.
LEMMA NukedEnds ==
    ASSUME TextIInv, Editing
    PROVE  /\ EndsBetween(Nuked.b, Lo, Lo + Length(szText) - Hi)
           /\ EndsBetween(Nuked.b, Lo, Length(szText))
           /\ Length(Nuked.b) = Lo + Length(szText) - Hi
<1>1. PICK l \in Places : l = Length(szText)
    BY EditingFacts
<1>2. PICK x \in Nat, y \in Nat : x = Lo /\ y = Hi /\ x <= y /\ y <= l
    BY <1>1, SelectionIs
<1>3. l \in Nat /\ l < Size /\ Size \in Nat
    BY PlacesAre
<1>4. PICK q \in Nat : q = x + l - y
    BY <1>2, <1>3
<1>5. q \in Places /\ x <= q /\ q <= l
    BY <1>2, <1>3, <1>4, PlacesAre
<1>6. PICK b \in Buffers : b = Nuked.b
    BY NukedIs
<1>7. \A i \in Places : b[i] = szText[IF i \in x .. q THEN i + y - x ELSE i]
    BY <1>1, <1>2, <1>4, <1>6, NukedIs
<1>8. /\ szText[l] = Nul /\ \A i \in 0 .. l - 1 : szText[i] # Nul
      /\ code \/ \A i \in 0 .. l - 1 : szText[i] # LF
    BY <1>1, EditingFacts
<1>9. b[q] = Nul /\ b[l] = Nul
    <2>1. q + y - x = l /\ q \in x .. q
        BY <1>2, <1>3, <1>4, <1>5
    <2>2. b[q] = Nul
        BY <1>5, <1>7, <1>8, <2>1
    <2>3. b[l] = Nul
        <3>1. CASE q = l
            BY <2>2, <3>1
        <3>2. CASE q # l
            BY <1>3, <1>5, <1>7, <1>8, <3>2
        <3>. QED BY <3>1, <3>2
    <2>. QED BY <2>2, <2>3
<1>10. \A i \in 0 .. q - 1 : b[i] # Nul
    <2>. SUFFICES ASSUME NEW i \in 0 .. q - 1 PROVE b[i] # Nul
        OBVIOUS
    <2>1. i \in Places /\ i \in Nat /\ i < l
        BY <1>3, <1>5, PlacesAre
    <2>2. CASE i \in x .. q
        <3>1. i + y - x \in 0 .. l - 1
            BY <1>2, <1>3, <1>4, <2>2
        <3>. QED BY <1>7, <1>8, <2>1, <2>2, <3>1
    <2>3. CASE i \notin x .. q
        <3>1. i \in 0 .. l - 1
            BY <1>3, <2>1
        <3>. QED BY <1>7, <1>8, <2>1, <2>3, <3>1
    <2>. QED BY <2>2, <2>3
<1>11. ASSUME ~code PROVE \A i \in 0 .. l - 1 : b[i] # LF
    <2>. SUFFICES ASSUME NEW i \in 0 .. l - 1 PROVE b[i] # LF
        OBVIOUS
    <2>1. i \in Places /\ i \in Nat /\ i < l
        BY <1>3, PlacesAre
    <2>2. CASE i \in x .. q
        <3>1. i + y - x \in 0 .. l - 1 \/ i + y - x = l
            BY <1>2, <1>3, <1>4, <2>2
        <3>. QED BY <1>7, <1>8, <1>11, <2>1, <2>2, <3>1, PlacesAre
    <2>3. CASE i \notin x .. q
        BY <1>7, <1>8, <1>11, <2>1, <2>3
    <2>. QED BY <2>2, <2>3
<1>12. EndsBetween(b, x, q)
    BY <1>3, <1>5, <1>9, <1>10, <1>11 DEF EndsBetween
<1>13. EndsBetween(b, x, l)
    BY <1>3, <1>5, <1>9, <1>10, <1>11 DEF EndsBetween
<1>14. Length(b) = q
    <2>1. Length(b) \in Places /\ b[Length(b)] = Nul /\ Length(b) <= q
        BY <1>5, <1>9, LengthIs
    <2>2. Length(b) \in Nat
        BY <2>1, PlacesAre
    <2>3. ~(Length(b) \in 0 .. q - 1)
        BY <1>10, <2>1
    <2>. QED BY <1>4, <2>1, <2>2, <2>3
<1>. QED BY <1>1, <1>2, <1>4, <1>6, <1>12, <1>13, <1>14

LEMMA CutKeeps ==
    ASSUME TextIInv, Editing, Edits(Nuked)
    PROVE  TextIInv'
<1>1. EndsBetween(Nuked.b, Nuked.p, Length(szText))
    BY NukedIs, NukedEnds
<1>. QED BY <1>1, EndsInText, EditKeeps

-----------------------------------------------------------------------------
(***************************************************************************)
(* The places a move may end at.                                           *)
(***************************************************************************)
IsPlace(p) == p \in Nat /\ p <= Length(szText)

LEMMA MaxWithZero ==
    ASSUME NEW x \in Int
    PROVE  Max({0, x}) = IF x >= 0 THEN x ELSE 0
<1>1. CASE x >= 0
    <2>1. x \in Nat /\ 0 \in Nat /\ 0 <= x
        BY <1>1
    <2>. QED BY <1>1, <2>1, MinOfTwo
<1>2. CASE x < 0
    <2>1. PICK T : T = {0, x}
        OBVIOUS
    <2>2. Max(T) = 0
        BY <1>2, <2>1 DEF Max
    <2>. QED BY <1>2, <2>1, <2>2
<1>. QED BY <1>1, <1>2

LEMMA ColumnIs ==
    ASSUME NEW p \in Nat
    PROVE  Column(p) \in 0 .. p
<1>1. CASE ~code
    BY <1>1 DEF Column
<1>2. CASE code
    <2>1. PICK S : S = {0} \cup {q \in 1 .. p : szText[q - 1] = LF}
        OBVIOUS
    <2>2. S \in SUBSET Nat /\ S # {} /\ \A k \in S : k <= p
        BY <2>1
    <2>3. Max(S) \in S
        BY <2>2, MaxIs
    <2>4. Max(S) \in Nat /\ Max(S) <= p
        BY <2>2, <2>3
    <2>5. Column(p) = p - Max(S)
        BY <1>2, <2>1 DEF Column
    <2>. QED BY <2>4, <2>5
<1>. QED BY <1>1, <1>2

LEMMA LeftEnds ==
    ASSUME NEW p, IsPlace(p), Length(szText) \in Nat
    PROVE  IsPlace(Left(p))
<1>1. p - 1 \in Int /\ p \in Nat /\ p <= Length(szText)
    BY DEF IsPlace
<1>2. Left(p) = IF p - 1 >= 0 THEN p - 1 ELSE 0
    BY <1>1, MaxWithZero DEF Left
<1>. QED BY <1>1, <1>2 DEF IsPlace

LEMMA RightEnds ==
    ASSUME NEW p, IsPlace(p), Length(szText) \in Nat
    PROVE  IsPlace(Right(p))
BY DEF IsPlace, Right

LEMMA UpEnds ==
    ASSUME NEW p, IsPlace(p), Length(szText) \in Nat
    PROVE  IsPlace(SeekUpOneLine(p))
<1>1. p \in Nat /\ p <= Length(szText)
    BY DEF IsPlace
<1>2. PICK column \in 0 .. p : column = Column(p)
    BY <1>1, ColumnIs
<1>3. CASE column = p
    BY <1>2, <1>3 DEF SeekUpOneLine
<1>4. CASE column # p
    <2>1. PICK end \in Nat : end = p - column - 1 /\ end <= p
        BY <1>1, <1>2, <1>4
    <2>2. PICK above \in 0 .. end : above = Column(end)
        BY <2>1, ColumnIs
    <2>3. PICK d \in Int : d = above - column
        BY <1>2, <2>2
    <2>4. Max({0, d}) = IF d >= 0 THEN d ELSE 0
        BY <2>3, MaxWithZero
    <2>5. SeekUpOneLine(p) = end - Max({0, d})
        BY <1>2, <1>4, <2>1, <2>2, <2>3 DEF SeekUpOneLine
    <2>6. SeekUpOneLine(p) \in 0 .. end
        BY <1>2, <2>1, <2>2, <2>3, <2>4, <2>5
    <2>. QED BY <1>1, <2>1, <2>6 DEF IsPlace
<1>. QED BY <1>3, <1>4

\* In code there is an end of a line at or after every place of the text.
LEMMA StopIs ==
    ASSUME TextIInv, Editing, code, NEW p, IsPlace(p)
    PROVE  /\ IsPlace(StopFrom(p)) /\ StopFrom(p) >= p
           /\ szText[StopFrom(p)] \in {Nul, LF}
<1>1. p \in Nat /\ p <= Length(szText)
    BY DEF IsPlace
<1>2. PICK l \in Nat : l = Length(szText) /\ l \in Places /\ szText[l] = Nul
    BY EditingFacts, PlacesAre
<1>3. PICK S : S = {q \in Places : q >= p /\ szText[q] \in {Nul, LF}}
    OBVIOUS
<1>4. StopFrom(p) = Min(S)
    BY <1>3 DEF StopFrom, Bytes, Byte
<1>5. S \in SUBSET Nat /\ l \in S
    BY <1>1, <1>2, <1>3, PlacesAre
<1>6. Min(S) \in S /\ Min(S) <= l
    BY <1>5, MinIs
<1>. QED BY <1>2, <1>3, <1>4, <1>5, <1>6 DEF IsPlace

\* Plain text as bytes has a Nul at each odd place.
LEMMA PlainStopIsNul ==
    ASSUME TextIInv, Editing, ~code, NEW p, IsPlace(p)
    PROVE  Byte(StopFrom(p)) = Nul
<1>1. p \in Nat /\ p <= Length(szText)
    BY DEF IsPlace
<1>2. PICK l \in Nat : /\ l = Length(szText) /\ l < Size /\ szText[l] = Nul
                       /\ \A i \in 0 .. l - 1 : szText[i] # LF
    BY EditingFacts, PlacesAre
<1>3. Size \in Nat
    BY PlacesAre
<1>4. PICK S : S = {q \in Bytes : q >= p /\ Byte(q) \in {Nul, LF}}
    OBVIOUS
<1>5. \A i \in Nat : Byte(i) = IF i % 2 = 0 THEN szText[i \div 2] ELSE Nul
    BY DEF Byte
<1>6. \A i \in Nat : i % 2 # 0 => Byte(i) = Nul
    BY <1>5
<1>7. p \in Bytes /\ p + 1 \in Bytes /\ Bytes \in SUBSET Nat
    BY <1>1, <1>2, <1>3 DEF Bytes
<1>8. p % 2 = 0 => (p + 1) % 2 # 0
    BY <1>1
<1>9. PICK q \in S : q <= p + 1 /\ (p % 2 # 0 => q = p)
    <2>1. CASE p % 2 # 0
        <3>1. p \in S
            BY <1>1, <1>4, <1>6, <1>7, <2>1
        <3>. QED BY <1>1, <3>1
    <2>2. CASE p % 2 = 0
        <3>1. p + 1 \in S
            BY <1>1, <1>4, <1>6, <1>7, <1>8, <2>2
        <3>. QED BY <1>1, <2>2, <3>1
    <2>. QED BY <2>1, <2>2
<1>10. PICK m \in S : m = StopFrom(p) /\ m <= q
    <2>1. S \in SUBSET Nat /\ S # {}
        BY <1>4, <1>7, <1>9
    <2>2. Min(S) \in S /\ Min(S) <= q
        BY <1>9, <2>1, MinIs
    <2>3. Min(S) = StopFrom(p)
        BY <1>4 DEF StopFrom
    <2>. QED BY <2>2, <2>3
<1>11. m \in Nat /\ p <= m /\ Byte(m) \in {Nul, LF} /\ q \in Nat
    BY <1>4, <1>7, <1>9, <1>10
<1>12. CASE m % 2 # 0
    BY <1>6, <1>10, <1>11, <1>12
<1>13. CASE m % 2 = 0
    <2>1. m = p
        BY <1>1, <1>8, <1>9, <1>10, <1>11, <1>13
    <2>2. PICK h \in Nat : h = m \div 2 /\ h <= m
        BY <1>11
    <2>3. h = l \/ h \in 0 .. l - 1
        BY <1>1, <1>2, <2>1, <2>2
    <2>4. szText[h] # LF
        BY <1>2, <2>3, PlacesAre
    <2>. QED BY <1>5, <1>10, <1>11, <1>13, <2>2, <2>4
<1>. QED BY <1>12, <1>13

LEMMA DownEnds ==
    ASSUME TextIInv, Editing, NEW p, IsPlace(p)
    PROVE  IsPlace(SeekDownOneLine(p))
<1>1. CASE Byte(StopFrom(p)) = Nul
    BY <1>1 DEF SeekDownOneLine
<1>2. CASE Byte(StopFrom(p)) # Nul
    <2>1. code
        BY <1>2, PlainStopIsNul
    <2>2. PICK stop : /\ stop = StopFrom(p) /\ IsPlace(stop) /\ szText[stop] # Nul
        BY <1>2, <2>1, StopIs DEF Byte
    <2>3. /\ Length(szText) \in Nat /\ szText[Length(szText)] = Nul /\ p \in Nat
        BY EditingFacts, PlacesAre DEF IsPlace
    <2>4. stop # Length(szText) /\ stop \in Nat /\ stop <= Length(szText)
        BY <2>2, <2>3 DEF IsPlace
    <2>5. PICK next : next = stop + 1 /\ IsPlace(next)
        BY <2>3, <2>4 DEF IsPlace
    <2>6. IsPlace(StopFrom(next))
        BY <2>1, <2>5, StopIs
    <2>7. PICK a \in Nat : a = StopFrom(next) /\ a <= Length(szText)
        BY <2>6 DEF IsPlace
    <2>8. PICK b \in Nat : b = stop + 1 + Column(p)
        BY <2>3, <2>4, ColumnIs
    <2>9. Min({a, b}) = IF a <= b THEN a ELSE b
        BY MinOfTwo
    <2>10. SeekDownOneLine(p) = Min({a, b})
        BY <1>2, <2>2, <2>5, <2>7, <2>8 DEF SeekDownOneLine
    <2>. QED BY <2>3, <2>7, <2>8, <2>9, <2>10 DEF IsPlace
<1>. QED BY <1>1, <1>2

LEMMA HomeEnds ==
    ASSUME TextIInv, Editing
    PROVE  IsPlace(nCursorPos - Column(nCursorPos))
<1>1. nCursorPos \in Nat /\ nCursorPos <= Length(szText) /\ Length(szText) \in Nat
    BY EditingFacts, PlacesAre
<1>2. Column(nCursorPos) \in 0 .. nCursorPos
    BY <1>1, ColumnIs
<1>. QED BY <1>1, <1>2 DEF IsPlace

LEMMA EndEnds ==
    ASSUME TextIInv, Editing
    PROVE  IsPlace(nCursorPos + LineLength(nCursorPos) - Column(nCursorPos))
<1>1. PICK l \in Nat : l = Length(szText) /\ l < Size /\ szText[l] = Nul
    BY EditingFacts, PlacesAre
<1>2. PICK p \in Nat : p = nCursorPos /\ p <= l /\ Size \in Nat
    BY <1>1, EditingFacts, PlacesAre
<1>3. PICK column \in 0 .. p : column = Column(p)
    BY <1>2, ColumnIs
<1>4. PICK start \in Nat : start = p - column /\ start <= l
    BY <1>1, <1>2, <1>3
<1>5. PICK S : S = {q \in start .. Size - 1 : szText[q] \in {Nul, LF}}
    OBVIOUS
<1>6. S \in SUBSET Nat /\ l \in S
    BY <1>1, <1>2, <1>4, <1>5
<1>7. PICK m \in Nat : m = Min(S) /\ m <= l
    BY <1>6, MinIs
<1>8. LineLength(p) = m - start
    BY <1>3, <1>4, <1>5, <1>7 DEF LineLength
<1>9. p + LineLength(p) - Column(p) = m
    BY <1>2, <1>3, <1>4, <1>7, <1>8
<1>. QED BY <1>1, <1>2, <1>7, <1>9 DEF IsPlace

LEMMA LeftWordEnds ==
    ASSUME TextIInv, Editing
    PROVE  IsPlace(SeekLeftWord(nCursorPos))
<1>1. PICK p \in Nat : p = nCursorPos /\ p <= Length(szText) /\ Length(szText) \in Nat
    BY EditingFacts, PlacesAre
<1>2. PICK S : S = {q \in 0 .. p : \A r \in q + 1 .. p : ~Alphanumeric(r)}
    OBVIOUS
<1>3. S \in SUBSET Nat /\ p \in S
    BY <1>1, <1>2
<1>4. PICK gap \in Nat : gap = Min(S) /\ gap <= p
    BY <1>1, <1>3, MinIs
<1>5. PICK T : T = {q \in 0 .. gap : \A r \in q + 1 .. gap : Alphanumeric(r)}
    OBVIOUS
<1>6. T \in SUBSET Nat /\ gap \in T
    BY <1>4, <1>5
<1>7. PICK m \in Nat : m = Min(T) /\ m <= gap
    BY <1>4, <1>6, MinIs
<1>8. SeekLeftWord(p) = m
    BY <1>2, <1>4, <1>5, <1>7 DEF SeekLeftWord
<1>. QED BY <1>1, <1>4, <1>7, <1>8 DEF IsPlace

LEMMA RightWordEnds ==
    ASSUME TextIInv, Editing
    PROVE  IsPlace(SeekRightWord(nCursorPos))
<1>1. PICK l \in Nat, p \in Nat : l = Length(szText) /\ p = nCursorPos /\ p <= l
    BY EditingFacts, PlacesAre
<1>2. PICK S : S = {q \in p .. l : \A r \in p + 1 .. q : Alphanumeric(r)}
    OBVIOUS
<1>3. S \in SUBSET Nat /\ p \in S /\ \A k \in S : k <= l
    BY <1>1, <1>2
<1>4. Max(S) \in S
    BY <1>3, MaxIs
<1>5. PICK end \in Nat : end = Max(S) /\ end <= l
    BY <1>3, <1>4
<1>6. PICK T : T = {q \in end .. l : \A r \in end + 1 .. q : ~Alphanumeric(r)}
    OBVIOUS
<1>7. T \in SUBSET Nat /\ end \in T /\ \A k \in T : k <= l
    BY <1>1, <1>5, <1>6
<1>8. Max(T) \in T
    BY <1>7, MaxIs
<1>9. PICK m \in Nat : m = Max(T) /\ m <= l
    BY <1>7, <1>8
<1>10. SeekRightWord(p) = m
    BY <1>1, <1>2, <1>5, <1>6, <1>9 DEF SeekRightWord
<1>. QED BY <1>1, <1>9, <1>10 DEF IsPlace

-----------------------------------------------------------------------------
(***************************************************************************)
(* Repeated moves.  Each is a loop over the places of the text.            *)
(***************************************************************************)
Here == 0 .. Length(szText)
Within(S) == \A p \in Here : S[p] \in Here
RepeatOf(f, n, S) ==
    /\ f = [k \in 0 .. n |-> IF k = 0 THEN nCursorPos ELSE S[f[k - 1]]]
    /\ \A k \in 0 .. n : f[k] \in Here

LEMMA RepeatFacts ==
    ASSUME TextIInv, Editing, NEW n \in Repeats
    PROVE  /\ n \in Nat /\ Length(szText) \in Nat /\ nCursorPos \in Here
           /\ \A p : p \in Here <=> IsPlace(p)
BY EditingFacts, PlacesAre, RepeatAssumption DEF Repeats, Here, IsPlace

LEMMA RepeatRuns ==
    ASSUME NEW n \in Nat, nCursorPos \in Here, NEW S, Within(S)
    PROVE  \E f : RepeatOf(f, n, S)
<1>1. PICK step : step = [x \in (1 .. n) \X Here |-> S[x[2]]]
    OBVIOUS
<1>2. \A k \in 1 .. n : \A p \in Here : step[<<k, p>>] = S[p]
    BY <1>1
<1>3. PICK T : T = [k \in 0 .. n |-> Here]
    OBVIOUS
<1>4. /\ T[0] = Here /\ \A k \in 0 .. n : T[k] = Here
      /\ \A k \in 1 .. n : T[k] = Here /\ T[k - 1] = Here
    BY <1>3
<1>5. Closed(n, T, step)
    BY <1>2, <1>4 DEF Closed, Within
<1>6. PICK f : RunIn(f, n, T, nCursorPos, step)
    BY <1>4, <1>5, LoopStays
<1>7. /\ f = [k \in 0 .. n |-> IF k = 0 THEN nCursorPos ELSE step[<<k, f[k - 1]>>]]
      /\ \A k \in 0 .. n : f[k] \in Here
    BY <1>4, <1>6 DEF RunIn
<1>8. \A k \in 0 .. n : k # 0 => k \in 1 .. n /\ k - 1 \in 0 .. n
    OBVIOUS
<1>9. \A k \in 0 .. n : k # 0 => step[<<k, f[k - 1]>>] = S[f[k - 1]]
    BY <1>2, <1>7, <1>8
<1>. QED BY <1>7, <1>9 DEF RepeatOf

\* The cursor after 0 to n turns of a key that repeats n times.
Runs(g, n) == g[0] = nCursorPos /\ \A k \in 0 .. n : g[k] \in Here

LEMMA LeftRepeats ==
    ASSUME TextIInv, Editing, NEW n \in Repeats
    PROVE  /\ IsPlace(Repeated(Left, n))
           /\ \E g : Runs(g, n) /\ Repeated(Left, n) = g[n] /\ \A k \in 1 .. n : g[k] = Left(g[k - 1])
<1>1. n \in Nat /\ nCursorPos \in Here /\ \A p : p \in Here <=> IsPlace(p)
    BY RepeatFacts
<1>2. PICK S : S = [p \in Here |-> Left(p)]
    OBVIOUS
<1>3. \A p \in Here : S[p] = Left(p) /\ Left(p) \in Here
    BY <1>1, <1>2, RepeatFacts, LeftEnds
<1>4. PICK f : RepeatOf(f, n, S)
    BY <1>1, <1>3, RepeatRuns DEF Within
<1>5. f = [k \in 0 .. n |-> IF k = 0 THEN nCursorPos ELSE Left(f[k - 1])]
    <2>1. /\ f = [k \in 0 .. n |-> IF k = 0 THEN nCursorPos ELSE S[f[k - 1]]]
          /\ \A k \in 0 .. n : f[k] \in Here
        BY <1>4 DEF RepeatOf
    <2>2. \A k \in 0 .. n : k # 0 => k - 1 \in 0 .. n
        BY <1>1
    <2>3. \A k \in 0 .. n : k # 0 => S[f[k - 1]] = Left(f[k - 1])
        BY <1>3, <2>1, <2>2
    <2>. QED BY <2>1, <2>3
<1>6. PICK g : /\ g = [k \in 0 .. n |-> IF k = 0 THEN nCursorPos ELSE Left(g[k - 1])]
               /\ Repeated(Left, n) = g[n]
    BY <1>5 DEF Repeated
<1>7. g[0] \in Here /\ \A k \in 1 .. n : g[k] = Left(g[k - 1])
    BY <1>1, <1>6
<1>8. \A k \in 1 .. n : g[k - 1] \in Here => g[k] \in Here
    BY <1>3, <1>7
<1>9. ASSUME NEW k \in 0 .. n PROVE g[k] \in Here
    <2>1. k \in Nat /\ \A j \in 1 .. k : g[j - 1] \in Here => g[j] \in Here
        BY <1>1, <1>8
    <2>. QED BY <1>7, <2>1, LoopIsIn
<1>10. g[0] = nCursorPos /\ n \in 0 .. n
    BY <1>1, <1>6
<1>. QED BY <1>1, <1>6, <1>7, <1>9, <1>10 DEF Runs

LEMMA RightRepeats ==
    ASSUME TextIInv, Editing, NEW n \in Repeats
    PROVE  /\ IsPlace(Repeated(Right, n))
           /\ \E g : Runs(g, n) /\ Repeated(Right, n) = g[n] /\ \A k \in 1 .. n : g[k] = Right(g[k - 1])
<1>1. n \in Nat /\ nCursorPos \in Here /\ \A p : p \in Here <=> IsPlace(p)
    BY RepeatFacts
<1>2. PICK S : S = [p \in Here |-> Right(p)]
    OBVIOUS
<1>3. \A p \in Here : S[p] = Right(p) /\ Right(p) \in Here
    BY <1>1, <1>2, RepeatFacts, RightEnds
<1>4. PICK f : RepeatOf(f, n, S)
    BY <1>1, <1>3, RepeatRuns DEF Within
<1>5. f = [k \in 0 .. n |-> IF k = 0 THEN nCursorPos ELSE Right(f[k - 1])]
    <2>1. /\ f = [k \in 0 .. n |-> IF k = 0 THEN nCursorPos ELSE S[f[k - 1]]]
          /\ \A k \in 0 .. n : f[k] \in Here
        BY <1>4 DEF RepeatOf
    <2>2. \A k \in 0 .. n : k # 0 => k - 1 \in 0 .. n
        BY <1>1
    <2>3. \A k \in 0 .. n : k # 0 => S[f[k - 1]] = Right(f[k - 1])
        BY <1>3, <2>1, <2>2
    <2>. QED BY <2>1, <2>3
<1>6. PICK g : /\ g = [k \in 0 .. n |-> IF k = 0 THEN nCursorPos ELSE Right(g[k - 1])]
               /\ Repeated(Right, n) = g[n]
    BY <1>5 DEF Repeated
<1>7. g[0] \in Here /\ \A k \in 1 .. n : g[k] = Right(g[k - 1])
    BY <1>1, <1>6
<1>8. \A k \in 1 .. n : g[k - 1] \in Here => g[k] \in Here
    BY <1>3, <1>7
<1>9. ASSUME NEW k \in 0 .. n PROVE g[k] \in Here
    <2>1. k \in Nat /\ \A j \in 1 .. k : g[j - 1] \in Here => g[j] \in Here
        BY <1>1, <1>8
    <2>. QED BY <1>7, <2>1, LoopIsIn
<1>10. g[0] = nCursorPos /\ n \in 0 .. n
    BY <1>1, <1>6
<1>. QED BY <1>1, <1>6, <1>7, <1>9, <1>10 DEF Runs

LEMMA UpRepeats ==
    ASSUME TextIInv, Editing, NEW n \in Repeats
    PROVE  /\ IsPlace(Repeated(SeekUpOneLine, n))
           /\ \E g : /\ Runs(g, n) /\ Repeated(SeekUpOneLine, n) = g[n]
                     /\ \A k \in 1 .. n : g[k] = SeekUpOneLine(g[k - 1])
<1>1. n \in Nat /\ nCursorPos \in Here /\ \A p : p \in Here <=> IsPlace(p)
    BY RepeatFacts
<1>2. PICK S : S = [p \in Here |-> SeekUpOneLine(p)]
    OBVIOUS
<1>3. \A p \in Here : S[p] = SeekUpOneLine(p) /\ SeekUpOneLine(p) \in Here
    BY <1>1, <1>2, RepeatFacts, UpEnds
<1>4. PICK f : RepeatOf(f, n, S)
    BY <1>1, <1>3, RepeatRuns DEF Within
<1>5. f = [k \in 0 .. n |-> IF k = 0 THEN nCursorPos ELSE SeekUpOneLine(f[k - 1])]
    <2>1. /\ f = [k \in 0 .. n |-> IF k = 0 THEN nCursorPos ELSE S[f[k - 1]]]
          /\ \A k \in 0 .. n : f[k] \in Here
        BY <1>4 DEF RepeatOf
    <2>2. \A k \in 0 .. n : k # 0 => k - 1 \in 0 .. n
        BY <1>1
    <2>3. \A k \in 0 .. n : k # 0 => S[f[k - 1]] = SeekUpOneLine(f[k - 1])
        BY <1>3, <2>1, <2>2
    <2>. QED BY <2>1, <2>3
<1>6. PICK g : /\ g = [k \in 0 .. n |-> IF k = 0 THEN nCursorPos ELSE SeekUpOneLine(g[k - 1])]
               /\ Repeated(SeekUpOneLine, n) = g[n]
    BY <1>5 DEF Repeated
<1>7. g[0] \in Here /\ \A k \in 1 .. n : g[k] = SeekUpOneLine(g[k - 1])
    BY <1>1, <1>6
<1>8. \A k \in 1 .. n : g[k - 1] \in Here => g[k] \in Here
    BY <1>3, <1>7
<1>9. ASSUME NEW k \in 0 .. n PROVE g[k] \in Here
    <2>1. k \in Nat /\ \A j \in 1 .. k : g[j - 1] \in Here => g[j] \in Here
        BY <1>1, <1>8
    <2>. QED BY <1>7, <2>1, LoopIsIn
<1>10. g[0] = nCursorPos /\ n \in 0 .. n
    BY <1>1, <1>6
<1>. QED BY <1>1, <1>6, <1>7, <1>9, <1>10 DEF Runs

LEMMA DownRepeats ==
    ASSUME TextIInv, Editing, NEW n \in Repeats
    PROVE  /\ IsPlace(Repeated(SeekDownOneLine, n))
           /\ \E g : /\ Runs(g, n) /\ Repeated(SeekDownOneLine, n) = g[n]
                     /\ \A k \in 1 .. n : g[k] = SeekDownOneLine(g[k - 1])
<1>1. n \in Nat /\ nCursorPos \in Here /\ \A p : p \in Here <=> IsPlace(p)
    BY RepeatFacts
<1>2. PICK S : S = [p \in Here |-> SeekDownOneLine(p)]
    OBVIOUS
<1>3. \A p \in Here : S[p] = SeekDownOneLine(p) /\ SeekDownOneLine(p) \in Here
    BY <1>1, <1>2, RepeatFacts, DownEnds
<1>4. PICK f : RepeatOf(f, n, S)
    BY <1>1, <1>3, RepeatRuns DEF Within
<1>5. f = [k \in 0 .. n |-> IF k = 0 THEN nCursorPos ELSE SeekDownOneLine(f[k - 1])]
    <2>1. /\ f = [k \in 0 .. n |-> IF k = 0 THEN nCursorPos ELSE S[f[k - 1]]]
          /\ \A k \in 0 .. n : f[k] \in Here
        BY <1>4 DEF RepeatOf
    <2>2. \A k \in 0 .. n : k # 0 => k - 1 \in 0 .. n
        BY <1>1
    <2>3. \A k \in 0 .. n : k # 0 => S[f[k - 1]] = SeekDownOneLine(f[k - 1])
        BY <1>3, <2>1, <2>2
    <2>. QED BY <2>1, <2>3
<1>6. PICK g : /\ g = [k \in 0 .. n |-> IF k = 0 THEN nCursorPos ELSE SeekDownOneLine(g[k - 1])]
               /\ Repeated(SeekDownOneLine, n) = g[n]
    BY <1>5 DEF Repeated
<1>7. g[0] \in Here /\ \A k \in 1 .. n : g[k] = SeekDownOneLine(g[k - 1])
    BY <1>1, <1>6
<1>8. \A k \in 1 .. n : g[k - 1] \in Here => g[k] \in Here
    BY <1>3, <1>7
<1>9. ASSUME NEW k \in 0 .. n PROVE g[k] \in Here
    <2>1. k \in Nat /\ \A j \in 1 .. k : g[j - 1] \in Here => g[j] \in Here
        BY <1>1, <1>8
    <2>. QED BY <1>7, <2>1, LoopIsIn
<1>10. g[0] = nCursorPos /\ n \in 0 .. n
    BY <1>1, <1>6
<1>. QED BY <1>1, <1>6, <1>7, <1>9, <1>10 DEF Runs

-----------------------------------------------------------------------------
(***************************************************************************)
(* Characters put into a text.                                             *)
(***************************************************************************)
\* s is put between what is before p and what is from there on.
LEMMA InsertEnds ==
    ASSUME NEW b, NEW p, NEW q, EndsBetween(b, p, q),
           NEW n \in Nat, q + n \in Places,
           NEW s \in Seq(Chars), Len(s) = n, code \/ OneLine(s)
    PROVE  EndsBetween(Put(Opened(b, p, q, n), p, s), p + n, q + n)
<1>1. /\ p \in Nat /\ q \in Nat /\ p <= q /\ q + n < Size /\ Size \in Nat
      /\ b \in Buffers /\ b[q] = Nul /\ \A i \in 0 .. p - 1 : b[i] # Nul
      /\ code \/ \A i \in 0 .. q - 1 : b[i] # LF
    BY PlacesAre DEF EndsBetween
<1>2. PICK x \in Nat, y \in Places : x = p + n /\ y = q + n /\ x <= y
    BY <1>1
<1>3. PICK d : d = Put(Opened(b, p, q, n), p, s)
    OBVIOUS
<1>4. /\ d = [i \in Places |-> IF i \in p .. p + n - 1 THEN s[i - p + 1]
                               ELSE Opened(b, p, q, n)[i]]
      /\ \A i \in Places : Opened(b, p, q, n)[i] = IF i \in p + n .. q + n THEN b[i - n] ELSE b[i]
    BY <1>3 DEF Put, Opened
<1>5. \A i \in Places : i \in p .. p + n - 1 => d[i] = s[i - p + 1] /\ i - p + 1 \in 1 .. n
    BY <1>1, <1>4, PlacesAre
<1>6. \A i \in Places : i \in p + n .. q + n => d[i] = b[i - n] /\ i - n \in p .. q /\ i - n \in Places
    BY <1>1, <1>4, PlacesAre
<1>7. \A i \in Places : i < p \/ i > q + n => d[i] = b[i]
    BY <1>1, <1>4, PlacesAre
<1>8. \A i \in Places : i < p \/ i \in p .. p + n - 1 \/ i \in p + n .. q + n \/ i > q + n
    BY <1>1, PlacesAre
<1>9. \A j \in 1 .. n : s[j] \in Chars /\ s[j] # Nul
    BY PlacesAre, CharsAssumption DEF Chars
<1>10. d \in Buffers
    <2>1. \A i \in Places : d[i] \in Chars \cup {Nul}
        BY <1>1, <1>5, <1>6, <1>7, <1>8, <1>9 DEF Buffers
    <2>. QED BY <1>4, <2>1 DEF Buffers
<1>11. d[y] = Nul
    <2>1. q + n \in p + n .. q + n /\ q + n - n = q
        BY <1>1
    <2>. QED BY <1>1, <1>2, <1>6, <2>1
<1>12. \A i \in 0 .. x - 1 : d[i] # Nul
    <2>. SUFFICES ASSUME NEW i \in 0 .. x - 1 PROVE d[i] # Nul
        OBVIOUS
    <2>1. i \in Places /\ i \in Nat
        BY <1>1, <1>2, PlacesAre
    <2>2. CASE i < p
        BY <1>1, <1>7, <2>1, <2>2
    <2>3. CASE i \in p .. p + n - 1
        BY <1>5, <1>9, <2>1, <2>3
    <2>. QED BY <1>1, <1>2, <2>1, <2>2, <2>3
<1>13. ASSUME ~code PROVE \A i \in 0 .. y - 1 : d[i] # LF
    <2>. SUFFICES ASSUME NEW i \in 0 .. y - 1 PROVE d[i] # LF
        OBVIOUS
    <2>1. i \in Places /\ i \in Nat
        BY <1>1, <1>2, PlacesAre
    <2>2. CASE i < p
        BY <1>1, <1>7, <1>13, <2>1, <2>2
    <2>3. CASE i \in p .. p + n - 1
        <3>1. \A j \in 1 .. n : s[j] # LF
            BY <1>13 DEF OneLine
        <3>. QED BY <1>5, <2>1, <2>3, <3>1
    <2>4. CASE i \in p + n .. q + n
        <3>1. i - n \in 0 .. q - 1
            BY <1>1, <1>2, <2>1, <2>4
        <3>. QED BY <1>1, <1>6, <1>13, <2>1, <2>4, <3>1
    <2>. QED BY <1>1, <1>2, <2>1, <2>2, <2>3, <2>4
<1>14. EndsBetween(d, x, y)
    BY <1>2, <1>10, <1>11, <1>12, <1>13 DEF EndsBetween
<1>. QED BY <1>2, <1>3, <1>14

\* A character replaces another.
LEMMA ReplaceEnds ==
    ASSUME NEW b, NEW p, NEW q, EndsBetween(b, p, q), p # q, NEW c \in Alnum \cup Other
    PROVE  EndsBetween(Put(b, p, <<c>>), p + 1, q)
<1>1. /\ p \in Nat /\ q \in Nat /\ p < q /\ q < Size /\ Size \in Nat /\ q \in Places
      /\ b \in Buffers /\ b[q] = Nul /\ \A i \in 0 .. p - 1 : b[i] # Nul
      /\ code \/ \A i \in 0 .. q - 1 : b[i] # LF
    BY PlacesAre DEF EndsBetween
<1>2. PICK d : d = Put(b, p, <<c>>)
    OBVIOUS
<1>3. d = [i \in Places |-> IF i \in p .. p + 1 - 1 THEN <<c>>[i - p + 1] ELSE b[i]]
    BY <1>2 DEF Put
<1>4. \A i \in Places : d[i] = IF i = p THEN c ELSE b[i]
    BY <1>1, <1>3, PlacesAre
<1>5. d \in Buffers
    <2>1. \A i \in Places : d[i] \in Chars \cup {Nul}
        BY <1>1, <1>4, PlacesAre DEF Buffers
    <2>. QED BY <1>3, <2>1 DEF Buffers
<1>6. c # Nul /\ c # LF
    BY PlacesAre
<1>7. d[q] = Nul
    BY <1>1, <1>4
<1>8. \A i \in 0 .. p + 1 - 1 : d[i] # Nul
    BY <1>1, <1>4, <1>6, PlacesAre
<1>9. code \/ \A i \in 0 .. q - 1 : d[i] # LF
    BY <1>1, <1>4, <1>6, PlacesAre
<1>. QED BY <1>1, <1>2, <1>5, <1>7, <1>8, <1>9 DEF EndsBetween

\* A character and a Nul are put where the text ends.
LEMMA AppendEnds ==
    ASSUME NEW b, NEW p, EndsBetween(b, p, p), p + 1 \in Places, NEW c \in Alnum \cup Other
    PROVE  EndsBetween(Appended(b, c), p + 1, p + 1)
<1>1. /\ p \in Nat /\ p + 1 < Size /\ Size \in Nat
      /\ b \in Buffers /\ \A i \in 0 .. p - 1 : b[i] # Nul
      /\ code \/ \A i \in 0 .. p - 1 : b[i] # LF
    BY PlacesAre DEF EndsBetween
<1>2. Length(b) = p
    <2>1. InText(b, p) /\ Length(b) <= p
        BY EndsInText
    <2>2. p <= Length(b) /\ Length(b) \in Nat
        BY <2>1, PlacesAre DEF InText
    <2>. QED BY <1>1, <2>1, <2>2
<1>3. PICK d : d = Appended(b, c)
    OBVIOUS
<1>4. d = [i \in Places |-> IF i \in p .. p + 2 - 1 THEN <<c, Nul>>[i - p + 1] ELSE b[i]]
    BY <1>2, <1>3 DEF Appended, Put
<1>5. \A i \in Places : d[i] = IF i = p THEN c ELSE IF i = p + 1 THEN Nul ELSE b[i]
    BY <1>1, <1>4, PlacesAre
<1>6. d \in Buffers
    <2>1. \A i \in Places : d[i] \in Chars \cup {Nul}
        BY <1>1, <1>5, PlacesAre DEF Buffers
    <2>. QED BY <1>4, <2>1 DEF Buffers
<1>7. c # Nul /\ c # LF
    BY PlacesAre
<1>8. d[p + 1] = Nul
    BY <1>1, <1>5
<1>9. \A i \in 0 .. p + 1 - 1 : d[i] # Nul
    BY <1>1, <1>5, <1>7, PlacesAre
<1>10. code \/ \A i \in 0 .. p + 1 - 1 : d[i] # LF
    BY <1>1, <1>5, <1>7, PlacesAre
<1>. QED BY <1>1, <1>3, <1>6, <1>8, <1>9, <1>10 DEF EndsBetween

-----------------------------------------------------------------------------
(***************************************************************************)
(* The keys that edit.                                                     *)
(***************************************************************************)
\* Where the text is taken to end after k characters were typed.
TypedEnd(g, k) == IF bOvertypeMode THEN g[k] ELSE Length(szText) + k
Grows(g, n) ==
    g = [k \in 0 .. n |-> IF k = 0 THEN Length(szText)
                          ELSE IF Nuked.p + k - 1 = g[k - 1] THEN g[k - 1] + 1 ELSE g[k - 1]]
Types(f, g, c, n) ==
    f = [k \in 0 .. n |-> IF k = 0 THEN Nuked
                          ELSE IF bOvertypeMode THEN Overtype(c, f[k - 1], g[k - 1])
                          ELSE Insert(c, f[k - 1], Length(szText) + k - 1)]

EntryStates == [b : Buffers, p : Nat]
\* The editor states after k characters.
After(g, k) == {e \in EntryStates : e.p = Lo + k /\ EndsBetween(e.b, e.p, TypedEnd(g, k))}

LEMMA TypingFacts ==
    ASSUME TextIInv, Editing, NEW n \in Repeats, Length(szText) + n < Size
    PROVE  /\ n \in Nat /\ Size \in Nat /\ Length(szText) \in Nat
           /\ Lo \in Nat /\ Lo <= Length(szText) /\ Nuked.p = Lo
           /\ \A k \in 0 .. n : Length(szText) + k \in Places
<1>1. n \in Nat /\ Size \in Nat /\ Length(szText) \in Nat
    BY RepeatFacts, PlacesAre
<1>2. Lo \in Nat /\ Lo <= Length(szText) /\ Nuked.p = Lo
    BY <1>1, SelectionIs, NukedIs
<1>3. \A k \in 0 .. n : Length(szText) + k \in Places
    BY <1>1, PlacesAre
<1>. QED BY <1>1, <1>2, <1>3

LEMMA GrowsRuns ==
    ASSUME TextIInv, Editing, NEW n \in Repeats, Length(szText) + n < Size
    PROVE  \E g : Grows(g, n)
<1>1. n \in Nat /\ Length(szText) \in Nat
    BY TypingFacts
<1>2. PICK x \in Nat, l \in Nat : x = Nuked.p /\ l = Length(szText)
    BY TypingFacts
<1>3. PICK step : step = [y \in (1 .. n) \X Nat |-> IF x + y[1] - 1 = y[2] THEN y[2] + 1 ELSE y[2]]
    OBVIOUS
<1>4. \A k \in 1 .. n : \A v \in Nat : step[<<k, v>>] = IF x + k - 1 = v THEN v + 1 ELSE v
    BY <1>3
<1>5. PICK T : T = [k \in 0 .. n |-> Nat]
    OBVIOUS
<1>6. T[0] = Nat /\ (\A k \in 0 .. n : T[k] = Nat) /\ \A k \in 1 .. n : T[k] = Nat /\ T[k - 1] = Nat
    BY <1>1, <1>5
<1>7. Closed(n, T, step)
    <2>1. ASSUME NEW k \in 1 .. n, NEW v \in Nat PROVE step[<<k, v>>] \in Nat
        <3>1. step[<<k, v>>] = v + 1 \/ step[<<k, v>>] = v
            BY <1>4
        <3>. QED BY <3>1
    <2>. QED BY <1>6, <2>1 DEF Closed
<1>8. PICK g : RunIn(g, n, T, l, step)
    BY <1>1, <1>6, <1>7, LoopStays
<1>9. /\ g = [k \in 0 .. n |-> IF k = 0 THEN l ELSE step[<<k, g[k - 1]>>]]
      /\ \A k \in 0 .. n : g[k] \in Nat
    BY <1>6, <1>8 DEF RunIn
<1>10. \A k \in 0 .. n : k # 0 => k \in 1 .. n /\ k - 1 \in 0 .. n
    BY <1>1
<1>11. \A k \in 0 .. n : k # 0 =>
          step[<<k, g[k - 1]>>] = IF x + k - 1 = g[k - 1] THEN g[k - 1] + 1 ELSE g[k - 1]
    BY <1>4, <1>9, <1>10
<1>12. g = [k \in 0 .. n |-> IF k = 0 THEN l
                             ELSE IF x + k - 1 = g[k - 1] THEN g[k - 1] + 1 ELSE g[k - 1]]
    BY <1>9, <1>11
<1>. QED BY <1>2, <1>12 DEF Grows

\* The end grows when the cursor has come to it, and not before.
LEMMA GrowsIs ==
    ASSUME TextIInv, Editing, NEW n \in Repeats, Length(szText) + n < Size, NEW g, Grows(g, n)
    PROVE  /\ g[0] = Length(szText)
           /\ \A k \in 0 .. n : g[k] \in Nat /\ Lo + k <= g[k] /\ g[k] <= Length(szText) + k
           /\ \A k \in 1 .. n : g[k] = IF Lo + k - 1 = g[k - 1] THEN g[k - 1] + 1 ELSE g[k - 1]
<1>1. PICK x \in Nat, l \in Nat : x = Lo /\ x = Nuked.p /\ l = Length(szText) /\ x <= l
    BY TypingFacts
<1>2. n \in Nat
    BY TypingFacts
<1>3. g = [k \in 0 .. n |-> IF k = 0 THEN l
                            ELSE IF x + k - 1 = g[k - 1] THEN g[k - 1] + 1 ELSE g[k - 1]]
    BY <1>1 DEF Grows
<1>4. 0 \in 0 .. n /\ \A k \in 1 .. n : k \in 0 .. n /\ k # 0
    BY <1>2
<1>5. g[0] = l
    BY <1>3, <1>4
<1>6. \A k \in 1 .. n : g[k] = IF x + k - 1 = g[k - 1] THEN g[k - 1] + 1 ELSE g[k - 1]
    BY <1>3, <1>4
<1>7. PICK T : T = [k \in 0 .. n |-> {v \in Nat : x + k <= v /\ v <= l + k}]
    OBVIOUS
<1>8. ASSUME NEW j \in 0 .. n PROVE g[j] \in Nat /\ x + j <= g[j] /\ g[j] <= l + j
    <2>1. j \in Nat
        OBVIOUS
    <2>2. g[0] \in T[0]
        BY <1>1, <1>4, <1>5, <1>7
    <2>3. ASSUME NEW k \in 1 .. j, g[k - 1] \in T[k - 1] PROVE g[k] \in T[k]
        <3>1. k \in 0 .. n /\ k - 1 \in 0 .. n /\ k \in 1 .. n
            BY <1>2
        <3>2. g[k - 1] \in Nat /\ x + (k - 1) <= g[k - 1] /\ g[k - 1] <= l + (k - 1)
            BY <1>7, <2>3, <3>1
        <3>3. g[k] \in Nat /\ x + k <= g[k] /\ g[k] <= l + k
            BY <1>6, <3>1, <3>2
        <3>. QED BY <1>7, <3>1, <3>3
    <2>4. g[j] \in T[j]
        BY <2>1, <2>2, <2>3, LoopKeeps
    <2>. QED BY <1>7, <2>4
<1>. QED BY <1>1, <1>5, <1>6, <1>8

\* One character more.
LEMMA TypeStep ==
    ASSUME TextIInv, Editing, NEW n \in Repeats, Length(szText) + n < Size, NEW g, Grows(g, n),
           NEW c \in Alnum \cup Other, NEW k \in 1 .. n, NEW e \in After(g, k - 1)
    PROVE  (IF bOvertypeMode THEN Overtype(c, e, g[k - 1]) ELSE Insert(c, e, Length(szText) + k - 1))
             \in After(g, k)
<1>1. n \in Nat /\ k \in 0 .. n /\ k - 1 \in 0 .. n /\ k \in Nat /\ k - 1 \in Nat
    BY TypingFacts
<1>2. PICK x \in Nat, l \in Nat : x = Lo /\ l = Length(szText) /\ x <= l
    BY TypingFacts
<1>3. PICK b, p : b = e.b /\ p = e.p
    OBVIOUS
<1>4. /\ b \in Buffers /\ p \in Nat /\ p = x + (k - 1) /\ EndsBetween(b, p, TypedEnd(g, k - 1))
    BY <1>2, <1>3 DEF After, EntryStates
<1>5. c \in Chars /\ l + k \in Places
    BY <1>1, <1>2, PlacesAre, TypingFacts
<1>6. CASE ~bOvertypeMode
    <2>1. PICK q : q = l + k - 1 /\ q = TypedEnd(g, k - 1) /\ q + 1 = l + k /\ q + 1 = TypedEnd(g, k)
        BY <1>1, <1>2, <1>6 DEF TypedEnd
    <2>2. <<c>> \in Seq(Chars) /\ Len(<<c>>) = 1
        BY <1>5
    <2>3. OneLine(<<c>>)
        BY PlacesAre DEF OneLine
    <2>4. EndsBetween(Put(Opened(b, p, q, 1), p, <<c>>), p + 1, q + 1)
        BY <1>4, <1>5, <2>1, <2>2, <2>3, InsertEnds
    <2>5. Insert(c, e, q) = [b |-> Put(Opened(b, p, q, 1), p, <<c>>), p |-> p + 1]
        BY <1>3 DEF Insert, Entry
    <2>6. Put(Opened(b, p, q, 1), p, <<c>>) \in Buffers /\ p + 1 \in Nat /\ p + 1 = x + k
        BY <1>1, <1>4, <2>4 DEF EndsBetween
    <2>7. Insert(c, e, q) \in After(g, k)
        BY <1>2, <2>1, <2>4, <2>5, <2>6 DEF After, EntryStates
    <2>. QED BY <1>2, <1>6, <2>1, <2>7
<1>7. CASE bOvertypeMode
    <2>1. PICK q \in Nat : q = g[k - 1] /\ q = TypedEnd(g, k - 1) /\ q <= l + (k - 1) /\ x + (k - 1) <= q
        BY <1>1, <1>2, <1>7, GrowsIs DEF TypedEnd
    <2>2. g[k] = (IF p = q THEN q + 1 ELSE q) /\ TypedEnd(g, k) = g[k]
        BY <1>1, <1>2, <1>4, <1>7, <2>1, GrowsIs DEF TypedEnd
    <2>3. q + 1 \in Places
        BY <1>1, <1>2, <1>5, <2>1, PlacesAre
    <2>4. PICK d : /\ d = (IF p = q THEN Appended(b, c) ELSE Put(b, p, <<c>>))
                   /\ EndsBetween(d, p + 1, TypedEnd(g, k))
        <3>1. CASE p = q
            BY <1>4, <2>1, <2>2, <2>3, <3>1, AppendEnds
        <3>2. CASE p # q
            BY <1>4, <2>1, <2>2, <3>2, ReplaceEnds
        <3>. QED BY <3>1, <3>2
    <2>5. Overtype(c, e, q) = [b |-> d, p |-> p + 1]
        BY <1>3, <2>4 DEF Overtype, Entry
    <2>6. d \in Buffers /\ p + 1 \in Nat /\ p + 1 = x + k
        BY <1>1, <1>4, <2>4 DEF EndsBetween
    <2>7. Overtype(c, e, q) \in After(g, k)
        BY <1>2, <2>4, <2>5, <2>6 DEF After, EntryStates
    <2>. QED BY <1>7, <2>1, <2>7
<1>. QED BY <1>6, <1>7

LEMMA StartIsAfter ==
    ASSUME TextIInv, Editing, NEW n \in Repeats, Length(szText) + n < Size, NEW g, Grows(g, n)
    PROVE  Nuked \in After(g, 0)
<1>1. Nuked.p = Lo /\ Lo \in Nat /\ Nuked.b \in Buffers
    BY TypingFacts, NukedIs
<1>2. Nuked = [b |-> Nuked.b, p |-> Nuked.p]
    BY DEF Nuked, Entry
<1>3. TypedEnd(g, 0) = Length(szText)
    BY TypingFacts, GrowsIs DEF TypedEnd
<1>4. EndsBetween(Nuked.b, Nuked.p, TypedEnd(g, 0))
    BY <1>1, <1>3, NukedEnds
<1>5. Nuked.p = Lo + 0
    BY <1>1
<1>. QED BY <1>1, <1>2, <1>4, <1>5 DEF After, EntryStates

LEMMA TypesRuns ==
    ASSUME TextIInv, Editing, NEW n \in Repeats, Length(szText) + n < Size, NEW g, Grows(g, n),
           NEW c \in Alnum \cup Other
    PROVE  \E f : Types(f, g, c, n)
<1>1. n \in Nat
    BY TypingFacts
<1>2. PICK step : step = [y \in (1 .. n) \X EntryStates |->
                            IF bOvertypeMode THEN Overtype(c, y[2], g[y[1] - 1])
                            ELSE Insert(c, y[2], Length(szText) + y[1] - 1)]
    OBVIOUS
<1>3. \A k \in 1 .. n : \A e \in EntryStates :
         step[<<k, e>>] = IF bOvertypeMode THEN Overtype(c, e, g[k - 1])
                          ELSE Insert(c, e, Length(szText) + k - 1)
    BY <1>2
<1>4. PICK T : T = [k \in 0 .. n |-> After(g, k)]
    OBVIOUS
<1>5. \A k \in 0 .. n : T[k] = After(g, k)
    BY <1>4
<1>6. \A k \in 1 .. n : k \in 0 .. n /\ k - 1 \in 0 .. n
    BY <1>1
<1>7. \A k : After(g, k) \subseteq EntryStates
    BY DEF After
<1>8. Closed(n, T, step)
    <2>. SUFFICES ASSUME NEW k \in 1 .. n, NEW e \in T[k - 1] PROVE step[<<k, e>>] \in T[k]
        BY DEF Closed
    <2>1. e \in After(g, k - 1) /\ T[k] = After(g, k)
        BY <1>5, <1>6
    <2>2. step[<<k, e>>] = IF bOvertypeMode THEN Overtype(c, e, g[k - 1])
                           ELSE Insert(c, e, Length(szText) + k - 1)
        BY <1>3, <1>7, <2>1
    <2>. QED BY <2>1, <2>2, TypeStep
<1>9. Nuked \in T[0]
    BY <1>1, <1>5, StartIsAfter
<1>10. PICK f : RunIn(f, n, T, Nuked, step)
    BY <1>1, <1>8, <1>9, LoopStays
<1>11. /\ f = [k \in 0 .. n |-> IF k = 0 THEN Nuked ELSE step[<<k, f[k - 1]>>]]
       /\ \A k \in 0 .. n : f[k] \in EntryStates
    BY <1>5, <1>7, <1>10 DEF RunIn
<1>12. \A k \in 0 .. n : k # 0 => k \in 1 .. n /\ k - 1 \in 0 .. n
    BY <1>1
<1>13. \A k \in 0 .. n : k # 0 =>
          step[<<k, f[k - 1]>>] = IF bOvertypeMode THEN Overtype(c, f[k - 1], g[k - 1])
                                  ELSE Insert(c, f[k - 1], Length(szText) + k - 1)
    BY <1>3, <1>11, <1>12
<1>14. f = [k \in 0 .. n |-> IF k = 0 THEN Nuked
                             ELSE IF bOvertypeMode THEN Overtype(c, f[k - 1], g[k - 1])
                             ELSE Insert(c, f[k - 1], Length(szText) + k - 1)]
    BY <1>11, <1>13
<1>. QED BY <1>14 DEF Types

LEMMA TypeKeeps ==
    ASSUME TextIInv, Editing, NEW n \in Repeats, NEW c \in Alnum \cup Other,
           Length(szText) + n < Size, Edits(Typed(c, n))
    PROVE  TextIInv'
<1>1. n \in Nat
    BY TypingFacts
<1>2. /\ \E g : Grows(g, n)
      /\ \A g : Grows(g, n) => \E f : Types(f, g, c, n)
    BY GrowsRuns, TypesRuns
<1>3. PICK g, f : Grows(g, n) /\ Types(f, g, c, n) /\ Typed(c, n) = f[n]
    BY <1>2 DEF Grows, Types, Typed
<1>4. f = [k \in 0 .. n |-> IF k = 0 THEN Nuked
                            ELSE IF bOvertypeMode THEN Overtype(c, f[k - 1], g[k - 1])
                            ELSE Insert(c, f[k - 1], Length(szText) + k - 1)]
    BY <1>3 DEF Types
<1>5. 0 \in 0 .. n /\ \A k \in 1 .. n : k \in 0 .. n /\ k # 0 /\ k - 1 \in 0 .. n
    BY <1>1
<1>6. f[0] = Nuked
    BY <1>4, <1>5
<1>7. \A k \in 1 .. n : f[k] = IF bOvertypeMode THEN Overtype(c, f[k - 1], g[k - 1])
                               ELSE Insert(c, f[k - 1], Length(szText) + k - 1)
    BY <1>4, <1>5
<1>8. PICK T : T = [k \in 0 .. n |-> After(g, k)]
    OBVIOUS
<1>9. \A k \in 0 .. n : T[k] = After(g, k)
    BY <1>8
<1>10. f[0] \in T[0]
    BY <1>3, <1>5, <1>6, <1>9, StartIsAfter
<1>11. ASSUME NEW k \in 1 .. n, f[k - 1] \in T[k - 1] PROVE f[k] \in T[k]
    <2>1. f[k - 1] \in After(g, k - 1) /\ T[k] = After(g, k)
        BY <1>5, <1>9, <1>11
    <2>2. f[k] \in After(g, k)
        BY <1>3, <1>7, <2>1, TypeStep
    <2>. QED BY <2>1, <2>2
<1>12. f[n] \in T[n]
    BY <1>1, <1>10, <1>11, LoopKeeps
<1>13. PICK e : e = f[n] /\ EndsBetween(e.b, e.p, TypedEnd(g, n))
    BY <1>1, <1>9, <1>12 DEF After
<1>14. InText(e.b, e.p)
    BY <1>13, EndsInText
<1>. QED BY <1>3, <1>13, <1>14, EditKeeps

\* What slides down brings its end along, and nothing that was not in the text.
LEMMA SlidEnds ==
    ASSUME NEW b, NEW p \in Nat, NEW len \in Nat, NEW k \in Nat \ {0}, EndsBetween(b, p, len), k <= p
    PROVE  EndsBetween(Slid(b, p, len, k), p - k, len - k)
<1>1. PICK x \in Nat, q \in Nat : x = p - k /\ q = len - k /\ x <= q /\ q <= len /\ len \in Places
    BY DEF EndsBetween
<1>2. PICK d : d = Slid(b, p, len, k)
    OBVIOUS
<1>3. d = [i \in Places |-> IF i \in x .. q THEN b[len - ((len - i) % k)] ELSE b[i]]
    BY <1>1, <1>2 DEF Slid
<1>4. b \in Buffers /\ b[len] = Nul /\ \A i \in 0 .. p - 1 : b[i] # Nul
    BY DEF EndsBetween
<1>5. ASSUME NEW i \in x .. q PROVE \E j \in 0 .. len : j = len - ((len - i) % k)
    <2>1. PICK r \in Nat : r = len - i
        BY <1>1
    <2>2. r % k \in 0 .. k - 1
        BY <2>1
    <2>3. PICK m \in Nat : m = r % k /\ m < k
        BY <2>2
    <2>4. len - m \in 0 .. len
        BY <1>1, <2>3
    <2>. QED BY <2>1, <2>3, <2>4
<1>6. \A j \in 0 .. len : j \in Places
    BY <1>1, PlacesAre
<1>7. d \in Buffers
    <2>1. ASSUME NEW i \in Places PROVE d[i] \in Chars \cup {Nul}
        <3>1. CASE i \in x .. q
            <4>1. PICK j \in 0 .. len : j = len - ((len - i) % k)
                BY <1>5, <3>1
            <4>. QED BY <1>3, <1>4, <1>6, <3>1, <4>1 DEF Buffers
        <3>2. CASE i \notin x .. q
            BY <1>3, <1>4, <3>2 DEF Buffers
        <3>. QED BY <3>1, <3>2
    <2>. QED BY <1>3, <2>1 DEF Buffers
<1>8. q \in Places /\ q \in x .. q
    BY <1>1, PlacesAre
<1>9. d[q] = Nul
    <2>1. len - q = k
        BY <1>1
    <2>2. k % k = 0
        OBVIOUS
    <2>3. len - ((len - q) % k) = len
        BY <2>1, <2>2
    <2>. QED BY <1>3, <1>4, <1>8, <2>3
<1>10. \A i \in 0 .. x - 1 : d[i] # Nul
    <2>1. \A i \in 0 .. x - 1 : i \in Places /\ i \notin x .. q /\ i \in 0 .. p - 1
        BY <1>1, PlacesAre
    <2>. QED BY <1>3, <1>4, <2>1
<1>11. ASSUME ~code PROVE \A i \in 0 .. q - 1 : d[i] # LF
    <2>1. \A j \in 0 .. len - 1 : b[j] # LF
        BY <1>11 DEF EndsBetween
    <2>2. \A j \in 0 .. len : b[j] # LF
        BY <1>4, <2>1, PlacesAre
    <2>. SUFFICES ASSUME NEW i \in 0 .. q - 1 PROVE d[i] # LF
        OBVIOUS
    <2>3. i \in Places /\ i \in 0 .. len
        BY <1>1, PlacesAre
    <2>4. CASE i \in x .. q
        <3>1. PICK j \in 0 .. len : j = len - ((len - i) % k)
            BY <1>5, <2>4
        <3>. QED BY <1>3, <2>2, <2>3, <2>4, <3>1
    <2>5. CASE i \notin x .. q
        BY <1>3, <2>2, <2>3, <2>5
    <2>. QED BY <2>4, <2>5
<1>12. EndsBetween(d, x, q)
    BY <1>1, <1>7, <1>8, <1>9, <1>10, <1>11 DEF EndsBetween
<1>. QED BY <1>1, <1>2, <1>12

\* The count of what is pasted: not more than there is, and all of it within the limit if the
\* text is.
LEMMA CountIs ==
    ASSUME NEW len \in Nat, NEW m \in Nat, NEW n, n = IF len + m + 1 >= MaxLen THEN MaxLen - len - 1 ELSE m
    PROVE  /\ n \in Int /\ n <= m /\ n <= MaxLen - len - 1
           /\ n < 0 => len >= MaxLen
<1>1. MaxLen \in Nat
    BY PlacesAre
<1>2. CASE len + m + 1 >= MaxLen
    BY <1>1, <1>2
<1>3. CASE ~(len + m + 1 >= MaxLen)
    BY <1>1, <1>3
<1>. QED BY <1>2, <1>3

LEMMA PasteKeeps ==
    ASSUME TextIInv, Editing, NEW clip \in Clips, code \/ OneLine(clip), Paste(clip)
    PROVE  TextIInv'
<1>1. PICK len \in Nat, p \in Nat :
         /\ len = Length(Nuked.b) /\ len \in Places /\ p = Nuked.p /\ p <= len
         /\ EndsBetween(Nuked.b, p, len)
    BY NukedIs, NukedEnds, PlacesAre, SelectionIs DEF EndsBetween
<1>2. PICK m \in Nat : clip \in Seq(Chars) /\ m = Len(clip)
    BY TextsAssumption DEF Chars
<1>3. PICK n : n = IF len + m + 1 >= MaxLen THEN MaxLen - len - 1 ELSE m
    OBVIOUS
<1>4. n \in Int /\ n <= m /\ n <= MaxLen - len - 1 /\ (n < 0 => len >= MaxLen)
    BY <1>3, CountIs
<1>5. MaxLen \in Nat /\ Size \in Nat /\ MaxLen <= Size
    BY PlacesAre
<1>6. \/ /\ n >= 0
         /\ Edits(Entry(Put(Opened(Nuked.b, Nuked.p, len, n), Nuked.p, SubSeq(clip, 1, n)), Nuked.p + n))
      \/ /\ n < 0 /\ Nuked.p + n >= 0
         /\ Edits(Entry(Slid(Nuked.b, Nuked.p, len, -n), Nuked.p + n))
      \/ Nuked.p + n < 0 /\ Ruin
    BY <1>1, <1>2, <1>3 DEF Paste
<1>7. CASE /\ n >= 0
           /\ Edits(Entry(Put(Opened(Nuked.b, Nuked.p, len, n), Nuked.p, SubSeq(clip, 1, n)), Nuked.p + n))
    <2>1. PICK r \in Nat : r = n /\ len + r \in Places
        BY <1>4, <1>5, <1>7, PlacesAre
    <2>2. PICK s : s = SubSeq(clip, 1, r)
        OBVIOUS
    <2>3. s \in Seq(Chars) /\ Len(s) = r /\ \A i \in 1 .. r : s[i] = clip[i]
        BY <1>2, <1>4, <2>1, <2>2
    <2>4. code \/ OneLine(s)
        BY <1>2, <1>4, <2>1, <2>3 DEF OneLine
    <2>5. EndsBetween(Put(Opened(Nuked.b, p, len, r), p, s), p + r, len + r)
        BY <1>1, <2>1, <2>3, <2>4, InsertEnds
    <2>6. PICK e : e = Entry(Put(Opened(Nuked.b, p, len, r), p, s), p + r) /\ Edits(e)
        BY <1>1, <1>7, <2>1, <2>2
    <2>7. InText(e.b, e.p)
        BY <2>5, <2>6, EndsInText DEF Entry
    <2>. QED BY <2>6, <2>7, EditKeeps
<1>8. CASE n < 0 /\ Nuked.p + n >= 0 /\ Edits(Entry(Slid(Nuked.b, Nuked.p, len, -n), Nuked.p + n))
    <2>1. PICK k \in Nat \ {0} : k = -n /\ k <= p /\ p + n = p - k
        BY <1>1, <1>4, <1>8
    <2>2. EndsBetween(Slid(Nuked.b, p, len, k), p - k, len - k)
        BY <1>1, <2>1, SlidEnds
    <2>3. PICK e : e = Entry(Slid(Nuked.b, p, len, k), p - k) /\ Edits(e)
        BY <1>1, <1>8, <2>1
    <2>4. InText(e.b, e.p)
        BY <2>2, <2>3, EndsInText DEF Entry
    <2>. QED BY <2>3, <2>4, EditKeeps
<1>9. CASE Nuked.p + n < 0 /\ Ruin
    <2>1. n < 0 /\ len >= MaxLen
        BY <1>1, <1>4, <1>9
    <2>2. PICK l \in Nat : l = Length(szText) /\ l >= len
        <3>1. PICK x \in Nat, y \in Nat, l \in Nat : x = Lo /\ y = Hi /\ x <= y /\ l = Length(szText)
            BY SelectionIs, EditingFacts, PlacesAre
        <3>2. len = x + l - y
            BY <1>1, <3>1, NukedEnds
        <3>. QED BY <3>1, <3>2
    <2>3. l >= MaxLen
        BY <1>5, <2>1, <2>2
    <2>4. mode' = "ruined" /\ UNCHANGED <<code, szText, nCursorPos, nSelAnchorPos, bOvertypeMode>>
        BY <1>9 DEF Ruin, entry
    <2>5. mode # "idle"
        BY DEF Editing
    <2>. QED BY <2>2, <2>3, <2>4, <2>5 DEF TextIInv, TextTypeOK, InText
<1>. QED BY <1>6, <1>7, <1>8, <1>9

LEMMA ReturnKeeps ==
    ASSUME TextIInv, ReturnKey
    PROVE  TextIInv'
<1>1. Editing /\ code
    BY DEF ReturnKey
<1>2. PICK len \in Nat : /\ len = Length(Nuked.b) /\ len \in Places
                         /\ EndsBetween(Nuked.b, Nuked.p, len)
    BY <1>1, NukedIs, NukedEnds, PlacesAre DEF EndsBetween
<1>3. CASE len + 1 < MaxLen
    <2>1. len + 1 \in Places /\ <<LF>> \in Seq(Chars) /\ Len(<<LF>>) = 1
        BY <1>2, <1>3, PlacesAre
    <2>2. EndsBetween(Put(Opened(Nuked.b, Nuked.p, len, 1), Nuked.p, <<LF>>), Nuked.p + 1, len + 1)
        BY <1>1, <1>2, <2>1, InsertEnds
    <2>3. PICK e : /\ e = Entry(Put(Opened(Nuked.b, Nuked.p, len, 1), Nuked.p, <<LF>>), Nuked.p + 1)
                   /\ Edits(e)
        BY <1>2, <1>3 DEF ReturnKey
    <2>4. InText(e.b, e.p)
        BY <2>2, <2>3, EndsInText DEF Entry
    <2>. QED BY <1>1, <2>3, <2>4, EditKeeps
<1>4. CASE ~(len + 1 < MaxLen)
    <2>1. Edits(Nuked)
        BY <1>2, <1>4 DEF ReturnKey
    <2>. QED BY <1>1, <2>1, CutKeeps
<1>. QED BY <1>3, <1>4

\* What is behind t, if anything, moves to p with the end.
LEMMA MoveDownEnds ==
    ASSUME TextIInv, Editing, NEW p \in Nat, NEW t \in Nat, p <= t, t <= Length(szText)
    PROVE  EndsBetween([i \in Places |-> szText[IF i \in p .. p + Length(szText) - t THEN i + t - p ELSE i]],
                       p, p + Length(szText) - t)
<1>1. PICK l \in Places : l = Length(szText)
    BY EditingFacts
<1>2. l \in Nat /\ l < Size /\ Size \in Nat
    BY PlacesAre
<1>3. PICK q \in Nat : q = p + l - t /\ p <= q /\ q <= l /\ q \in Places
    BY <1>1, <1>2, PlacesAre
<1>4. PICK b : b = [i \in Places |-> szText[IF i \in p .. q THEN i + t - p ELSE i]]
    OBVIOUS
<1>5. \A i \in Places : b[i] = IF i \in p .. q THEN szText[i + t - p] ELSE szText[i]
    BY <1>4
<1>6. /\ szText \in Buffers /\ szText[l] = Nul /\ \A i \in 0 .. l - 1 : szText[i] # Nul
      /\ code \/ \A i \in 0 .. l - 1 : szText[i] # LF
    BY <1>1, EditingFacts
<1>7. \A i \in Places : i \in p .. q => i + t - p \in Places /\ i + t - p \in 0 .. l
    BY <1>1, <1>2, <1>3, PlacesAre
<1>8. b \in Buffers
    <2>1. \A i \in Places : b[i] \in Chars \cup {Nul}
        BY <1>5, <1>6, <1>7 DEF Buffers
    <2>. QED BY <1>4, <2>1 DEF Buffers
<1>9. b[q] = Nul
    <2>1. q + t - p = l /\ q \in p .. q
        BY <1>2, <1>3
    <2>. QED BY <1>3, <1>5, <1>6, <2>1
<1>10. \A i \in 0 .. p - 1 : b[i] # Nul
    <2>. SUFFICES ASSUME NEW i \in 0 .. p - 1 PROVE b[i] # Nul
        OBVIOUS
    <2>1. i \in Places /\ i \in 0 .. l - 1 /\ i \notin p .. q
        BY <1>1, <1>2, PlacesAre
    <2>. QED BY <1>5, <1>6, <2>1
<1>11. ASSUME ~code PROVE \A i \in 0 .. q - 1 : b[i] # LF
    <2>. SUFFICES ASSUME NEW i \in 0 .. q - 1 PROVE b[i] # LF
        OBVIOUS
    <2>1. i \in Places /\ i \in Nat /\ i \in 0 .. l - 1
        BY <1>2, <1>3, PlacesAre
    <2>2. CASE i \in p .. q
        <3>1. i + t - p \in 0 .. l - 1
            BY <1>1, <1>2, <1>3, <2>1, <2>2
        <3>. QED BY <1>5, <1>6, <1>11, <2>1, <2>2, <3>1
    <2>3. CASE i \notin p .. q
        BY <1>5, <1>6, <1>11, <2>1, <2>3
    <2>. QED BY <2>2, <2>3
<1>12. EndsBetween(b, p, q)
    BY <1>3, <1>8, <1>9, <1>10, <1>11 DEF EndsBetween
<1>. QED BY <1>1, <1>3, <1>4, <1>12

\* A key that leaves the text as it was.
LEMMA NothingIs ==
    ASSUME TextIInv, Editing
    PROVE  EndsBetween(szText, nCursorPos, Length(szText))
<1>1. nCursorPos \in Nat /\ Length(szText) \in Nat
    BY EditingFacts, PlacesAre
<1>2. \A i \in 0 .. nCursorPos - 1 : i \in 0 .. Length(szText) - 1
    BY <1>1, EditingFacts
<1>. QED BY <1>1, <1>2, EditingFacts DEF EndsBetween

LEMMA BackKeeps ==
    ASSUME TextIInv, NEW n \in Repeats, BackKey(n)
    PROVE  TextIInv'
<1>1. Editing
    BY DEF BackKey
<1>2. CASE nSelAnchorPos # NoAnchor
    BY <1>1, <1>2, CutKeeps DEF BackKey
<1>3. CASE nSelAnchorPos = NoAnchor /\ nCursorPos = 0
    <2>1. Same
        BY <1>3 DEF BackKey
    <2>2. UNCHANGED <<mode, code, szText, nCursorPos, nSelAnchorPos, bOvertypeMode>>
        BY <2>1 DEF Same, textVars, entry
    <2>. QED BY <2>2 DEF TextIInv, TextTypeOK, InText
<1>4. CASE nSelAnchorPos = NoAnchor /\ nCursorPos # 0
    <2>1. PICK l \in Nat, t \in Nat : l = Length(szText) /\ t = nCursorPos /\ t <= l
        BY <1>1, EditingFacts, PlacesAre
    <2>2. n \in Nat
        BY <1>1, RepeatFacts
    <2>3. PICK p \in Nat : p = Max({0, t - n}) /\ p <= t
        <3>1. t - n \in Int
            BY <2>1, <2>2
        <3>2. Max({0, t - n}) = IF t - n >= 0 THEN t - n ELSE 0
            BY <3>1, MaxWithZero
        <3>. QED BY <2>1, <2>2, <3>1, <3>2
    <2>4. PICK e : /\ e = Entry([i \in Places |-> szText[IF i \in p .. p + l - t THEN i + t - p ELSE i]], p)
                   /\ Edits(e)
        BY <1>4, <2>1, <2>3 DEF BackKey
    <2>5. EndsBetween([i \in Places |-> szText[IF i \in p .. p + l - t THEN i + t - p ELSE i]], p, p + l - t)
        BY <1>1, <2>1, <2>3, MoveDownEnds
    <2>6. InText(e.b, e.p)
        BY <2>4, <2>5, EndsInText DEF Entry
    <2>. QED BY <1>1, <2>4, <2>6, EditKeeps
<1>. QED BY <1>2, <1>3, <1>4

LEMMA DeleteKeeps ==
    ASSUME TextIInv, NEW n \in Repeats, DeleteKey(n)
    PROVE  TextIInv'
<1>1. Editing
    BY DEF DeleteKey
<1>2. CASE nSelAnchorPos # NoAnchor
    BY <1>1, <1>2, CutKeeps DEF DeleteKey
<1>3. CASE nSelAnchorPos = NoAnchor
    <2>1. PICK l \in Nat, p \in Nat : l = Length(szText) /\ p = nCursorPos /\ p <= l
        BY <1>1, EditingFacts, PlacesAre
    <2>2. n \in Nat
        BY <1>1, RepeatFacts
    <2>3. PICK e : /\ e = Entry([i \in Places |-> szText[IF i \in p .. l - n THEN i + n ELSE i]], p)
                   /\ Edits(e)
        BY <1>3, <2>1 DEF DeleteKey
    <2>4. PICK b : b = [i \in Places |-> szText[IF i \in p .. l - n THEN i + n ELSE i]]
        OBVIOUS
    <2>5. CASE p + n <= l
        <3>1. PICK t \in Nat : t = p + n /\ p <= t /\ t <= l /\ p + l - t = l - n
            BY <2>1, <2>2, <2>5
        <3>2. \A i \in Places : i + t - p = i + n
            BY <2>1, <2>2, <3>1, PlacesAre
        <3>3. b = [i \in Places |-> szText[IF i \in p .. p + l - t THEN i + t - p ELSE i]]
            BY <2>4, <3>1, <3>2
        <3>4. EndsBetween([i \in Places |-> szText[IF i \in p .. p + l - t THEN i + t - p ELSE i]],
                          p, p + l - t)
            BY <1>1, <2>1, <3>1, MoveDownEnds
        <3>5. InText(b, p)
            BY <3>3, <3>4, EndsInText
        <3>. QED BY <1>1, <2>3, <2>4, <3>5, EditKeeps DEF Entry
    <2>6. CASE p + n > l
        <3>1. \A i \in Places : i \notin p .. l - n
            BY <2>1, <2>2, <2>6, PlacesAre
        <3>2. szText \in [Places -> Chars \cup {Nul}]
            BY <1>1, EditingFacts DEF Buffers
        <3>3. b = [i \in Places |-> szText[i]]
            BY <2>4, <3>1
        <3>4. b = szText
            BY <3>2, <3>3
        <3>5. InText(b, p)
            BY <1>1, <2>1, <3>4, NothingIs, EndsInText
        <3>. QED BY <1>1, <2>3, <2>4, <3>5, EditKeeps DEF Entry
    <2>. QED BY <2>1, <2>2, <2>5, <2>6
<1>. QED BY <1>2, <1>3

-----------------------------------------------------------------------------
(***************************************************************************)
(* Beginning and end, and the theorems.                                    *)
(***************************************************************************)
LEMMA BeginKeeps ==
    ASSUME TextIInv, NEW text \in Texts, NEW asCode \in BOOLEAN, Begin(text, asCode)
    PROVE  TextIInv'
<1>1. /\ mode' = "editing" /\ code' = asCode /\ nSelAnchorPos' = NoAnchor
      /\ szText' = [i \in Places |-> IF i < Len(text) THEN text[i + 1]
                                     ELSE IF i = Len(text) THEN Nul ELSE szText[i]]
      /\ UNCHANGED bOvertypeMode /\ (asCode \/ OneLine(text))
    BY DEF Begin
<1>2. text \in Seq(Chars)
    BY TextsAssumption DEF Chars
<1>3. PICK l \in Nat : l = Len(text) /\ l < Size /\ l \in Places
    BY <1>2, LengthsAssumption, PlacesAre
<1>4. nCursorPos' \in Nat /\ nCursorPos' <= l
    BY <1>3 DEF Begin
<1>5. PICK b : b = szText'
    OBVIOUS
<1>6. b = [i \in Places |-> IF i < l THEN text[i + 1] ELSE IF i = l THEN Nul ELSE szText[i]]
    BY <1>1, <1>3, <1>5
<1>7. \A j \in 1 .. l : text[j] \in Chars /\ text[j] # Nul /\ (~asCode => text[j] # LF)
    BY <1>1, <1>2, <1>3, PlacesAre, CharsAssumption DEF Chars, OneLine
<1>8. \A i \in Places : i < l => b[i] = text[i + 1] /\ i + 1 \in 1 .. l
    BY <1>3, <1>6, PlacesAre
<1>9. \A i \in 0 .. l - 1 : i \in Places /\ i < l
    BY <1>3, PlacesAre
<1>10. \A i \in 0 .. l - 1 : b[i] # Nul /\ (asCode \/ b[i] # LF)
    BY <1>7, <1>8, <1>9
<1>11. b \in Buffers
    <2>1. \A i \in Places : b[i] \in Chars \cup {Nul}
        BY <1>6, <1>7, <1>8 DEF TextIInv, TextTypeOK
    <2>. QED BY <1>6, <2>1 DEF Buffers
<1>12. b[l] = Nul
    BY <1>3, <1>6
<1>13. Length(b) \in Places /\ b[Length(b)] = Nul /\ Length(b) <= l /\ Length(b) \in Nat
    BY <1>3, <1>11, <1>12, LengthIs, PlacesAre
<1>14. Length(b) = l
    <2>1. ~(Length(b) \in 0 .. l - 1)
        BY <1>10, <1>13
    <2>. QED BY <1>13, <2>1
<1>15. nCursorPos' \in Places
    BY <1>3, <1>4, PlacesAre
<1>16. code' \/ \A i \in 0 .. l - 1 : b[i] # LF
    BY <1>1, <1>10
<1>17. InText(szText, nCursorPos)'
    BY <1>3, <1>4, <1>5, <1>10, <1>11, <1>12, <1>14, <1>15, <1>16 DEF InText
<1>18. TextTypeOK'
    BY <1>1, <1>5, <1>11, <1>15 DEF TextIInv, TextTypeOK, Buffers
<1>19. \E i \in Places : szText'[i] = Nul
    BY <1>3, <1>5, <1>12
<1>. QED BY <1>1, <1>17, <1>18, <1>19 DEF TextIInv

\* What leaves the text and the cursor leaves the invariant, if it begins nothing.
LEMMA ModeKeeps ==
    ASSUME TextIInv, UNCHANGED <<code, entry>>, bOvertypeMode' \in BOOLEAN,
           mode' = mode \/ mode' \in {"idle", "editing", "asking"}, mode = "idle" => mode' = "idle"
    PROVE  TextIInv'
<1>1. UNCHANGED <<code, szText, nCursorPos, nSelAnchorPos>>
    BY DEF entry
<1>2. TextTypeOK'
    BY <1>1 DEF TextIInv, TextTypeOK
<1>3. mode' # "idle" => InText(szText, nCursorPos)' /\ (nSelAnchorPos' # NoAnchor => nSelAnchorPos' <= Length(szText'))
    BY <1>1 DEF TextIInv, InText
<1>4. mode' = "ruined" => mode = "ruined"
    OBVIOUS
<1>. QED BY <1>1, <1>2, <1>3, <1>4 DEF TextIInv

LEMMA NextKeeps ==
    ASSUME TextIInv, [TextNext]_textVars
    PROVE  TextIInv'
<1>1. ASSUME NEW text \in Texts, NEW asCode \in BOOLEAN, Begin(text, asCode) PROVE TextIInv'
    BY <1>1, BeginKeeps
<1>2. CASE AcceptCode \/ AcceptName \/ EscapeKey \/ ToggleOvertype
    <2>1. bOvertypeMode \in BOOLEAN
        BY DEF TextIInv, TextTypeOK
    <2>2. mode = "editing" /\ UNCHANGED <<code, entry>> /\ bOvertypeMode' \in BOOLEAN
        BY <1>2, <2>1 DEF AcceptCode, AcceptName, EscapeKey, ToggleOvertype, Editing
    <2>3. mode' \in {"idle", "editing", "asking"}
        BY <1>2 DEF AcceptCode, AcceptName, EscapeKey, ToggleOvertype, Editing
    <2>. QED BY <2>2, <2>3, ModeKeeps
<1>3. ASSUME NEW mode2 \in {"idle", "editing"}, Answer(mode2) PROVE TextIInv'
    BY <1>3, ModeKeeps DEF Answer, TextIInv, TextTypeOK
<1>4. ASSUME NEW c \in Alnum \cup Other, NEW n \in Repeats, Type(c, n) PROVE TextIInv'
    <2>1. Editing
        BY <1>4 DEF Type
    <2>2. CASE Length(szText) + n >= MaxLen
        <3>1. Same
            BY <1>4, <2>2 DEF Type
        <3>. QED BY <3>1, ModeKeeps DEF Same, textVars, TextIInv, TextTypeOK
    <2>3. CASE ~(Length(szText) + n >= MaxLen)
        <3>1. Length(szText) + n < MaxLen
            BY <2>1, <2>3, RepeatFacts, PlacesAre
        <3>2. Edits(Typed(c, n))
            BY <1>4, <2>3 DEF Type
        <3>3. Length(szText) + n < Size
            BY <2>1, <3>1, RepeatFacts, EditingFacts, PlacesAre
        <3>. QED BY <2>1, <3>2, <3>3, TypeKeeps
    <2>. QED BY <2>2, <2>3
<1>5. CASE CutKey
    <2>1. CASE nSelAnchorPos = NoAnchor
        BY <1>5, <2>1, ModeKeeps DEF CutKey, Same, textVars, TextIInv, TextTypeOK
    <2>2. CASE nSelAnchorPos # NoAnchor
        BY <1>5, <2>2, CutKeeps DEF CutKey
    <2>. QED BY <2>1, <2>2
<1>6. CASE ReturnKey
    BY <1>6, ReturnKeeps
<1>7. ASSUME NEW clip \in Clips, code \/ OneLine(clip), Paste(clip) PROVE TextIInv'
    BY <1>7, PasteKeeps DEF Paste
<1>8. ASSUME NEW n \in Repeats, BackKey(n) \/ DeleteKey(n) PROVE TextIInv'
    BY <1>8, BackKeeps, DeleteKeeps
<1>9. ASSUME NEW p, NEW shift \in BOOLEAN, Move(p, shift), Editing => IsPlace(p) PROVE TextIInv'
    BY <1>9, MoveKeeps DEF Move, IsPlace
<1>10. ASSUME NEW n \in Repeats, NEW shift \in BOOLEAN,
              MoveLeft(n, shift) \/ MoveRight(n, shift) \/ MoveUp(n, shift) \/ MoveDown(n, shift)
       PROVE  TextIInv'
    <2>1. CASE MoveLeft(n, shift)
        BY <1>9, <2>1, LeftRepeats DEF MoveLeft
    <2>2. CASE MoveRight(n, shift)
        BY <1>9, <2>2, RightRepeats DEF MoveRight
    <2>3. CASE MoveUp(n, shift)
        BY <1>9, <2>3, UpRepeats DEF MoveUp
    <2>4. CASE MoveDown(n, shift)
        BY <1>9, <2>4, DownRepeats DEF MoveDown
    <2>. QED BY <1>10, <2>1, <2>2, <2>3, <2>4
<1>11. ASSUME NEW shift \in BOOLEAN,
              \/ MoveHome(shift) \/ MoveEnd(shift) \/ MoveLeftWord(shift) \/ MoveRightWord(shift)
              \/ MoveFirst(shift) \/ MoveLast(shift)
       PROVE  TextIInv'
    <2>1. CASE MoveHome(shift)
        BY <1>9, <2>1, HomeEnds DEF MoveHome
    <2>2. CASE MoveEnd(shift)
        BY <1>9, <2>2, EndEnds DEF MoveEnd
    <2>3. CASE MoveLeftWord(shift)
        BY <1>9, <2>3, LeftWordEnds DEF MoveLeftWord
    <2>4. CASE MoveRightWord(shift)
        BY <1>9, <2>4, RightWordEnds DEF MoveRightWord
    <2>5. CASE MoveFirst(shift)
        <3>1. Editing => IsPlace(0)
            BY EditingFacts, PlacesAre DEF IsPlace
        <3>. QED BY <1>9, <2>5, <3>1 DEF MoveFirst
    <2>6. CASE MoveLast(shift)
        <3>1. Editing => IsPlace(Length(szText))
            BY EditingFacts, PlacesAre DEF IsPlace
        <3>. QED BY <1>9, <2>6, <3>1 DEF MoveLast
    <2>. QED BY <1>11, <2>1, <2>2, <2>3, <2>4, <2>5, <2>6
<1>12. CASE UNCHANGED textVars
    BY <1>12, ModeKeeps DEF textVars, TextIInv, TextTypeOK
<1>. QED BY <1>1, <1>2, <1>3, <1>4, <1>5, <1>6, <1>7, <1>8, <1>10, <1>11, <1>12 DEF TextNext

\* The text of an entry has an end in its buffer, the cursor and the selection are in it, and a
\* plain text stays a line, however long a text may be and however often a key repeats.
THEOREM TextInvariants == TextSpec => []TextIInv
<1>1. TextInit => TextIInv
    BY PlacesAre DEF TextInit, TextIInv, TextTypeOK
<1>2. TextIInv /\ [TextNext]_textVars => TextIInv'
    BY NextKeeps
<1>. QED BY <1>1, <1>2, PTL DEF TextSpec

\* No key puts the cursor or the end of a selection behind the text, or the text's end behind
\* its buffer, and only a paste into a text beyond its limit writes before it: CursorInText.
THEOREM CursorStays == TextSpec => []CursorInText
<1>1. TextIInv => CursorInText
    <2>. SUFFICES ASSUME TextIInv PROVE CursorInText
        OBVIOUS
    <2>1. TextTypeOK /\ \E i \in Places : szText[i] = Nul
        BY DEF TextIInv
    <2>2. ASSUME Editing PROVE nCursorPos <= Length(szText) /\ nSelAnchorPos <= Length(szText)
        <3>1. CASE nSelAnchorPos = NoAnchor
            BY <2>2, <3>1, EditingFacts, PlacesAre DEF NoAnchor
        <3>2. CASE nSelAnchorPos # NoAnchor
            BY <2>2, <3>2, EditingFacts
        <3>. QED BY <3>1, <3>2
    <2>3. mode = "ruined" => Length(szText) >= MaxLen
        BY DEF TextIInv
    <2>. QED BY <2>1, <2>2, <2>3 DEF CursorInText
<1>. QED BY <1>1, TextInvariants, PTL

-----------------------------------------------------------------------------
(***************************************************************************)
(* A buffer that holds a text.                                             *)
(***************************************************************************)
Holds(b, t) ==
    /\ b \in Buffers /\ t \in Seq(Chars) /\ Len(t) \in Places
    /\ b[Len(t)] = Nul /\ \A i \in 1 .. Len(t) : b[i - 1] = t[i]

LEMMA CharsAre ==
    /\ Nul \notin Chars /\ Alnum \cup Other \subseteq Chars
    /\ \A t \in Seq(Chars) : Len(t) \in Nat /\ \A i \in 1 .. Len(t) : t[i] \in Chars /\ t[i] # Nul
BY CharsAssumption DEF Chars

LEMMA HoldsIs ==
    ASSUME NEW b, NEW t, Holds(b, t)
    PROVE  Length(b) = Len(t) /\ Text(b) = t
<1>1. PICK n \in Nat : n = Len(t) /\ n \in Places /\ b[n] = Nul /\ b \in Buffers
    BY PlacesAre DEF Holds
<1>2. t \in Seq(Chars) /\ \A i \in 1 .. n : b[i - 1] = t[i]
    BY <1>1 DEF Holds
<1>3. Length(b) \in Nat /\ b[Length(b)] = Nul /\ Length(b) <= n
    BY <1>1, LengthIs, PlacesAre
<1>4. Length(b) = n
    <2>. SUFFICES ASSUME Length(b) < n PROVE FALSE
        BY <1>3
    <2>1. PICK i : i = Length(b) + 1
        OBVIOUS
    <2>3. i \in 1 .. n /\ i - 1 = Length(b)
        BY <1>3, <2>1
    <2>2. b[i - 1] = t[i] /\ t[i] # Nul
        BY <1>1, <1>2, <2>3, CharsAre
    <2>. QED BY <1>3, <2>2, <2>3
<1>5. Text(b) = [i \in 1 .. n |-> t[i]]
    BY <1>2, <1>4 DEF Text
<1>6. t = [i \in 1 .. n |-> t[i]]
    BY <1>1, <1>2, LenProperties
<1>. QED BY <1>1, <1>4, <1>5, <1>6

\* The text of an entry, up to and from a place.
Front(p) == SubSeq(Text(szText), 1, p)
Rear(p) == SubSeq(Text(szText), p + 1, Len(Text(szText)))

LEMMA TextIs ==
    ASSUME TextIInv, Editing
    PROVE  /\ Text(szText) \in Seq(Chars) /\ Len(Text(szText)) = Length(szText)
           /\ \A i \in 1 .. Length(szText) : Text(szText)[i] = szText[i - 1]
<1>1. PICK l \in Nat : /\ l = Length(szText) /\ l < Size /\ Size \in Nat
                       /\ \A i \in 0 .. l - 1 : szText[i] # Nul
    BY EditingFacts, PlacesAre
<1>2. szText \in [Places -> Chars \cup {Nul}]
    BY EditingFacts DEF Buffers
<1>3. Text(szText) = [i \in 1 .. l |-> szText[i - 1]]
    BY <1>1 DEF Text
<1>4. \A i \in 1 .. l : i - 1 \in Places /\ i - 1 \in 0 .. l - 1
    BY <1>1, PlacesAre
<1>5. \A i \in 1 .. l : szText[i - 1] \in Chars
    BY <1>1, <1>2, <1>4
<1>6. Text(szText) \in [1 .. l -> Chars]
    BY <1>3, <1>5
<1>7. Text(szText) \in Seq(Chars)
    BY <1>6, SeqDef
<1>8. Len(Text(szText)) = l
    BY <1>6, <1>7, LenProperties
<1>. QED BY <1>1, <1>3, <1>7, <1>8

LEMMA PartsAre ==
    ASSUME TextIInv, Editing, NEW p \in Nat, p <= Length(szText)
    PROVE  /\ Front(p) \in Seq(Chars) /\ Len(Front(p)) = p
           /\ \A i \in 1 .. p : Front(p)[i] = szText[i - 1]
           /\ Rear(p) \in Seq(Chars) /\ Len(Rear(p)) = Length(szText) - p
           /\ \A i \in 1 .. Length(szText) - p : Rear(p)[i] = szText[p + i - 1]
<1>1. PICK l \in Nat : l = Length(szText) /\ p <= l
    BY EditingFacts, PlacesAre
<1>2. PICK t \in Seq(Chars) : t = Text(szText) /\ Len(t) = l /\ \A i \in 1 .. l : t[i] = szText[i - 1]
    BY <1>1, TextIs
<1>3. \A i \in 1 .. l : t[i] \in Chars
    BY <1>2
<1>4. 1 \in Int /\ p \in Int /\ p + 1 \in Int /\ l \in Int
    BY <1>1
<1>5. (\A i \in 1 .. p : t[i] \in Chars) /\ (\A i \in p + 1 .. l : t[i] \in Chars)
    BY <1>1, <1>3
<1>6. /\ SubSeq(t, 1, p) \in Seq(Chars) /\ Len(SubSeq(t, 1, p)) = IF 1 <= p THEN p - 1 + 1 ELSE 0
      /\ \A i \in 1 .. p - 1 + 1 : SubSeq(t, 1, p)[i] = t[1 + i - 1]
    BY <1>4, <1>5, SubSeqProperties
<1>7. /\ SubSeq(t, p + 1, l) \in Seq(Chars)
      /\ Len(SubSeq(t, p + 1, l)) = IF p + 1 <= l THEN l - (p + 1) + 1 ELSE 0
      /\ \A i \in 1 .. l - (p + 1) + 1 : SubSeq(t, p + 1, l)[i] = t[p + 1 + i - 1]
    BY <1>4, <1>5, SubSeqProperties
<1>8. Front(p) = SubSeq(t, 1, p) /\ Rear(p) = SubSeq(t, p + 1, l)
    BY <1>2 DEF Front, Rear
<1>9. Len(Front(p)) = p /\ Len(Rear(p)) = l - p
    BY <1>1, <1>6, <1>7, <1>8
<1>10. \A i \in 1 .. p : Front(p)[i] = szText[i - 1]
    <2>. SUFFICES ASSUME NEW i \in 1 .. p PROVE Front(p)[i] = szText[i - 1]
        OBVIOUS
    <2>1. i \in 1 .. p - 1 + 1 /\ 1 + i - 1 = i /\ i \in 1 .. l
        BY <1>1
    <2>. QED BY <1>2, <1>6, <1>8, <2>1
<1>11. \A i \in 1 .. l - p : Rear(p)[i] = szText[p + i - 1]
    <2>. SUFFICES ASSUME NEW i \in 1 .. l - p PROVE Rear(p)[i] = szText[p + i - 1]
        OBVIOUS
    <2>1. i \in 1 .. l - (p + 1) + 1 /\ p + 1 + i - 1 = p + i /\ p + i \in 1 .. l
        BY <1>1
    <2>. QED BY <1>2, <1>7, <1>8, <2>1
<1>. QED BY <1>1, <1>6, <1>7, <1>8, <1>9, <1>10, <1>11

\* The editor's view of it.
LEMMA EditorIs ==
    ASSUME TextIInv, Editing
    PROVE  /\ Editor!Length = Length(szText) /\ Editor!None = NoAnchor
           /\ Editor!Low = Lo /\ Editor!High = Hi
           /\ \A p : Editor!Before(p) = Front(p) /\ Editor!After(p) = Rear(p)
BY TextIs DEF Editor!Length, Editor!None, Editor!Low, Editor!High, Editor!Before, Editor!After,
              NoAnchor, Lo, Hi, Front, Rear, Editor!Min, Editor!Max, Min, Max

LEMMA JoinIs ==
    ASSUME NEW v \in Seq(Chars), NEW t \in Seq(Chars), NEW n \in Nat, NEW m \in Nat, n = Len(v), m = Len(t)
    PROVE  /\ v \o t \in Seq(Chars) /\ Len(v \o t) = n + m
           /\ \A i \in 1 .. n : (v \o t)[i] = v[i]
           /\ \A i \in 1 .. m : (v \o t)[n + i] = t[i]
<1>1. /\ v \o t \in Seq(Chars) /\ Len(v \o t) = n + m
      /\ \A i \in 1 .. n + m : (v \o t)[i] = IF i <= n THEN v[i] ELSE t[i - n]
    BY ConcatProperties
<1>2. ASSUME NEW i \in 1 .. n PROVE (v \o t)[i] = v[i]
    <2>1. i \in 1 .. n + m /\ i <= n
        OBVIOUS
    <2>. QED BY <1>1, <2>1
<1>3. ASSUME NEW i \in 1 .. m PROVE (v \o t)[n + i] = t[i]
    <2>1. n + i \in 1 .. n + m /\ ~(n + i <= n) /\ n + i - n = i
        OBVIOUS
    <2>. QED BY <1>1, <2>1
<1>. QED BY <1>1, <1>2, <1>3

\* s is put between two parts of a text.
LEMMA SpliceHolds ==
    ASSUME NEW b, NEW t1 \in Seq(Chars), NEW t2 \in Seq(Chars), Holds(b, t1 \o t2),
           NEW s \in Seq(Chars), NEW p \in Nat, NEW m \in Nat, NEW n \in Nat,
           p = Len(t1), m = Len(t2), n = Len(s),
           NEW q \in Nat, q >= p + m, p + m + n \in Places
    PROVE  Holds(Put(Opened(b, p, q, n), p, s), (t1 \o s) \o t2)
<1>1. p + m + n < Size /\ Size \in Nat
    BY PlacesAre
<1>2. /\ b \in Buffers /\ b[p + m] = Nul
      /\ \A i \in 1 .. p : b[i - 1] = t1[i]
      /\ \A i \in 1 .. m : b[p + i - 1] = t2[i]
    <2>1. PICK u : u = t1 \o t2
        OBVIOUS
    <2>2. /\ Len(u) = p + m /\ (\A i \in 1 .. p : u[i] = t1[i]) /\ (\A i \in 1 .. m : u[p + i] = t2[i])
        BY <2>1, JoinIs
    <2>3. b \in Buffers /\ b[p + m] = Nul /\ \A i \in 1 .. p + m : b[i - 1] = u[i]
        BY <2>1, <2>2 DEF Holds
    <2>4. ASSUME NEW i \in 1 .. p PROVE b[i - 1] = t1[i]
        <3>1. i \in 1 .. p + m
            OBVIOUS
        <3>. QED BY <2>2, <2>3, <3>1
    <2>5. ASSUME NEW i \in 1 .. m PROVE b[p + i - 1] = t2[i]
        <3>1. p + i \in 1 .. p + m
            OBVIOUS
        <3>. QED BY <2>2, <2>3, <3>1
    <2>. QED BY <2>3, <2>4, <2>5
<1>3. PICK k \in Nat : k = p + n
    OBVIOUS
<1>4. PICK v : v = t1 \o s
    OBVIOUS
<1>5. /\ v \in Seq(Chars) /\ Len(v) = k
      /\ (\A i \in 1 .. p : v[i] = t1[i]) /\ (\A i \in 1 .. n : v[p + i] = s[i])
    BY <1>3, <1>4, JoinIs
<1>6. PICK w : w = v \o t2
    OBVIOUS
<1>7. /\ w \in Seq(Chars) /\ Len(w) = k + m
      /\ (\A i \in 1 .. k : w[i] = v[i]) /\ (\A i \in 1 .. m : w[k + i] = t2[i])
    <2>1. v \in Seq(Chars) /\ k = Len(v)
        BY <1>5
    <2>. QED BY <1>6, <2>1, JoinIs
<1>8. PICK d : d = Put(Opened(b, p, q, n), p, s)
    OBVIOUS
<1>9. d = [i \in Places |-> IF i \in p .. p + n - 1 THEN s[i - p + 1]
                            ELSE IF i \in p + n .. q + n THEN b[i - n] ELSE b[i]]
    <2>1. d = [i \in Places |-> IF i \in p .. p + n - 1 THEN s[i - p + 1] ELSE Opened(b, p, q, n)[i]]
        BY <1>8 DEF Put
    <2>2. \A i \in Places : Opened(b, p, q, n)[i] = IF i \in p + n .. q + n THEN b[i - n] ELSE b[i]
        BY DEF Opened
    <2>. QED BY <2>1, <2>2
<1>10. ASSUME NEW i \in 1 .. p PROVE d[i - 1] = t1[i]
    <2>1. i - 1 \in Places /\ i - 1 \notin p .. p + n - 1 /\ i - 1 \notin p + n .. q + n
        BY <1>1 DEF Places
    <2>. QED BY <1>2, <1>9, <2>1
<1>11. ASSUME NEW i \in 1 .. n PROVE d[p + i - 1] = s[i]
    <2>1. p + i - 1 \in Places /\ p + i - 1 \in p .. p + n - 1 /\ (p + i - 1) - p + 1 = i
        BY <1>1 DEF Places
    <2>. QED BY <1>9, <2>1
<1>12. ASSUME NEW i \in 1 .. m + 1 PROVE d[k + i - 1] = b[p + i - 1]
    <2>1. k + i - 1 \in Places /\ k + i - 1 \notin p .. p + n - 1
        BY <1>1, <1>3 DEF Places
    <2>2. k + i - 1 \in p + n .. q + n /\ (k + i - 1) - n = p + i - 1
        BY <1>3
    <2>. QED BY <1>9, <2>1, <2>2
<1>13. d \in Buffers
    <2>. SUFFICES ASSUME NEW i \in Places PROVE d[i] \in Chars \cup {Nul}
        BY <1>9 DEF Buffers
    <2>0. i \in Nat /\ i < Size
        BY PlacesAre
    <2>1. CASE i \in p .. p + n - 1
        <3>1. i - p + 1 \in 1 .. n
            BY <2>0, <2>1
        <3>2. s[i - p + 1] \in Chars
            BY <3>1, CharsAre
        <3>. QED BY <1>9, <2>1, <3>2
    <2>2. CASE i \notin p .. p + n - 1 /\ i \in p + n .. q + n
        <3>1. i - n \in Nat /\ i - n < Size
            BY <1>1, <2>0, <2>2
        <3>2. i - n \in Places
            BY <3>1, PlacesAre
        <3>3. d[i] = b[i - n]
            BY <1>9, <2>2
        <3>. QED BY <1>2, <3>2, <3>3 DEF Buffers
    <2>3. CASE i \notin p .. p + n - 1 /\ i \notin p + n .. q + n
        <3>1. d[i] = b[i]
            BY <1>9, <2>3
        <3>. QED BY <1>2, <3>1 DEF Buffers
    <2>. QED BY <2>1, <2>2, <2>3
<1>14. d[k + m] = Nul
    <2>1. m + 1 \in 1 .. m + 1 /\ k + (m + 1) - 1 = k + m /\ p + (m + 1) - 1 = p + m
        BY <1>3
    <2>2. d[k + (m + 1) - 1] = b[p + (m + 1) - 1]
        BY <1>12, <2>1
    <2>. QED BY <1>2, <2>1, <2>2
<1>15. ASSUME NEW i \in 1 .. k + m PROVE d[i - 1] = w[i]
    <2>1. CASE i \in 1 .. p
        <3>1. i \in 1 .. k
            BY <1>3, <2>1
        <3>. QED BY <1>5, <1>7, <1>10, <2>1, <3>1
    <2>2. CASE i > p /\ i <= k
        <3>1. PICK j \in 1 .. n : i = p + j
            <4>1. i - p \in 1 .. n /\ i = p + (i - p)
                BY <1>3, <2>2
            <4>. QED BY <4>1
        <3>2. d[i - 1] = s[j] /\ v[i] = s[j] /\ i \in 1 .. k
            BY <1>5, <1>11, <2>2, <3>1
        <3>. QED BY <1>7, <3>2
    <2>3. CASE i > k
        <3>1. PICK j \in 1 .. m : i = k + j
            <4>1. i - k \in 1 .. m /\ i = k + (i - k)
                BY <1>3, <2>3
            <4>. QED BY <4>1
        <3>2. j \in 1 .. m + 1
            OBVIOUS
        <3>3. d[k + j - 1] = b[p + j - 1]
            BY <1>12, <3>2
        <3>. QED BY <1>2, <1>3, <1>7, <3>1, <3>3
    <2>. QED BY <1>3, <2>1, <2>2, <2>3
<1>16. Len(w) \in Places /\ Len(w) = k + m
    BY <1>3, <1>7, p + m + n = p + n + m
<1>17. Holds(d, w)
    BY <1>7, <1>13, <1>14, <1>15, <1>16 DEF Holds
<1>. QED BY <1>8, <1>17, <1>4, <1>6

\* What is behind t is moved to p.
LEMMA MoveDownHolds ==
    ASSUME TextIInv, Editing, NEW p \in Nat, NEW t \in Nat, p <= t, t <= Length(szText),
           NEW b \in Buffers,
           \A i \in Places : b[i] = szText[IF i \in p .. p + Length(szText) - t THEN i + t - p ELSE i]
    PROVE  Holds(b, Front(p) \o Rear(t))
<1>1. PICK l \in Nat : l = Length(szText) /\ l < Size /\ Size \in Nat /\ szText[l] = Nul
    BY EditingFacts, PlacesAre
<1>2. PICK q \in Nat : q = p + l - t
    BY <1>1
<1>3. \A i \in Places : b[i] = szText[IF i \in p .. q THEN i + t - p ELSE i]
    BY <1>1, <1>2
<1>4. PICK m \in Nat : m = l - t
    BY <1>1
<1>5. PICK f \in Seq(Chars), r \in Seq(Chars) :
         /\ f = Front(p) /\ Len(f) = p /\ \A i \in 1 .. p : f[i] = szText[i - 1]
         /\ r = Rear(t) /\ Len(r) = m /\ \A i \in 1 .. m : r[i] = szText[t + i - 1]
    <2>1. p <= l /\ t <= l
        BY <1>1
    <2>. QED BY <1>1, <1>4, <2>1, PartsAre
<1>6. PICK w : w = f \o r
    OBVIOUS
<1>7. /\ w \in Seq(Chars) /\ Len(w) = p + m
      /\ (\A i \in 1 .. p : w[i] = f[i]) /\ (\A i \in 1 .. m : w[p + i] = r[i])
    <2>1. p = Len(f) /\ m = Len(r)
        BY <1>5
    <2>. QED BY <1>6, <2>1, JoinIs
<1>8. q = p + m /\ q \in Places /\ q < Size
    BY <1>1, <1>2, <1>4 DEF Places
<1>9. b[q] = Nul
    <2>1. q \in p .. q /\ q + t - p = l
        BY <1>4, <1>8
    <2>. QED BY <1>1, <1>3, <1>8, <2>1
<1>10. ASSUME NEW i \in 1 .. q PROVE b[i - 1] = w[i]
    <2>1. i - 1 \in Places
        BY <1>8, PlacesAre DEF Places
    <2>2. CASE i <= p
        <3>1. i - 1 \notin p .. q /\ i \in 1 .. p
            BY <2>2
        <3>. QED BY <1>3, <1>5, <1>7, <2>1, <3>1
    <2>3. CASE i > p
        <3>1. PICK j : j = i - p
            OBVIOUS
        <3>2. j \in 1 .. m /\ i = p + j /\ i - 1 \in p .. q /\ (i - 1) + t - p = t + j - 1
            BY <1>8, <2>3, <3>1
        <3>3. b[i - 1] = szText[t + j - 1]
            BY <1>3, <2>1, <3>2
        <3>. QED BY <1>5, <1>7, <3>2, <3>3
    <2>. QED BY <2>2, <2>3
<1>11. Holds(b, w)
    BY <1>7, <1>8, <1>9, <1>10 DEF Holds
<1>. QED BY <1>5, <1>6, <1>11

LEMMA NukedHolds ==
    ASSUME TextIInv, Editing
    PROVE  /\ Front(Lo) \in Seq(Chars) /\ Len(Front(Lo)) = Lo
           /\ Rear(Hi) \in Seq(Chars) /\ Len(Rear(Hi)) = Length(szText) - Hi
           /\ Holds(Nuked.b, Front(Lo) \o Rear(Hi))
<1>1. Lo \in Nat /\ Hi \in Nat /\ Lo <= Hi /\ Hi <= Length(szText) /\ Lo <= Length(szText)
    BY SelectionIs, EditingFacts, PlacesAre
<1>2. PICK b \in Buffers : b = Nuked.b
    BY NukedIs
<1>3. \A i \in Places : b[i] = szText[IF i \in Lo .. Lo + Length(szText) - Hi THEN i + Hi - Lo ELSE i]
    BY <1>2, NukedIs
<1>4. Holds(b, Front(Lo) \o Rear(Hi))
    BY <1>1, <1>3, MoveDownHolds
<1>. QED BY <1>1, <1>2, <1>4, PartsAre

\* A key that leaves t in the buffer makes it the text.
LEMMA EditMeans ==
    ASSUME NEW e, NEW t, Holds(e.b, t), Edits(e)
    PROVE  /\ Text(szText)' = t /\ nCursorPos' = e.p /\ nSelAnchorPos' = Editor!None
           /\ UNCHANGED bOvertypeMode
BY HoldsIs DEF Edits, Editor!None, NoAnchor

LEMMA ReplacedIs ==
    ASSUME TextIInv, Editing
    PROVE  /\ \A s : Editor!Replaced(s) = (Front(Lo) \o s) \o Rear(Hi)
           /\ Editor!Replaced(<<>>) = Front(Lo) \o Rear(Hi)
<1>1. \A s : Editor!Replaced(s) = (Front(Lo) \o s) \o Rear(Hi)
    BY EditorIs DEF Editor!Replaced
<1>2. Front(Lo) \o <<>> = Front(Lo)
    BY NukedHolds, ConcatEmptySeq
<1>. QED BY <1>1, <1>2

LEMMA CutMeans ==
    ASSUME TextIInv, Editing, Edits(Nuked)
    PROVE  Editor!Cuts
<1>1. Text(szText)' = Editor!Replaced(<<>>)
    BY NukedHolds, EditMeans, ReplacedIs
<1>2. nCursorPos' = Editor!Low
    BY NukedIs, EditorIs DEF Edits
<1>. QED BY <1>1, <1>2, NukedHolds, EditMeans DEF Editor!Cuts

LEMMA PasteMeans ==
    ASSUME TextIInv, NEW clip \in Clips, Paste(clip)
    PROVE  Overlong \/ Editor!Pastes(clip)
<1>. SUFFICES ASSUME ~Overlong PROVE Editor!Pastes(clip)
    OBVIOUS
<1>1. Editing
    BY DEF Paste
<1>2. PICK b : b = Nuked.b
    OBVIOUS
<1>3. PICK p \in Nat, t1 \in Seq(Chars), t2 \in Seq(Chars) :
         t1 = Front(Lo) /\ t2 = Rear(Hi) /\ p = Nuked.p /\ p = Lo /\ p = Len(t1)
    <2>1. Front(Lo) \in Seq(Chars) /\ Len(Front(Lo)) = Lo /\ Rear(Hi) \in Seq(Chars)
        BY <1>1, NukedHolds
    <2>2. Lo \in Nat /\ Nuked.p = Lo
        BY <1>1, NukedIs, SelectionIs
    <2>. QED BY <2>1, <2>2
<1>4. PICK m \in Nat : m = Len(t2)
    BY CharsAre
<1>5. Holds(b, t1 \o t2) /\ Editor!Replaced(<<>>) = t1 \o t2
    BY <1>1, <1>2, <1>3, NukedHolds, ReplacedIs
<1>6. Len(t1 \o t2) = p + m
    BY <1>3, <1>4, ConcatProperties
<1>7. PICK len \in Nat : len = Length(b) /\ len = p + m /\ len < MaxLen /\ MaxLen \in Nat /\ MaxLen <= Size
    <2>1. Len(t1 \o t2) = Length(b)
        BY <1>5, HoldsIs DEF Holds
    <2>2. ~(Length(b) >= MaxLen)
        BY <1>2 DEF Overlong
    <2>. QED BY <1>6, <2>1, <2>2, PlacesAre
<1>8. clip \in Seq(Chars)
    BY TextsAssumption DEF Chars
<1>9. PICK k \in Nat : k = Len(clip)
    BY <1>8
<1>10. PICK n : n = IF len + k + 1 >= MaxLen THEN MaxLen - len - 1 ELSE k
    OBVIOUS
<1>11. n \in Nat /\ n <= k /\ len + n < MaxLen /\ n = IF MaxLen - 1 - len <= k THEN MaxLen - 1 - len ELSE k
    <2>1. CASE len + k + 1 >= MaxLen
        BY <1>7, <1>9, <1>10, <2>1
    <2>2. CASE ~(len + k + 1 >= MaxLen)
        BY <1>7, <1>9, <1>10, <2>2
    <2>. QED BY <2>1, <2>2
<1>12. Min({MaxLen - 1 - len, k}) = n
    <2>1. PICK room \in Nat : room = MaxLen - 1 - len
        BY <1>7
    <2>2. Min({room, k}) = IF room <= k THEN room ELSE k
        BY <1>9, <2>1, MinOfTwo
    <2>. QED BY <1>11, <2>1, <2>2
<1>13. PICK s : s = SubSeq(clip, 1, n)
    OBVIOUS
<1>14. s \in Seq(Chars) /\ Len(s) = n
    BY <1>8, <1>9, <1>11, <1>13
<1>15. PICK e : e = Entry(Put(Opened(b, p, len, n), p, s), p + n) /\ Edits(e)
    <2>1. \/ n >= 0 /\ Edits(Entry(Put(Opened(b, p, len, n), p, s), p + n))
          \/ n < 0 /\ p + n >= 0 /\ Edits(Entry(Slid(b, p, len, -n), p + n))
          \/ p + n < 0 /\ Ruin
        BY <1>2, <1>3, <1>7, <1>9, <1>10, <1>13 DEF Paste
    <2>. QED BY <1>11, <2>1
<1>16. Holds(e.b, (t1 \o s) \o t2)
    <2>1. p + m + n \in Places /\ len >= p + m
        BY <1>7, <1>11, PlacesAre DEF Places
    <2>2. Holds(Put(Opened(b, p, len, n), p, s), (t1 \o s) \o t2)
        BY <1>3, <1>4, <1>5, <1>11, <1>14, <2>1, SpliceHolds
    <2>. QED BY <1>15, <2>2 DEF Entry
<1>17. e.p = p + n
    BY <1>15 DEF Entry
<1>18. /\ Text(szText)' = (t1 \o s) \o t2 /\ nCursorPos' = p + n /\ nSelAnchorPos' = Editor!None
       /\ UNCHANGED bOvertypeMode
    BY <1>15, <1>16, <1>17, EditMeans
<1>19. Editor!Replaced(s) = (t1 \o s) \o t2
    BY <1>1, <1>3, ReplacedIs
<1>20. Editor!Low = p
    BY <1>1, <1>3, EditorIs
<1>21. Editor!Min({MaxLen - 1 - Len(Editor!Replaced(<<>>)), Len(clip)}) = n
    BY <1>5, <1>6, <1>7, <1>9, <1>12 DEF Editor!Min, Min
<1>. QED BY <1>13, <1>14, <1>18, <1>19, <1>20, <1>21 DEF Editor!Pastes

LEMMA ReturnMeans ==
    ASSUME TextIInv, ReturnKey
    PROVE  Editor!Breaks
<1>1. Editing
    BY DEF ReturnKey
<1>2. PICK b : b = Nuked.b
    OBVIOUS
<1>3. PICK p \in Nat, t1 \in Seq(Chars), t2 \in Seq(Chars) :
         t1 = Front(Lo) /\ t2 = Rear(Hi) /\ p = Nuked.p /\ p = Lo /\ p = Len(t1)
    <2>1. Front(Lo) \in Seq(Chars) /\ Len(Front(Lo)) = Lo /\ Rear(Hi) \in Seq(Chars)
        BY <1>1, NukedHolds
    <2>2. Lo \in Nat /\ Nuked.p = Lo
        BY <1>1, NukedIs, SelectionIs
    <2>. QED BY <2>1, <2>2
<1>4. PICK m \in Nat : m = Len(t2)
    BY CharsAre
<1>5. Holds(b, t1 \o t2) /\ Editor!Replaced(<<>>) = t1 \o t2
    BY <1>1, <1>2, <1>3, NukedHolds, ReplacedIs
<1>6. Len(t1 \o t2) = p + m
    BY <1>3, <1>4, ConcatProperties
<1>7. PICK len \in Nat : len = Length(b) /\ len = p + m /\ MaxLen \in Nat /\ MaxLen <= Size
    <2>1. Len(t1 \o t2) = Length(b) /\ Len(t1 \o t2) \in Places
        BY <1>5, HoldsIs DEF Holds
    <2>. QED BY <1>6, <2>1, PlacesAre
<1>8. Editor!Low = p
    BY <1>1, <1>3, EditorIs
<1>9. CASE len + 1 < MaxLen
    <2>1. PICK s \in Seq(Chars) : s = <<LF>> /\ Len(s) = 1
        <3>1. <<LF>> \in Seq(Chars) /\ Len(<<LF>>) = 1
            BY PlacesAre
        <3>. QED BY <3>1
    <2>2. PICK e : e = Entry(Put(Opened(b, p, len, 1), p, s), p + 1) /\ Edits(e)
        BY <1>2, <1>3, <1>7, <1>9, <2>1 DEF ReturnKey
    <2>3. p + m + 1 \in Places /\ len >= p + m
        BY <1>7, <1>9, PlacesAre DEF Places
    <2>4. Holds(Put(Opened(b, p, len, 1), p, s), (t1 \o s) \o t2)
        BY <1>3, <1>4, <1>5, <2>1, <2>3, SpliceHolds
    <2>5. Holds(e.b, (t1 \o s) \o t2) /\ e.p = p + 1
        BY <2>2, <2>4 DEF Entry
    <2>6. /\ Text(szText)' = (t1 \o s) \o t2 /\ nCursorPos' = p + 1 /\ nSelAnchorPos' = Editor!None
          /\ UNCHANGED bOvertypeMode
        BY <2>2, <2>5, EditMeans
    <2>7. Editor!Replaced(s) = (t1 \o s) \o t2
        BY <1>1, <1>3, ReplacedIs
    <2>8. Len((t1 \o s) \o t2) = p + m + 1
        <3>1. t1 \o s \in Seq(Chars) /\ Len(t1 \o s) = p + 1
            BY <1>3, <2>1, JoinIs
        <3>2. Len((t1 \o s) \o t2) = Len(t1 \o s) + Len(t2)
            BY <3>1, ConcatProperties
        <3>. QED BY <1>4, <3>1, <3>2
    <2>9. Text(szText)' = Editor!Replaced(<<LF>>) /\ Len(Text(szText)') = p + m + 1
        BY <2>1, <2>6, <2>7, <2>8
    <2>10. Len(Editor!Replaced(<<>>)) = p + m /\ Len(Editor!Replaced(<<>>)) + 1 < MaxLen
        BY <1>5, <1>6, <1>7, <1>9
    <2>11. nCursorPos' = Editor!Low + Len(Text(szText)') - Len(Editor!Replaced(<<>>))
        BY <1>8, <2>6, <2>9, <2>10
    <2>. QED BY <2>6, <2>9, <2>10, <2>11 DEF Editor!Breaks
<1>10. CASE ~(len + 1 < MaxLen)
    <2>1. Edits(Nuked)
        BY <1>2, <1>3, <1>7, <1>10 DEF ReturnKey
    <2>2. Editor!Cuts
        BY <1>1, <2>1, CutMeans
    <2>3. /\ Text(szText)' = Editor!Replaced(<<>>) /\ nCursorPos' = Editor!Low /\ nSelAnchorPos' = Editor!None
          /\ UNCHANGED bOvertypeMode
        BY <2>2 DEF Editor!Cuts
    <2>4. Len(Editor!Replaced(<<>>)) = len /\ ~(Len(Editor!Replaced(<<>>)) + 1 < MaxLen)
        BY <1>5, <1>6, <1>7, <1>10
    <2>5. nCursorPos' = Editor!Low + Len(Text(szText)') - Len(Editor!Replaced(<<>>))
        BY <1>8, <2>3, <2>4
    <2>. QED BY <2>3, <2>4, <2>5 DEF Editor!Breaks
<1>. QED BY <1>9, <1>10

LEMMA BackMeans ==
    ASSUME TextIInv, NEW n \in Repeats, BackKey(n)
    PROVE  Editor!Backspaces(n)
<1>0. Editing
    BY DEF BackKey
<1>1. CASE nSelAnchorPos # NoAnchor
    <2>1. Editor!Cuts
        BY <1>0, <1>1, CutMeans DEF BackKey
    <2>. QED BY <1>0, <1>1, <2>1, EditorIs DEF Editor!Backspaces
<1>2. CASE nSelAnchorPos = NoAnchor
    <2>1. PICK l \in Nat, t \in Nat : l = Length(szText) /\ t = nCursorPos /\ t <= l /\ n \in Nat
        BY <1>0, EditingFacts, PlacesAre, RepeatFacts
    <2>2. PICK p \in Nat : p = Max({0, t - n}) /\ p <= t /\ (t = 0 => p = 0)
        <3>1. t - n \in Int
            BY <2>1
        <3>2. Max({0, t - n}) = IF t - n >= 0 THEN t - n ELSE 0
            BY <3>1, MaxWithZero
        <3>. QED BY <2>1, <3>1, <3>2
    <2>3. Editor!Max({0, nCursorPos - n}) = p
        BY <2>1, <2>2 DEF Editor!Max, Max
    <2>4. /\ Text(szText)' = Front(p) \o Rear(t) /\ nCursorPos' = p /\ nSelAnchorPos' = nSelAnchorPos
          /\ UNCHANGED bOvertypeMode
        <3>1. CASE t = 0
            <4>1. UNCHANGED <<szText, nCursorPos, nSelAnchorPos, bOvertypeMode>>
                BY <1>2, <2>1, <3>1 DEF BackKey, Same, textVars, entry
            <4>2. Holds(szText, Front(p) \o Rear(t))
                <5>1. \A i \in Places : i + t - p = i
                    BY <2>1, <2>2, <3>1, PlacesAre
                <5>2. \A i \in Places : szText[i] = szText[IF i \in p .. p + Length(szText) - t THEN i + t - p ELSE i]
                    BY <5>1
                <5>3. szText \in Buffers /\ p <= t /\ t <= Length(szText)
                    BY <1>0, <2>1, <2>2, EditingFacts
                <5>. QED BY <1>0, <5>2, <5>3, MoveDownHolds
            <4>. QED BY <2>1, <2>2, <3>1, <4>1, <4>2, HoldsIs
        <3>2. CASE t # 0
            <4>1. PICK b : b = [i \in Places |-> szText[IF i \in p .. p + l - t THEN i + t - p ELSE i]]
                OBVIOUS
            <4>2. Edits(Entry(b, p))
                BY <1>2, <2>1, <2>2, <3>2, <4>1 DEF BackKey
            <4>3. b \in Buffers
                <5>1. EndsBetween([i \in Places |-> szText[IF i \in p .. p + l - t THEN i + t - p ELSE i]],
                                  p, p + l - t)
                    BY <1>0, <2>1, <2>2, MoveDownEnds
                <5>. QED BY <4>1, <5>1 DEF EndsBetween
            <4>4. Holds(b, Front(p) \o Rear(t))
                <5>1. \A i \in Places : b[i] = szText[IF i \in p .. p + Length(szText) - t THEN i + t - p ELSE i]
                    BY <2>1, <4>1
                <5>. QED BY <1>0, <2>1, <2>2, <4>3, <5>1, MoveDownHolds
            <4>5. PICK e : e = Entry(b, p) /\ Edits(e) /\ e.b = b /\ e.p = p
                BY <4>2 DEF Entry
            <4>. QED BY <1>0, <1>2, <4>4, <4>5, EditMeans, EditorIs
        <3>. QED BY <3>1, <3>2
    <2>5. Editor!Before(nCursorPos') = Front(p) /\ Editor!After(nCursorPos) = Rear(t)
        BY <1>0, <2>1, <2>4, EditorIs
    <2>. QED BY <1>0, <1>2, <2>3, <2>4, <2>5, EditorIs DEF Editor!Backspaces
<1>. QED BY <1>1, <1>2

LEMMA DeleteMeans ==
    ASSUME TextIInv, NEW n \in Repeats, DeleteKey(n)
    PROVE  Editor!Deletes(n)
<1>0. Editing
    BY DEF DeleteKey
<1>1. CASE nSelAnchorPos # NoAnchor
    <2>1. Editor!Cuts
        BY <1>0, <1>1, CutMeans DEF DeleteKey
    <2>. QED BY <1>0, <1>1, <2>1, EditorIs DEF Editor!Deletes
<1>2. CASE nSelAnchorPos = NoAnchor
    <2>1. PICK l \in Nat, p \in Nat : l = Length(szText) /\ p = nCursorPos /\ p <= l /\ n \in Nat
        BY <1>0, EditingFacts, PlacesAre, RepeatFacts
    <2>2. PICK b : b = [i \in Places |-> szText[IF i \in p .. l - n THEN i + n ELSE i]]
        OBVIOUS
    <2>3. Edits(Entry(b, p))
        BY <1>2, <2>1, <2>2 DEF DeleteKey
    <2>4. /\ szText' = b /\ nCursorPos' = nCursorPos /\ nSelAnchorPos' = nSelAnchorPos
          /\ UNCHANGED bOvertypeMode
        BY <1>2, <2>1, <2>3 DEF Edits, Entry
    <2>5. CASE p + n <= l
        <3>1. PICK t \in Nat : t = p + n /\ p <= t /\ t <= l /\ p + l - t = l - n
            BY <2>1, <2>5
        <3>2. \A i \in Places : i + t - p = i + n
            BY <2>1, <3>1, PlacesAre
        <3>3. b = [i \in Places |-> szText[IF i \in p .. p + l - t THEN i + t - p ELSE i]]
            BY <2>2, <3>1, <3>2
        <3>4. EndsBetween([i \in Places |-> szText[IF i \in p .. p + l - t THEN i + t - p ELSE i]],
                          p, p + l - t)
            BY <1>0, <2>1, <3>1, MoveDownEnds
        <3>5. b \in Buffers
            BY <3>3, <3>4 DEF EndsBetween
        <3>6. \A i \in Places : b[i] = szText[IF i \in p .. p + Length(szText) - t THEN i + t - p ELSE i]
            BY <2>1, <3>3
        <3>7. Holds(b, Front(p) \o Rear(t))
            BY <1>0, <2>1, <3>1, <3>5, <3>6, MoveDownHolds
        <3>8. Text(szText)' = Front(p) \o Rear(t)
            BY <2>4, <3>7, HoldsIs
        <3>9. Editor!Before(nCursorPos) = Front(p) /\ Editor!After(nCursorPos + n) = Rear(t)
            BY <1>0, <2>1, <3>1, EditorIs
        <3>10. nCursorPos + n <= Editor!Length
            BY <1>0, <2>1, <2>5, EditorIs
        <3>. QED BY <1>0, <1>2, <2>4, <3>8, <3>9, <3>10, EditorIs DEF Editor!Deletes
    <2>6. CASE p + n > l
        <3>1. \A i \in Places : i \notin p .. l - n
            BY <2>1, <2>6, PlacesAre
        <3>2. szText \in [Places -> Chars \cup {Nul}]
            BY <1>0, EditingFacts DEF Buffers
        <3>3. b = [i \in Places |-> szText[i]]
            BY <2>2, <3>1
        <3>4. szText' = szText
            BY <2>4, <3>2, <3>3
        <3>5. ~(nCursorPos + n <= Editor!Length)
            BY <1>0, <2>1, <2>6, EditorIs
        <3>. QED BY <1>0, <1>2, <2>4, <3>4, <3>5, EditorIs DEF Editor!Deletes
    <2>. QED BY <2>1, <2>5, <2>6
<1>. QED BY <1>1, <1>2

-----------------------------------------------------------------------------
(***************************************************************************)
(* What typing means.                                                      *)
(***************************************************************************)
\* k times c.
Run(c, k) == [i \in 1 .. k |-> c]

LEMMA RunIs ==
    ASSUME NEW c \in Chars, NEW k \in Nat
    PROVE  /\ Run(c, k) \in Seq(Chars) /\ Len(Run(c, k)) = k
           /\ \A i \in 1 .. k : Run(c, k)[i] = c
<1>1. Run(c, k) \in [1 .. k -> Chars]
    BY DEF Run
<1>2. Run(c, k) \in Seq(Chars)
    BY <1>1, SeqDef
<1>3. Len(Run(c, k)) = k
    BY <1>1, <1>2, LenProperties
<1>. QED BY <1>2, <1>3 DEF Run

LEMMA OneIs ==
    ASSUME NEW c \in Chars
    PROVE  <<c>> \in Seq(Chars) /\ Len(<<c>>) = 1 /\ <<c>>[1] = c
OBVIOUS

LEMMA JoinOne ==
    ASSUME NEW v \in Seq(Chars), NEW s \in Seq(Chars), NEW n \in Nat, n = Len(v), Len(s) = 1
    PROVE  /\ v \o s \in Seq(Chars) /\ Len(v \o s) = n + 1
           /\ \A i \in 1 .. n : (v \o s)[i] = v[i]
           /\ (v \o s)[n + 1] = s[1]
<1>1. /\ v \o s \in Seq(Chars) /\ Len(v \o s) = n + 1
      /\ \A i \in 1 .. n + 1 : (v \o s)[i] = IF i <= n THEN v[i] ELSE s[i - n]
    <2>1. /\ v \o s \in Seq(Chars) /\ Len(v \o s) = Len(v) + Len(s)
          /\ \A i \in 1 .. Len(v) + Len(s) : (v \o s)[i] = IF i <= Len(v) THEN v[i] ELSE s[i - Len(v)]
        BY ConcatProperties
    <2>. QED BY <2>1
<1>2. ASSUME NEW i \in 1 .. n PROVE (v \o s)[i] = v[i]
    <2>1. i \in 1 .. n + 1 /\ i <= n
        OBVIOUS
    <2>. QED BY <1>1, <2>1
<1>3. (v \o s)[n + 1] = s[1]
    <2>1. n + 1 \in 1 .. n + 1 /\ ~(n + 1 <= n) /\ n + 1 - n = 1
        OBVIOUS
    <2>. QED BY <1>1, <2>1
<1>. QED BY <1>1, <1>2, <1>3

LEMMA RunGrows ==
    ASSUME NEW c \in Chars, NEW k \in Nat, NEW t \in Seq(Chars)
    PROVE  (t \o Run(c, k)) \o <<c>> = t \o Run(c, k + 1)
<1>1. PICK r : r = Run(c, k)
    OBVIOUS
<1>2. r \in Seq(Chars) /\ Len(r) = k /\ \A i \in 1 .. k : r[i] = c
    BY <1>1, RunIs
<1>3. PICK s \in Seq(Chars) : s = <<c>> /\ Len(s) = 1 /\ s[1] = c
    BY OneIs
<1>4. PICK m : m = r \o s
    OBVIOUS
<1>5. /\ m \in Seq(Chars) /\ Len(m) = k + 1
      /\ (\A i \in 1 .. k : m[i] = r[i]) /\ m[k + 1] = s[1]
    <2>1. k = Len(r) /\ Len(s) = 1
        BY <1>2, <1>3
    <2>. QED BY <1>2, <1>3, <1>4, <2>1, JoinOne
<1>6. \A i \in 1 .. k + 1 : m[i] = c
    <2>. SUFFICES ASSUME NEW i \in 1 .. k + 1 PROVE m[i] = c
        OBVIOUS
    <2>1. CASE i \in 1 .. k
        BY <1>2, <1>5, <2>1
    <2>2. CASE i = k + 1
        BY <1>3, <1>5, <2>2
    <2>. QED BY <2>1, <2>2
<1>7. PICK w : w = Run(c, k + 1)
    OBVIOUS
<1>8. w \in Seq(Chars) /\ Len(w) = k + 1 /\ \A i \in 1 .. k + 1 : w[i] = c
    <2>1. k + 1 \in Nat
        OBVIOUS
    <2>. QED BY <1>7, <2>1, RunIs
<1>9. m = w
    BY <1>5, <1>6, <1>8, SeqEqual
<1>10. (t \o r) \o s = t \o m
    BY <1>2, <1>3, <1>4, ConcatAssociative
<1>. QED BY <1>1, <1>3, <1>7, <1>9, <1>10

\* A character takes the place of one of the rest, or of the end.
LEMMA OverHolds ==
    ASSUME NEW b, NEW t1 \in Seq(Chars), NEW t2 \in Seq(Chars), Holds(b, t1 \o t2), NEW c \in Chars,
           NEW p \in Nat, NEW m \in Nat, p = Len(t1), m = Len(t2)
    PROVE  /\ m # 0 => Holds(Put(b, p, <<c>>), (t1 \o <<c>>) \o SubSeq(t2, 2, m))
           /\ m = 0 /\ p + 1 \in Places => Holds(Appended(b, c), t1 \o <<c>>)
<1>1. PICK s \in Seq(Chars) : s = <<c>> /\ Len(s) = 1 /\ s[1] = c
    BY OneIs
<1>2. PICK v : v = t1 \o s
    OBVIOUS
<1>3. /\ v \in Seq(Chars) /\ Len(v) = p + 1 /\ (\A i \in 1 .. p : v[i] = t1[i]) /\ v[p + 1] = c
    <2>2. /\ v \in Seq(Chars) /\ Len(v) = p + 1 /\ (\A i \in 1 .. p : v[i] = t1[i])
          /\ v[p + 1] = s[1]
        BY <1>1, <1>2, JoinOne
    <2>. QED BY <1>1, <2>2
<1>4. /\ b \in Buffers /\ p + m \in Places /\ b[p + m] = Nul
      /\ (\A i \in 1 .. p : b[i - 1] = t1[i]) /\ (\A i \in 1 .. m : b[p + i - 1] = t2[i])
    <2>1. PICK u : u = t1 \o t2
        OBVIOUS
    <2>2. /\ Len(u) = p + m /\ (\A i \in 1 .. p : u[i] = t1[i]) /\ (\A i \in 1 .. m : u[p + i] = t2[i])
        BY <2>1, JoinIs
    <2>3. b \in Buffers /\ p + m \in Places /\ b[p + m] = Nul /\ \A i \in 1 .. p + m : b[i - 1] = u[i]
        BY <2>1, <2>2 DEF Holds
    <2>4. ASSUME NEW i \in 1 .. p PROVE b[i - 1] = t1[i]
        <3>1. i \in 1 .. p + m
            OBVIOUS
        <3>. QED BY <2>2, <2>3, <3>1
    <2>5. ASSUME NEW i \in 1 .. m PROVE b[p + i - 1] = t2[i]
        <3>1. p + i \in 1 .. p + m
            OBVIOUS
        <3>. QED BY <2>2, <2>3, <3>1
    <2>. QED BY <2>3, <2>4, <2>5
<1>5. Size \in Nat /\ p + m < Size
    BY <1>4, PlacesAre
<1>6. ASSUME m # 0 PROVE Holds(Put(b, p, <<c>>), (t1 \o <<c>>) \o SubSeq(t2, 2, m))
    <2>1. PICK r : r = SubSeq(t2, 2, m)
        OBVIOUS
    <2>2. r \in Seq(Chars) /\ Len(r) = m - 1 /\ \A i \in 1 .. m - 1 : r[i] = t2[i + 1]
        <3>1. \A i \in 2 .. m : t2[i] \in Chars
            OBVIOUS
        <3>2. /\ SubSeq(t2, 2, m) \in Seq(Chars)
              /\ Len(SubSeq(t2, 2, m)) = IF 2 <= m THEN m - 2 + 1 ELSE 0
              /\ \A i \in 1 .. m - 2 + 1 : SubSeq(t2, 2, m)[i] = t2[2 + i - 1]
            BY <3>1, SubSeqProperties
        <3>3. ASSUME NEW i \in 1 .. m - 1 PROVE r[i] = t2[i + 1]
            <4>1. i \in 1 .. m - 2 + 1 /\ 2 + i - 1 = i + 1
                OBVIOUS
            <4>. QED BY <2>1, <3>2, <4>1
        <3>. QED BY <1>6, <2>1, <3>2, <3>3
    <2>3. PICK j \in Nat, k \in Nat : j = m - 1 /\ k = p + 1
        <3>1. m - 1 \in Nat /\ p + 1 \in Nat
            BY <1>6
        <3>. QED BY <3>1
    <2>4. PICK w : w = v \o r
        OBVIOUS
    <2>5. /\ w \in Seq(Chars) /\ Len(w) = k + j
          /\ (\A i \in 1 .. k : w[i] = v[i]) /\ (\A i \in 1 .. j : w[k + i] = r[i])
        <3>1. k = Len(v) /\ j = Len(r) /\ r \in Seq(Chars) /\ v \in Seq(Chars)
            BY <1>3, <2>2, <2>3
        <3>2. /\ v \o r \in Seq(Chars) /\ Len(v \o r) = k + j
              /\ (\A i \in 1 .. k : (v \o r)[i] = v[i]) /\ (\A i \in 1 .. j : (v \o r)[k + i] = r[i])
            BY ONLY <3>1, k \in Nat, j \in Nat, JoinIs
        <3>. QED BY <2>4, <3>2
    <2>6. PICK d : d = Put(b, p, s)
        OBVIOUS
    <2>7. d = [i \in Places |-> IF i \in p .. p + 1 - 1 THEN s[i - p + 1] ELSE b[i]]
        BY <1>1, <2>6 DEF Put
    <2>8. \A i \in Places : d[i] = IF i = p THEN c ELSE b[i]
        BY <1>1, <2>7, PlacesAre
    <2>9. d \in Buffers
        <3>1. \A i \in Places : d[i] \in Chars \cup {Nul}
            BY <1>4, <2>8 DEF Buffers
        <3>. QED BY <2>7, <3>1 DEF Buffers
    <2>10. k + j = p + m /\ d[k + j] = Nul
        <3>1. k + j = p + m /\ p + m # p
            BY <1>6, <2>3
        <3>. QED BY <1>4, <2>8, <3>1
    <2>11. ASSUME NEW i \in 1 .. k + j PROVE d[i - 1] = w[i]
        <3>1. i - 1 \in Places
            BY <1>5, <2>10 DEF Places
        <3>2. CASE i <= p
            <4>1. i \in 1 .. p /\ i \in 1 .. k /\ i - 1 # p
                BY <2>3, <3>2
            <4>2. d[i - 1] = b[i - 1]
                BY <2>8, <3>1, <4>1
            <4>. QED BY <1>3, <1>4, <2>5, <4>1, <4>2
        <3>3. CASE i = k
            <4>1. i \in 1 .. k /\ i - 1 = p /\ i = p + 1
                BY <2>3, <3>3
            <4>. QED BY <1>3, <2>5, <2>8, <3>1, <4>1
        <3>4. CASE i > k
            <4>1. PICK z : z = i - k
                OBVIOUS
            <4>2. z \in 1 .. j /\ i = k + z /\ z \in 1 .. m - 1
                BY <2>3, <3>4, <4>1
            <4>3. z + 1 \in 1 .. m /\ i - 1 = p + (z + 1) - 1 /\ i - 1 # p
                BY <2>3, <3>4, <4>2
            <4>4. d[i - 1] = b[p + (z + 1) - 1]
                BY <2>8, <3>1, <4>3
            <4>5. b[p + (z + 1) - 1] = t2[z + 1]
                BY <1>4, <4>3
            <4>. QED BY <2>2, <2>5, <4>2, <4>4, <4>5
        <3>. QED BY <2>3, <3>2, <3>3, <3>4
    <2>12. Holds(d, w)
        BY <1>4, <2>5, <2>9, <2>10, <2>11 DEF Holds
    <2>. QED BY <1>1, <1>2, <2>1, <2>4, <2>6, <2>12
<1>7. ASSUME m = 0, p + 1 \in Places PROVE Holds(Appended(b, c), t1 \o <<c>>)
    <2>1. Length(b) = p
        <3>1. Length(b) = Len(t1 \o t2)
            BY HoldsIs
        <3>2. Len(t1 \o t2) = p + m
            BY ConcatProperties
        <3>. QED BY <1>7, <3>1, <3>2
    <2>2. PICK d : d = Appended(b, c)
        OBVIOUS
    <2>3. d = [i \in Places |-> IF i \in p .. p + 2 - 1 THEN <<c, Nul>>[i - p + 1] ELSE b[i]]
        BY <2>1, <2>2 DEF Appended, Put
    <2>4. \A i \in Places : d[i] = IF i = p THEN c ELSE IF i = p + 1 THEN Nul ELSE b[i]
        BY <2>3, PlacesAre
    <2>5. d \in Buffers
        <3>1. \A i \in Places : d[i] \in Chars \cup {Nul}
            BY <1>4, <2>4 DEF Buffers
        <3>. QED BY <2>3, <3>1 DEF Buffers
    <2>6. d[p + 1] = Nul
        BY <1>7, <2>4
    <2>7. ASSUME NEW i \in 1 .. p + 1 PROVE d[i - 1] = v[i]
        <3>1. i - 1 \in Places /\ i - 1 # p + 1
            BY <1>5 DEF Places
        <3>2. CASE i <= p
            <4>1. i \in 1 .. p /\ i - 1 # p
                BY <3>2
            <4>. QED BY <1>3, <1>4, <2>4, <3>1, <4>1
        <3>3. CASE i = p + 1
            <4>1. i - 1 = p
                BY <3>3
            <4>. QED BY <1>3, <2>4, <3>1, <3>3, <4>1
        <3>4. i <= p \/ i = p + 1
            OBVIOUS
        <3>. QED BY <3>2, <3>3, <3>4
    <2>8. Holds(d, v)
        BY <1>3, <1>7, <2>5, <2>6, <2>7 DEF Holds
    <2>. QED BY <1>1, <1>2, <2>2, <2>8
<1>. QED BY <1>6, <1>7

\* The end the overtyping goes by.
LEMMA GrownIs ==
    ASSUME TextIInv, Editing, NEW n \in Repeats, Length(szText) + n < Size, NEW g, Grows(g, n)
    PROVE  \A k \in 0 .. n : g[k] = IF Lo + k <= Length(szText) THEN Length(szText) ELSE Lo + k
<1>1. PICK x \in Nat, l \in Nat : x = Lo /\ l = Length(szText) /\ x <= l
    BY TypingFacts
<1>2. n \in Nat
    BY TypingFacts
<1>3. g[0] = l /\ \A k \in 1 .. n : g[k] = IF x + k - 1 = g[k - 1] THEN g[k - 1] + 1 ELSE g[k - 1]
    BY <1>1, GrowsIs
<1>4. PICK T : T = [k \in 0 .. n |-> {IF x + k <= l THEN l ELSE x + k}]
    OBVIOUS
<1>5. \A k \in 0 .. n : T[k] = {IF x + k <= l THEN l ELSE x + k}
    BY <1>4
<1>6. ASSUME NEW j \in 0 .. n PROVE g[j] = IF x + j <= l THEN l ELSE x + j
    <2>1. j \in Nat /\ 0 \in 0 .. n
        BY <1>2
    <2>2. g[0] \in T[0]
        BY <1>1, <1>3, <1>5, <2>1
    <2>3. ASSUME NEW k \in 1 .. j, g[k - 1] \in T[k - 1] PROVE g[k] \in T[k]
        <3>1. k \in 1 .. n /\ k \in 0 .. n /\ k - 1 \in 0 .. n
            BY <1>2
        <3>2. g[k - 1] = IF x + (k - 1) <= l THEN l ELSE x + (k - 1)
            BY <1>5, <2>3, <3>1
        <3>3. g[k] = IF x + k - 1 = g[k - 1] THEN g[k - 1] + 1 ELSE g[k - 1]
            BY <1>3, <3>1
        <3>4. g[k] = IF x + k <= l THEN l ELSE x + k
            BY <3>1, <3>2, <3>3
        <3>. QED BY <1>5, <3>1, <3>4
    <2>4. g[j] \in T[j]
        BY <2>1, <2>2, <2>3, LoopKeeps
    <2>. QED BY <1>5, <2>4
<1>. QED BY <1>1, <1>6

\* The rest of a text from k on, and what is left of it without its first character.
LEMMA TailIs ==
    ASSUME NEW t \in Seq(Chars), NEW m \in Nat, m = Len(t), NEW k \in Nat \ {0}
    PROVE  /\ SubSeq(t, k, m) \in Seq(Chars)
           /\ Len(SubSeq(t, k, m)) = IF k <= m THEN m - k + 1 ELSE 0
           /\ \A i \in 1 .. m - k + 1 : SubSeq(t, k, m)[i] = t[k + i - 1]
<1>1. \A i \in k .. m : t[i] \in Chars
    BY CharsAre
<1>2. k \in Int /\ m \in Int
    OBVIOUS
<1>. QED BY <1>1, <1>2, SubSeqProperties

LEMMA TailOfTail ==
    ASSUME NEW t \in Seq(Chars), NEW m \in Nat, m = Len(t), NEW k \in Nat \ {0}, k <= m,
           NEW j \in Nat, j = m - k + 1
    PROVE  SubSeq(SubSeq(t, k, m), 2, j) = SubSeq(t, k + 1, m)
<1>1. PICK r \in Seq(Chars) : r = SubSeq(t, k, m) /\ Len(r) = j /\ \A i \in 1 .. j : r[i] = t[k + i - 1]
    BY TailIs
<1>2. PICK two \in Nat \ {0} : two = 2
    OBVIOUS
<1>3. PICK u : u = SubSeq(r, two, j)
    OBVIOUS
<1>4. /\ u \in Seq(Chars) /\ Len(u) = (IF two <= j THEN j - two + 1 ELSE 0)
      /\ \A i \in 1 .. j - two + 1 : u[i] = r[two + i - 1]
    BY <1>1, <1>3, TailIs
<1>5. PICK h \in Nat \ {0} : h = k + 1
    <2>1. k + 1 \in Nat \ {0}
        OBVIOUS
    <2>. QED BY <2>1
<1>6. PICK v : v = SubSeq(t, h, m)
    OBVIOUS
<1>7. /\ v \in Seq(Chars) /\ Len(v) = (IF h <= m THEN m - h + 1 ELSE 0)
      /\ \A i \in 1 .. m - h + 1 : v[i] = t[h + i - 1]
    BY <1>6, TailIs
<1>8. Len(u) = j - 1 /\ Len(v) = j - 1
    BY <1>2, <1>4, <1>5, <1>7
<1>9. ASSUME NEW i \in 1 .. j - 1 PROVE u[i] = v[i]
    <2>1. i \in 1 .. j - two + 1 /\ i \in 1 .. m - h + 1
        BY <1>2, <1>5
    <2>2. two + i - 1 = i + 1 /\ i + 1 \in 1 .. j /\ k + (i + 1) - 1 = h + i - 1
        BY <1>2, <1>5
    <2>3. u[i] = r[i + 1] /\ v[i] = t[h + i - 1]
        BY <1>4, <1>7, <2>1, <2>2
    <2>4. r[i + 1] = t[k + (i + 1) - 1]
        BY <1>1, <2>2
    <2>. QED BY <2>2, <2>3, <2>4
<1>10. u = v
    BY <1>4, <1>7, <1>8, <1>9, SeqEqual
<1>. QED BY <1>1, <1>2, <1>3, <1>5, <1>6, <1>10

\* What is typed after k of the characters: the part before the selection, them, and the rest.
TypedText(c, k) ==
    (Front(Lo) \o Run(c, k))
      \o IF bOvertypeMode THEN SubSeq(Rear(Hi), k + 1, Len(Rear(Hi))) ELSE Rear(Hi)
Typing(c, k) == {e \in EntryStates : e.p = Lo + k /\ Holds(e.b, TypedText(c, k))}

LEMMA PartsOfTyping ==
    ASSUME TextIInv, Editing
    PROVE  \E t1 \in Seq(Chars), t2 \in Seq(Chars), x \in Nat, m \in Nat, l \in Nat :
             /\ t1 = Front(Lo) /\ t2 = Rear(Hi) /\ x = Lo /\ x = Len(t1) /\ m = Len(t2)
             /\ l = Length(szText) /\ x + m <= l /\ Length(Nuked.b) = x + m
             /\ nSelAnchorPos = NoAnchor => l = x + m
             /\ Holds(Nuked.b, t1 \o t2)
<1>1. PICK l \in Nat, x \in Nat, y \in Nat : /\ l = Length(szText) /\ x = Lo /\ y = Hi /\ x <= y /\ y <= l
                                             /\ nSelAnchorPos = NoAnchor => x = y
    BY SelectionIs, EditingFacts, PlacesAre
<1>2. PICK m \in Nat : m = l - y
    BY <1>1
<1>3. /\ Front(Lo) \in Seq(Chars) /\ Len(Front(Lo)) = x
      /\ Rear(Hi) \in Seq(Chars) /\ Len(Rear(Hi)) = m
      /\ Holds(Nuked.b, Front(Lo) \o Rear(Hi))
    BY <1>1, <1>2, NukedHolds
<1>4. x + m <= l /\ Length(Nuked.b) = x + m /\ (nSelAnchorPos = NoAnchor => l = x + m)
    BY <1>1, <1>2, NukedEnds
<1>. QED BY <1>1, <1>3, <1>4

LEMMA TypingStarts ==
    ASSUME TextIInv, Editing, NEW c \in Chars
    PROVE  Nuked \in Typing(c, 0)
<1>1. PICK t1 \in Seq(Chars), t2 \in Seq(Chars), x \in Nat, m \in Nat, l \in Nat :
             /\ t1 = Front(Lo) /\ t2 = Rear(Hi) /\ x = Lo /\ x = Len(t1) /\ m = Len(t2)
             /\ l = Length(szText) /\ x + m <= l /\ Length(Nuked.b) = x + m
             /\ nSelAnchorPos = NoAnchor => l = x + m
             /\ Holds(Nuked.b, t1 \o t2)
    BY PartsOfTyping
<1>2. Nuked.p = Lo /\ Nuked.p = Lo + 0 /\ Nuked.b \in Buffers /\ Nuked = [b |-> Nuked.b, p |-> Nuked.p]
    <2>1. Nuked.p = Lo /\ Nuked.b \in Buffers
        BY NukedIs
    <2>2. Nuked = [b |-> Nuked.b, p |-> Nuked.p]
        BY DEF Nuked, Entry
    <2>. QED BY <1>1, <2>1, <2>2
<1>3. t1 \o Run(c, 0) = t1
    <2>1. Run(c, 0) = <<>>
        BY DEF Run
    <2>. QED BY <2>1, ConcatEmptySeq
<1>4. SubSeq(t2, 0 + 1, m) = t2
    BY <1>1
<1>5. TypedText(c, 0) = t1 \o t2
    BY <1>1, <1>3, <1>4 DEF TypedText
<1>. QED BY <1>1, <1>2, <1>5 DEF Typing, EntryStates

\* One character more is inserted.
LEMMA InsertStep ==
    ASSUME TextIInv, Editing, ~bOvertypeMode, NEW c \in Chars,
           NEW k \in Nat \ {0}, Length(szText) + k \in Places, NEW e \in Typing(c, k - 1)
    PROVE  Insert(c, e, Length(szText) + k - 1) \in Typing(c, k)
<1>1. PICK t1 \in Seq(Chars), t2 \in Seq(Chars), x \in Nat, m \in Nat, l \in Nat :
             /\ t1 = Front(Lo) /\ t2 = Rear(Hi) /\ x = Lo /\ x = Len(t1) /\ m = Len(t2)
             /\ l = Length(szText) /\ x + m <= l /\ Length(Nuked.b) = x + m
             /\ nSelAnchorPos = NoAnchor => l = x + m
             /\ Holds(Nuked.b, t1 \o t2)
    BY PartsOfTyping
<1>2. PICK j \in Nat : j = k - 1
    <2>1. k - 1 \in Nat
        OBVIOUS
    <2>. QED BY <2>1
<1>3. PICK b, p : b = e.b /\ p = e.p
    OBVIOUS
<1>4. PICK r \in Seq(Chars) : r = Run(c, j) /\ Len(r) = j
    BY RunIs
<1>5. PICK u : u = t1 \o r
    OBVIOUS
<1>6. u \in Seq(Chars) /\ Len(u) = x + j
    <2>1. t1 \in Seq(Chars) /\ r \in Seq(Chars) /\ x = Len(t1) /\ j = Len(r)
        BY <1>1, <1>4
    <2>2. t1 \o r \in Seq(Chars) /\ Len(t1 \o r) = x + j
        BY ONLY <2>1, x \in Nat, j \in Nat, JoinIs
    <2>. QED BY <1>5, <2>2
<1>7. p = x + j /\ Holds(b, u \o t2)
    BY <1>1, <1>2, <1>3, <1>4, <1>5 DEF Typing, TypedText
<1>8. PICK q \in Nat : q = l + k - 1 /\ q >= p + m /\ p \in Nat
    <2>1. l + k - 1 = l + j /\ l + j \in Nat /\ p \in Nat /\ l + j >= p + m
        BY <1>1, <1>2, <1>7
    <2>. QED BY <2>1
<1>9. PICK s \in Seq(Chars), one \in Nat : s = <<c>> /\ one = 1 /\ one = Len(s)
    BY OneIs
<1>10. p + m + one \in Places
    <2>1. l + k \in Nat /\ l + k < Size /\ Size \in Nat
        BY <1>1, PlacesAre
    <2>2. p + m + one <= l + k /\ p + m + one \in Nat
        BY <1>1, <1>2, <1>7, <1>8, <1>9
    <2>3. p + m + one < Size
        BY <2>1, <2>2
    <2>. QED BY <2>2, <2>3, PlacesAre
<1>11. Holds(Put(Opened(b, p, q, one), p, s), (u \o s) \o t2)
    <2>1. p = Len(u)
        BY <1>6, <1>7
    <2>. QED BY <1>1, <1>6, <1>7, <1>8, <1>9, <1>10, <2>1, SpliceHolds
<1>12. u \o s = t1 \o Run(c, k)
    <2>1. (t1 \o Run(c, j)) \o <<c>> = t1 \o Run(c, j + 1)
        BY RunGrows
    <2>2. j + 1 = k
        BY <1>2
    <2>. QED BY <1>4, <1>5, <1>9, <2>1, <2>2
<1>13. PICK d : d = Put(Opened(b, p, q, 1), p, <<c>>)
    OBVIOUS
<1>14. Holds(d, TypedText(c, k)) /\ d \in Buffers
    <2>1. Holds(d, TypedText(c, k))
        BY <1>1, <1>9, <1>11, <1>12, <1>13 DEF TypedText
    <2>. QED BY <2>1 DEF Holds
<1>15. Insert(c, e, q) = [b |-> d, p |-> p + 1] /\ p + 1 = Lo + k /\ p + 1 \in Nat
    <2>1. Insert(c, e, q) = [b |-> d, p |-> p + 1]
        BY <1>3, <1>13 DEF Insert, Entry
    <2>. QED BY <1>1, <1>2, <1>7, <1>8, <2>1
<1>16. Insert(c, e, q) \in Typing(c, k)
    BY <1>14, <1>15 DEF Typing, EntryStates
<1>. QED BY <1>1, <1>8, <1>16

\* One character more replaces one of the rest, or extends it.
LEMMA OvertypeStep ==
    ASSUME TextIInv, Editing, bOvertypeMode, NEW c \in Chars, NEW n \in Nat, ~Resurrects(n),
           NEW k \in Nat \ {0}, k <= n, Length(szText) + k \in Places, NEW e \in Typing(c, k - 1),
           NEW len, len = IF Lo + (k - 1) <= Length(szText) THEN Length(szText) ELSE Lo + (k - 1)
    PROVE  Overtype(c, e, len) \in Typing(c, k)
<1>1. PICK t1 \in Seq(Chars), t2 \in Seq(Chars), x \in Nat, m \in Nat, l \in Nat :
             /\ t1 = Front(Lo) /\ t2 = Rear(Hi) /\ x = Lo /\ x = Len(t1) /\ m = Len(t2)
             /\ l = Length(szText) /\ x + m <= l /\ Length(Nuked.b) = x + m
             /\ nSelAnchorPos = NoAnchor => l = x + m
             /\ Holds(Nuked.b, t1 \o t2)
    BY PartsOfTyping
<1>2. PICK j \in Nat : j = k - 1
    <2>1. k - 1 \in Nat
        OBVIOUS
    <2>. QED BY <2>1
<1>3. PICK b, p : b = e.b /\ p = e.p
    OBVIOUS
<1>4. PICK r \in Seq(Chars) : r = Run(c, j) /\ Len(r) = j
    BY RunIs
<1>5. PICK u : u = t1 \o r
    OBVIOUS
<1>6. u \in Seq(Chars) /\ Len(u) = x + j
    <2>1. t1 \in Seq(Chars) /\ r \in Seq(Chars) /\ x = Len(t1) /\ j = Len(r)
        BY <1>1, <1>4
    <2>2. t1 \o r \in Seq(Chars) /\ Len(t1 \o r) = x + j
        BY ONLY <2>1, x \in Nat, j \in Nat, JoinIs
    <2>. QED BY <1>5, <2>2
<1>7. PICK w : w = SubSeq(t2, k, m)
    OBVIOUS
<1>8. w \in Seq(Chars) /\ Len(w) = IF k <= m THEN m - k + 1 ELSE 0
    BY <1>1, <1>7, TailIs
<1>9. p = x + j /\ p \in Nat /\ Holds(b, u \o w)
    <2>1. j + 1 = k
        BY <1>2
    <2>2. p = Lo + (k - 1) /\ Holds(b, TypedText(c, k - 1))
        BY <1>3 DEF Typing
    <2>3. TypedText(c, j) = (t1 \o Run(c, j)) \o SubSeq(t2, j + 1, Len(t2))
        BY <1>1 DEF TypedText
    <2>4. TypedText(c, k - 1) = u \o w
        BY <1>1, <1>2, <1>4, <1>5, <1>7, <2>1, <2>3
    <2>5. p = x + j /\ p \in Nat
        <3>1. p = Lo + j /\ x = Lo
            BY <1>1, <1>2, <2>2
        <3>. QED BY <3>1
    <2>. QED BY <2>2, <2>4, <2>5
<1>10. (t1 \o r) \o <<c>> = t1 \o Run(c, k)
    <2>1. (t1 \o Run(c, j)) \o <<c>> = t1 \o Run(c, j + 1)
        BY RunGrows
    <2>2. j + 1 = k
        BY <1>2
    <2>. QED BY <1>4, <2>1, <2>2
<1>11. TypedText(c, k) = (u \o <<c>>) \o SubSeq(t2, k + 1, m)
    BY <1>1, <1>5, <1>10 DEF TypedText
<1>12. len = IF x + j <= l THEN l ELSE x + j
    BY <1>1, <1>2
<1>13. p = len <=> k > m
    <2>1. nSelAnchorPos = NoAnchor \/ x + n <= x + m
        <3>1. nSelAnchorPos = NoAnchor \/ ~(Nuked.p + n > Length(Nuked.b))
            BY DEF Resurrects
        <3>2. Nuked.p = x
            BY <1>1, NukedIs
        <3>. QED BY <1>1, <3>1, <3>2
    <2>2. CASE nSelAnchorPos = NoAnchor
        BY <1>1, <1>2, <1>9, <1>12, <2>2
    <2>3. CASE x + n <= x + m
        BY <1>1, <1>2, <1>9, <1>12, <2>3
    <2>. QED BY <2>1, <2>2, <2>3
<1>14. PICK h \in Nat : h = Len(w) /\ (h = 0 <=> k > m) /\ (k <= m => h = m - k + 1) /\ p = Len(u)
    <2>1. Len(w) \in Nat /\ p = Len(u)
        BY <1>6, <1>8, <1>9
    <2>2. CASE k <= m
        BY <1>8, <2>1, <2>2
    <2>3. CASE k > m
        BY <1>8, <2>1, <2>3
    <2>. QED BY <1>1, <2>2, <2>3
<1>15. PICK d : d = IF p = len THEN Appended(b, c) ELSE Put(b, p, <<c>>)
    OBVIOUS
<1>16. Holds(d, TypedText(c, k))
    <2>1. CASE k <= m
        <3>1. Holds(Put(b, p, <<c>>), (u \o <<c>>) \o SubSeq(w, 2, h))
            BY <1>6, <1>8, <1>9, <1>14, <2>1, OverHolds
        <3>2. SubSeq(w, 2, h) = SubSeq(t2, k + 1, m)
            BY <1>1, <1>7, <1>14, <2>1, TailOfTail
        <3>3. ~(k > m)
            BY <1>1, <2>1
        <3>4. d = Put(b, p, <<c>>)
            BY <1>13, <1>15, <3>3
        <3>. QED BY <1>11, <3>1, <3>2, <3>4
    <2>2. CASE k > m
        <3>1. p + 1 \in Places
            <4>1. l + k \in Nat /\ l + k < Size /\ Size \in Nat
                BY <1>1, PlacesAre
            <4>2. p + 1 <= l + k /\ p + 1 \in Nat
                BY <1>1, <1>2, <1>9
            <4>3. p + 1 < Size
                BY <4>1, <4>2
            <4>. QED BY <4>2, <4>3, PlacesAre
        <3>2. Holds(Appended(b, c), u \o <<c>>)
            BY <1>6, <1>8, <1>9, <1>14, <2>2, <3>1, OverHolds
        <3>3. (u \o <<c>>) \o SubSeq(t2, k + 1, m) = u \o <<c>>
            <4>1. SubSeq(t2, k + 1, m) = <<>>
                <5>1. PICK i \in Nat \ {0} : i = k + 1
                    <6>1. k + 1 \in Nat \ {0}
                        OBVIOUS
                    <6>. QED BY <6>1
                <5>2. SubSeq(t2, i, m) \in Seq(Chars) /\ Len(SubSeq(t2, i, m)) = IF i <= m THEN m - i + 1 ELSE 0
                    BY <1>1, TailIs
                <5>. QED BY <2>2, <5>1, <5>2, EmptySeq
            <4>2. u \o <<c>> \in Seq(Chars)
                BY <1>6, OneIs, JoinOne
            <4>. QED BY <4>1, <4>2, ConcatEmptySeq
        <3>. QED BY <1>11, <1>13, <1>15, <2>2, <3>2, <3>3
    <2>. QED BY <1>1, <2>1, <2>2
<1>17. d \in Buffers
    BY <1>16 DEF Holds
<1>18. Overtype(c, e, len) = [b |-> d, p |-> p + 1] /\ p + 1 = Lo + k /\ p + 1 \in Nat
    <2>1. Overtype(c, e, len) = [b |-> d, p |-> p + 1]
        BY <1>3, <1>15 DEF Overtype, Entry
    <2>. QED BY <1>1, <1>2, <1>9, <2>1
<1>. QED BY <1>16, <1>17, <1>18 DEF Typing, EntryStates

LEMMA TypeMeans ==
    ASSUME TextIInv, NEW c \in Alnum \cup Other, NEW n \in Repeats, Type(c, n)
    PROVE  Resurrects(n) \/ Editor!Types(c, n)
<1>0. Editing /\ c \in Chars
    BY CharsAre DEF Type
<1>1. CASE Length(szText) + n >= MaxLen
    <2>1. UNCHANGED <<szText, nCursorPos, nSelAnchorPos, bOvertypeMode>>
        BY <1>1 DEF Type, Same, textVars, entry
    <2>2. Text(szText)' = Text(szText)
        BY <2>1
    <2>3. Editor!Length + n >= MaxLen
        BY <1>0, <1>1, EditorIs
    <2>. QED BY <2>1, <2>2, <2>3 DEF Editor!Types
<1>2. CASE ~(Length(szText) + n >= MaxLen) /\ ~Resurrects(n)
    <2>1. n \in Nat /\ Length(szText) \in Nat /\ Size \in Nat /\ Length(szText) + n < Size
        BY <1>0, <1>2, RepeatFacts, EditingFacts, PlacesAre
    <2>2. Edits(Typed(c, n))
        BY <1>2 DEF Type
    <2>3. /\ \E g : Grows(g, n)
          /\ \A g : Grows(g, n) => \E f : Types(f, g, c, n)
        BY <1>0, <2>1, GrowsRuns, TypesRuns
    <2>4. PICK g, f : Grows(g, n) /\ Types(f, g, c, n) /\ Typed(c, n) = f[n]
        BY <2>3 DEF Grows, Types, Typed
    <2>5. f = [k \in 0 .. n |-> IF k = 0 THEN Nuked
                                ELSE IF bOvertypeMode THEN Overtype(c, f[k - 1], g[k - 1])
                                ELSE Insert(c, f[k - 1], Length(szText) + k - 1)]
        BY <2>4 DEF Types
    <2>6. 0 \in 0 .. n /\ \A k \in 1 .. n : k \in 0 .. n /\ k # 0 /\ k - 1 \in 0 .. n
        BY <2>1
    <2>7. f[0] = Nuked
        BY <2>5, <2>6
    <2>8. \A k \in 1 .. n : f[k] = IF bOvertypeMode THEN Overtype(c, f[k - 1], g[k - 1])
                                   ELSE Insert(c, f[k - 1], Length(szText) + k - 1)
        BY <2>5, <2>6
    <2>9. PICK T : T = [k \in 0 .. n |-> Typing(c, k)]
        OBVIOUS
    <2>10. \A k \in 0 .. n : T[k] = Typing(c, k)
        BY <2>9
    <2>11. f[0] \in T[0]
        BY <1>0, <2>6, <2>7, <2>10, TypingStarts
    <2>12. ASSUME NEW k \in 1 .. n, f[k - 1] \in T[k - 1] PROVE f[k] \in T[k]
        <3>1. PICK e : e = f[k - 1]
            OBVIOUS
        <3>2. e \in Typing(c, k - 1) /\ T[k] = Typing(c, k)
            BY <2>6, <2>10, <2>12, <3>1
        <3>3. k \in Nat \ {0} /\ k <= n /\ Length(szText) + k \in Places
            BY <1>0, <2>1, PlacesAre
        <3>4. CASE ~bOvertypeMode
            <4>1. Insert(c, e, Length(szText) + k - 1) \in Typing(c, k)
                BY <1>0, <3>2, <3>3, <3>4, InsertStep
            <4>. QED BY <2>8, <3>1, <3>2, <3>4, <4>1
        <3>5. CASE bOvertypeMode
            <4>1. PICK len : len = g[k - 1]
                OBVIOUS
            <4>2. len = IF Lo + (k - 1) <= Length(szText) THEN Length(szText) ELSE Lo + (k - 1)
                BY <1>0, <2>1, <2>4, <2>6, <4>1, GrownIs
            <4>3. Overtype(c, e, len) \in Typing(c, k)
                BY <1>0, <1>2, <2>1, <3>2, <3>3, <3>5, <4>2, OvertypeStep
            <4>. QED BY <2>8, <3>1, <3>2, <3>5, <4>1, <4>3
        <3>. QED BY <3>4, <3>5
    <2>13. f[n] \in T[n]
        BY <2>1, <2>11, <2>12, LoopKeeps
    <2>14. PICK e : /\ e = f[n] /\ Edits(e) /\ e.p = Lo + n /\ Holds(e.b, TypedText(c, n))
        BY <2>1, <2>2, <2>4, <2>10, <2>13 DEF Typing
    <2>15. /\ Text(szText)' = TypedText(c, n) /\ nCursorPos' = Lo + n /\ nSelAnchorPos' = Editor!None
           /\ UNCHANGED bOvertypeMode
        BY <2>14, EditMeans
    <2>16. ~(Editor!Length + n >= MaxLen) /\ Editor!Low = Lo /\ Editor!High = Hi
        BY <1>0, <1>2, EditorIs
    <2>17. Editor!Before(Lo) = Front(Lo) /\ Editor!After(Hi) = Rear(Hi)
        BY <1>0, EditorIs
    <2>18. Run(c, n) = [i \in 1 .. n |-> c]
        BY DEF Run
    <2>. QED BY <2>15, <2>16, <2>17, <2>18 DEF Editor!Types, TypedText
<1>. QED BY <1>1, <1>2

-----------------------------------------------------------------------------
(***************************************************************************)
(* What moving means: the line around a place.                             *)
(***************************************************************************)
\* What separates lines in the buffer does in the text.
LEMMA LineFacts ==
    ASSUME TextIInv, Editing
    PROVE  \E l \in Nat, t \in Seq(Chars) :
             /\ l = Length(szText) /\ l < Size /\ Size \in Nat /\ szText[l] = Nul
             /\ t = Text(szText) /\ Len(t) = l /\ Editor!Length = l
             /\ \A i \in 1 .. l : t[i] = szText[i - 1] /\ szText[i - 1] # Nul
             /\ code \/ \A i \in 1 .. l : szText[i - 1] # LF
<1>1. PICK l \in Nat : /\ l = Length(szText) /\ l < Size /\ Size \in Nat /\ szText[l] = Nul
                       /\ \A i \in 0 .. l - 1 : szText[i] # Nul
                       /\ code \/ \A i \in 0 .. l - 1 : szText[i] # LF
    BY EditingFacts, PlacesAre
<1>2. PICK t \in Seq(Chars) : t = Text(szText) /\ Len(t) = l /\ \A i \in 1 .. l : t[i] = szText[i - 1]
    BY <1>1, TextIs
<1>3. \A i \in 1 .. l : i - 1 \in 0 .. l - 1
    BY <1>1
<1>4. Editor!Length = l
    BY <1>1, EditorIs
<1>. QED BY <1>1, <1>2, <1>3, <1>4

LEMMA LineStartIs ==
    ASSUME TextIInv, Editing, NEW p, IsPlace(p)
    PROVE  /\ Editor!LineStart(p) \in 0 .. p /\ Column(p) = p - Editor!LineStart(p)
           /\ \A q \in 1 .. p : szText[q - 1] = LF => q <= Editor!LineStart(p)
<1>1. PICK l \in Nat, t \in Seq(Chars) :
             /\ l = Length(szText) /\ l < Size /\ Size \in Nat /\ szText[l] = Nul
             /\ t = Text(szText) /\ Len(t) = l /\ Editor!Length = l
             /\ \A i \in 1 .. l : t[i] = szText[i - 1] /\ szText[i - 1] # Nul
             /\ code \/ \A i \in 1 .. l : szText[i - 1] # LF
    BY LineFacts
<1>2. p \in Nat /\ p <= l
    BY <1>1 DEF IsPlace
<1>3. PICK S : S = {0} \cup {q \in 1 .. p : t[q] = LF}
    OBVIOUS
<1>4. S \in SUBSET Nat /\ S # {} /\ \A k \in S : k <= p
    BY <1>2, <1>3
<1>5. Max(S) \in S /\ Max(S) \in Nat /\ Max(S) <= p
    <2>1. Max(S) \in S
        BY <1>2, <1>4, MaxIs
    <2>. QED BY <1>4, <2>1
<1>6. Editor!LineStart(p) = Max(S)
    BY <1>1, <1>3 DEF Editor!LineStart, Editor!Max, Max
<1>7. \A q \in 1 .. p : q \in 1 .. l /\ (t[q] = LF <=> szText[q - 1] = LF)
    BY <1>1, <1>2
<1>8. Column(p) = p - Max(S)
    <2>1. CASE code
        <3>1. S = {0} \cup {q \in 1 .. p : szText[q - 1] = LF}
            BY <1>3, <1>7
        <3>. QED BY <2>1, <3>1 DEF Column
    <2>2. CASE ~code
        <3>1. \A q \in 1 .. p : t[q] # LF
            BY <1>1, <1>7, <2>2
        <3>2. S = {0}
            BY <1>3, <3>1
        <3>3. Max(S) = 0
            BY <1>5, <3>2
        <3>. QED BY <1>2, <2>2, <3>3 DEF Column
    <2>. QED BY <2>1, <2>2
<1>9. \A q \in 1 .. p : szText[q - 1] = LF => q <= Max(S)
    <2>1. \A k \in S : Max(S) >= k
        BY <1>2, <1>4, MaxIs
    <2>. QED BY <1>3, <1>5, <1>7, <2>1
<1>. QED BY <1>2, <1>5, <1>6, <1>8, <1>9

LEMMA LineEndIs ==
    ASSUME TextIInv, Editing, NEW p, IsPlace(p)
    PROVE  /\ Editor!LineEnd(p) \in Nat /\ p <= Editor!LineEnd(p) /\ Editor!LineEnd(p) <= Length(szText)
           /\ Editor!LineEnd(p) = Min({q \in p .. Size - 1 : szText[q] \in {Nul, LF}})
           /\ Editor!LineEnd(p) = Length(szText) <=> szText[Editor!LineEnd(p)] = Nul
<1>1. PICK l \in Nat, t \in Seq(Chars) :
             /\ l = Length(szText) /\ l < Size /\ Size \in Nat /\ szText[l] = Nul
             /\ t = Text(szText) /\ Len(t) = l /\ Editor!Length = l
             /\ \A i \in 1 .. l : t[i] = szText[i - 1] /\ szText[i - 1] # Nul
             /\ code \/ \A i \in 1 .. l : szText[i - 1] # LF
    BY LineFacts
<1>2. p \in Nat /\ p <= l
    BY <1>1 DEF IsPlace
<1>3. PICK S : S = {l} \cup {q \in p .. l - 1 : t[q + 1] = LF}
    OBVIOUS
<1>4. PICK T : T = {q \in p .. Size - 1 : szText[q] \in {Nul, LF}}
    OBVIOUS
<1>5. \A q \in p .. l - 1 : t[q + 1] = szText[q] /\ szText[q] # Nul /\ q \in p .. Size - 1
    <2>. SUFFICES ASSUME NEW q \in p .. l - 1
                  PROVE  t[q + 1] = szText[q] /\ szText[q] # Nul /\ q \in p .. Size - 1
        OBVIOUS
    <2>1. q + 1 \in 1 .. l /\ q + 1 - 1 = q /\ q \in p .. Size - 1
        BY <1>1, <1>2
    <2>. QED BY <1>1, <2>1
<1>6. S \in SUBSET Nat /\ l \in S /\ T \in SUBSET Nat /\ l \in T /\ S \subseteq T
    BY <1>1, <1>2, <1>3, <1>4, <1>5
<1>7. Min(S) \in S /\ (\A k \in S : Min(S) <= k) /\ Min(T) \in T /\ \A k \in T : Min(T) <= k
    BY <1>6, MinIs
<1>8. Min(T) \in S
    <2>1. Min(T) \in Nat /\ p <= Min(T) /\ Min(T) <= l /\ szText[Min(T)] \in {Nul, LF}
        BY <1>1, <1>2, <1>4, <1>6, <1>7
    <2>2. CASE Min(T) = l
        BY <1>3, <2>2
    <2>3. CASE Min(T) # l
        <3>1. Min(T) \in p .. l - 1
            BY <1>1, <1>2, <2>1, <2>3
        <3>. QED BY <1>3, <1>5, <2>1, <3>1
    <2>. QED BY <2>2, <2>3
<1>9. PICK m \in Nat : m = Min(S) /\ m = Min(T)
    <2>1. Min(S) \in Nat /\ Min(T) \in Nat /\ Min(S) <= Min(T) /\ Min(T) <= Min(S)
        BY <1>6, <1>7, <1>8
    <2>. QED BY <2>1
<1>10. Editor!LineEnd(p) = m
    BY <1>1, <1>3, <1>9 DEF Editor!LineEnd, Editor!Min, Min
<1>11. p <= m /\ m <= l /\ (m = l <=> szText[m] = Nul)
    <2>1. p <= m /\ m <= l
        BY <1>1, <1>2, <1>4, <1>6, <1>7, <1>9
    <2>2. m # l => m \in p .. l - 1
        BY <1>1, <1>2, <2>1
    <2>. QED BY <1>1, <1>5, <2>1, <2>2
<1>. QED BY <1>1, <1>4, <1>9, <1>10, <1>11

LEMMA CodeStopIs ==
    ASSUME TextIInv, Editing, code, NEW p, IsPlace(p)
    PROVE  StopFrom(p) = Editor!LineEnd(p) /\ Byte(StopFrom(p)) = szText[StopFrom(p)]
<1>1. p \in Nat /\ Size \in Nat
    BY PlacesAre DEF IsPlace
<1>2. PICK T : T = {q \in p .. Size - 1 : szText[q] \in {Nul, LF}}
    OBVIOUS
<1>3. T = {q \in Places : q >= p /\ szText[q] \in {Nul, LF}}
    BY <1>1, <1>2 DEF Places
<1>4. StopFrom(p) = Min(T)
    BY <1>3 DEF StopFrom, Bytes, Byte
<1>5. Editor!LineEnd(p) = Min(T)
    BY <1>2, LineEndIs
<1>. QED BY <1>4, <1>5 DEF Byte

\* A line up, a line down.
LEMMA AboveIs ==
    ASSUME TextIInv, Editing, NEW p, IsPlace(p)
    PROVE  SeekUpOneLine(p) = IF code THEN Editor!Above(p) ELSE p
<1>1. PICK s : s = Editor!LineStart(p)
    OBVIOUS
<1>2. p \in Nat /\ p <= Length(szText) /\ s \in Nat /\ s <= p /\ Column(p) = p - s
    BY <1>1, LineStartIs DEF IsPlace
<1>3. CASE s = 0
    BY <1>1, <1>2, <1>3 DEF SeekUpOneLine, Editor!Above
<1>4. CASE s # 0
    <2>1. PICK h \in Nat : h = s - 1
        <3>1. s - 1 \in Nat
            BY <1>2, <1>4
        <3>. QED BY <3>1
    <2>2. IsPlace(h)
        <3>1. Length(szText) \in Nat
            BY EditingFacts, PlacesAre
        <3>. QED BY <1>2, <2>1, <3>1 DEF IsPlace
    <2>3. PICK r \in Nat : r = Editor!LineStart(h) /\ r <= h /\ Column(h) = h - r
        BY <2>2, LineStartIs
    <2>4. p - Column(p) - 1 = h /\ Column(p) # p
        BY <1>2, <1>4, <2>1
    <2>5. PICK x \in Int : x = Column(h) - Column(p) /\ x = h - r - (p - s)
        BY <1>2, <2>3
    <2>6. SeekUpOneLine(p) = h - (IF x >= 0 THEN x ELSE 0)
        <3>1. Max({0, x}) = IF x >= 0 THEN x ELSE 0
            BY MaxWithZero
        <3>. QED BY <2>4, <2>5, <3>1 DEF SeekUpOneLine
    <2>7. code
        <3>1. CASE ~code
            <4>1. Column(p) = p
                BY <3>1 DEF Column
            <4>. QED BY <2>4, <4>1
        <3>. QED BY <3>1
    <2>8. PICK y \in Nat : y = r + p - s
        <3>1. r + p - s \in Nat
            BY <1>2, <2>3
        <3>. QED BY <3>1
    <2>9. Editor!Above(p) = Min({h, y})
        BY <1>1, <1>4, <2>1, <2>3, <2>8 DEF Editor!Above, Editor!Min, Min
    <2>10. Min({h, y}) = IF h <= y THEN h ELSE y
        BY MinOfTwo
    <2>. QED BY <1>2, <2>3, <2>5, <2>6, <2>7, <2>8, <2>9, <2>10
<1>. QED BY <1>3, <1>4

LEMMA BelowIs ==
    ASSUME TextIInv, Editing, NEW p, IsPlace(p)
    PROVE  SeekDownOneLine(p) = IF code THEN Editor!Below(p) ELSE p
<1>1. CASE ~code
    BY <1>1, PlainStopIsNul DEF SeekDownOneLine
<1>2. CASE code
    <2>1. PICK m : m = Editor!LineEnd(p) /\ m = StopFrom(p) /\ Byte(m) = szText[m]
        BY <1>2, CodeStopIs
    <2>2. m \in Nat /\ m <= Length(szText) /\ (m = Length(szText) <=> szText[m] = Nul)
        BY <2>1, LineEndIs
    <2>3. Editor!Length = Length(szText) /\ Length(szText) \in Nat
        BY EditorIs, EditingFacts, PlacesAre
    <2>4. CASE m = Length(szText)
        BY <1>2, <2>1, <2>2, <2>3, <2>4 DEF SeekDownOneLine, Editor!Below
    <2>5. CASE m # Length(szText)
        <3>1. IsPlace(m + 1)
            BY <2>2, <2>3, <2>5 DEF IsPlace
        <3>2. StopFrom(m + 1) = Editor!LineEnd(m + 1)
            BY <1>2, <3>1, CodeStopIs
        <3>3. m + 1 + Column(p) = m + 1 + p - Editor!LineStart(p)
            <4>1. Column(p) = p - Editor!LineStart(p) /\ Editor!LineStart(p) \in Nat /\ p \in Nat
                BY LineStartIs DEF IsPlace
            <4>. QED BY <2>2, <4>1
        <3>4. PICK a, z : a = StopFrom(m + 1) /\ z = m + 1 + Column(p)
            OBVIOUS
        <3>5. SeekDownOneLine(p) = Min({a, z})
            BY <2>1, <2>2, <2>5, <3>4 DEF SeekDownOneLine
        <3>6. Editor!Below(p) = Min({a, z})
            BY <2>1, <2>3, <2>5, <3>2, <3>3, <3>4 DEF Editor!Below, Editor!Min, Min
        <3>. QED BY <1>2, <3>5, <3>6
    <2>. QED BY <2>4, <2>5
<1>. QED BY <1>1, <1>2

-----------------------------------------------------------------------------
(***************************************************************************)
(* What moving means: where each key goes.                                 *)
(***************************************************************************)
LEMMA MoveMeans ==
    ASSUME TextIInv, Editing, NEW p, NEW shift, Move(p, shift)
    PROVE  Editor!Moves(p, shift)
<1>1. Text(szText)' = Text(szText) /\ UNCHANGED bOvertypeMode
    BY DEF Move
<1>2. /\ nCursorPos' = p
      /\ nSelAnchorPos' = IF ~shift THEN Editor!None ELSE IF nSelAnchorPos = Editor!None THEN nCursorPos
                          ELSE nSelAnchorPos
    BY EditorIs DEF Move
<1>. QED BY <1>1, <1>2 DEF Editor!Moves

LEMMA LeftMeans ==
    ASSUME TextIInv, Editing, NEW n \in Repeats
    PROVE  Repeated(Left, n) = Editor!Left(n)
<1>1. PICK g : Runs(g, n) /\ Repeated(Left, n) = g[n] /\ \A k \in 1 .. n : g[k] = Left(g[k - 1])
    BY LeftRepeats
<1>2. PICK c \in Nat : c = nCursorPos /\ n \in Nat
    BY RepeatFacts, EditingFacts, PlacesAre
<1>3. PICK T : T = [k \in 0 .. n |-> {IF c >= k THEN c - k ELSE 0}]
    OBVIOUS
<1>4. \A k \in 0 .. n : T[k] = {IF c >= k THEN c - k ELSE 0}
    BY <1>3
<1>5. g[0] \in T[0]
    BY <1>1, <1>2, <1>4 DEF Runs
<1>6. ASSUME NEW k \in 1 .. n, g[k - 1] \in T[k - 1] PROVE g[k] \in T[k]
    <2>1. k - 1 \in 0 .. n /\ k \in 0 .. n /\ k \in Nat
        BY <1>2
    <2>2. PICK p : p = g[k - 1]
        OBVIOUS
    <2>3. p = IF c >= k - 1 THEN c - (k - 1) ELSE 0
        BY <1>4, <1>6, <2>1, <2>2
    <2>4. p \in Nat /\ p - 1 \in Int
        BY <2>1, <2>3
    <2>5. Left(p) = IF p - 1 >= 0 THEN p - 1 ELSE 0
        BY <2>4, MaxWithZero DEF Left
    <2>6. g[k] = IF c >= k THEN c - k ELSE 0
        <3>1. g[k] = Left(p)
            BY <1>1, <2>2
        <3>. QED BY <2>1, <2>3, <2>5, <3>1
    <2>. QED BY <1>4, <2>1, <2>6
<1>7. g[n] \in T[n]
    BY <1>2, <1>5, <1>6, LoopKeeps
<1>8. g[n] = IF c >= n THEN c - n ELSE 0
    BY <1>2, <1>4, <1>7
<1>9. Max({0, c - n}) = IF c - n >= 0 THEN c - n ELSE 0
    <2>1. c - n \in Int
        BY <1>2
    <2>. QED BY <2>1, MaxWithZero
<1>10. Editor!Left(n) = Max({0, c - n})
    BY <1>2 DEF Editor!Left, Editor!Max, Max
<1>. QED BY <1>1, <1>2, <1>8, <1>9, <1>10

LEMMA RightMeans ==
    ASSUME TextIInv, Editing, NEW n \in Repeats
    PROVE  Repeated(Right, n) = Editor!Right(n)
<1>1. PICK g : Runs(g, n) /\ Repeated(Right, n) = g[n] /\ \A k \in 1 .. n : g[k] = Right(g[k - 1])
    BY RightRepeats
<1>2. PICK c \in Nat, l \in Nat : c = nCursorPos /\ l = Length(szText) /\ c <= l /\ n \in Nat
    BY RepeatFacts, EditingFacts, PlacesAre
<1>3. PICK T : T = [k \in 0 .. n |-> {IF l <= c + k THEN l ELSE c + k}]
    OBVIOUS
<1>4. \A k \in 0 .. n : T[k] = {IF l <= c + k THEN l ELSE c + k}
    BY <1>3
<1>5. g[0] \in T[0]
    BY <1>1, <1>2, <1>4 DEF Runs
<1>6. ASSUME NEW k \in 1 .. n, g[k - 1] \in T[k - 1] PROVE g[k] \in T[k]
    <2>1. k - 1 \in 0 .. n /\ k \in 0 .. n /\ k \in Nat
        BY <1>2
    <2>2. PICK p : p = g[k - 1]
        OBVIOUS
    <2>3. p = IF l <= c + (k - 1) THEN l ELSE c + (k - 1)
        BY <1>4, <1>6, <2>1, <2>2
    <2>4. Right(p) = IF p < l THEN p + 1 ELSE p
        BY <1>2 DEF Right
    <2>5. g[k] = IF l <= c + k THEN l ELSE c + k
        <3>1. g[k] = Right(p)
            BY <1>1, <2>2
        <3>. QED BY <1>2, <2>1, <2>3, <2>4, <3>1
    <2>. QED BY <1>4, <2>1, <2>5
<1>7. g[n] \in T[n]
    BY <1>2, <1>5, <1>6, LoopKeeps
<1>8. g[n] = IF l <= c + n THEN l ELSE c + n
    BY <1>2, <1>4, <1>7
<1>9. PICK z \in Nat : z = c + n
    BY <1>2
<1>10. Min({l, z}) = IF l <= z THEN l ELSE z
    BY MinOfTwo
<1>11. Editor!Right(n) = Min({l, z})
    BY <1>2, <1>9, EditorIs DEF Editor!Right, Editor!Min, Min
<1>. QED BY <1>1, <1>8, <1>9, <1>10, <1>11

LEMMA UpMeans ==
    ASSUME TextIInv, Editing, NEW n \in Repeats
    PROVE  Repeated(SeekUpOneLine, n) = IF code THEN Editor!Up(n) ELSE nCursorPos
<1>1. PICK g : /\ Runs(g, n) /\ Repeated(SeekUpOneLine, n) = g[n]
               /\ \A k \in 1 .. n : g[k] = SeekUpOneLine(g[k - 1])
    BY UpRepeats
<1>2. n \in Nat /\ (\A p : p \in Here <=> IsPlace(p)) /\ \A k \in 1 .. n : k \in 0 .. n /\ k - 1 \in 0 .. n
    BY RepeatFacts
<1>3. g[0] = nCursorPos /\ \A k \in 0 .. n : IsPlace(g[k])
    BY <1>1, <1>2 DEF Runs
<1>4. CASE ~code
    <2>1. \A k \in 1 .. n : g[k - 1] \in {nCursorPos} => g[k] \in {nCursorPos}
        BY <1>1, <1>2, <1>3, <1>4, AboveIs
    <2>2. g[n] \in {nCursorPos}
        <3>1. g[0] \in {nCursorPos}
            BY <1>3
        <3>. QED BY <1>2, <2>1, <3>1, LoopIsIn
    <2>. QED BY <1>1, <1>4, <2>2
<1>5. CASE code
    <2>1. \A k \in 1 .. n : g[k] = Editor!Above(g[k - 1])
        BY <1>1, <1>2, <1>3, <1>5, AboveIs
    <2>2. PICK f : f = [k \in 0 .. n |-> g[k]]
        OBVIOUS
    <2>3. f = [k \in 0 .. n |-> IF k = 0 THEN nCursorPos ELSE Editor!Above(f[k - 1])]
        <3>1. \A k \in 0 .. n : k # 0 => k \in 1 .. n /\ k - 1 \in 0 .. n
            BY <1>2
        <3>2. \A k \in 0 .. n : g[k] = IF k = 0 THEN nCursorPos ELSE Editor!Above(f[k - 1])
            BY <1>3, <2>1, <2>2, <3>1
        <3>. QED BY <2>2, <3>2
    <2>4. PICK h : /\ h = [k \in 0 .. n |-> IF k = 0 THEN nCursorPos ELSE Editor!Above(h[k - 1])]
                   /\ Editor!Up(n) = h[n]
        BY <2>3 DEF Editor!Up, Editor!Times
    <2>5. PICK T : T = [k \in 0 .. n |-> {g[k]}]
        OBVIOUS
    <2>6. h[n] \in T[n]
        <3>1. h[0] \in T[0]
            BY <1>2, <1>3, <2>4, <2>5
        <3>2. ASSUME NEW k \in 1 .. n, h[k - 1] \in T[k - 1] PROVE h[k] \in T[k]
            <4>1. k \in 0 .. n /\ k - 1 \in 0 .. n /\ k # 0
                BY <1>2
            <4>2. h[k] = Editor!Above(h[k - 1])
                BY <2>4, <4>1
            <4>3. h[k - 1] = g[k - 1] /\ T[k] = {g[k]}
                BY <2>5, <3>2, <4>1
            <4>. QED BY <2>1, <4>2, <4>3
        <3>. QED BY <1>2, <3>1, <3>2, LoopKeeps
    <2>7. h[n] = g[n]
        BY <1>2, <2>5, <2>6
    <2>. QED BY <1>1, <1>5, <2>4, <2>7
<1>. QED BY <1>4, <1>5

LEMMA DownMeans ==
    ASSUME TextIInv, Editing, NEW n \in Repeats
    PROVE  Repeated(SeekDownOneLine, n) = IF code THEN Editor!Down(n) ELSE nCursorPos
<1>1. PICK g : /\ Runs(g, n) /\ Repeated(SeekDownOneLine, n) = g[n]
               /\ \A k \in 1 .. n : g[k] = SeekDownOneLine(g[k - 1])
    BY DownRepeats
<1>2. n \in Nat /\ (\A p : p \in Here <=> IsPlace(p)) /\ \A k \in 1 .. n : k \in 0 .. n /\ k - 1 \in 0 .. n
    BY RepeatFacts
<1>3. g[0] = nCursorPos /\ \A k \in 0 .. n : IsPlace(g[k])
    BY <1>1, <1>2 DEF Runs
<1>4. CASE ~code
    <2>1. \A k \in 1 .. n : g[k - 1] \in {nCursorPos} => g[k] \in {nCursorPos}
        BY <1>1, <1>2, <1>3, <1>4, BelowIs
    <2>2. g[n] \in {nCursorPos}
        <3>1. g[0] \in {nCursorPos}
            BY <1>3
        <3>. QED BY <1>2, <2>1, <3>1, LoopIsIn
    <2>. QED BY <1>1, <1>4, <2>2
<1>5. CASE code
    <2>1. \A k \in 1 .. n : g[k] = Editor!Below(g[k - 1])
        BY <1>1, <1>2, <1>3, <1>5, BelowIs
    <2>2. PICK f : f = [k \in 0 .. n |-> g[k]]
        OBVIOUS
    <2>3. f = [k \in 0 .. n |-> IF k = 0 THEN nCursorPos ELSE Editor!Below(f[k - 1])]
        <3>1. \A k \in 0 .. n : k # 0 => k \in 1 .. n /\ k - 1 \in 0 .. n
            BY <1>2
        <3>2. \A k \in 0 .. n : g[k] = IF k = 0 THEN nCursorPos ELSE Editor!Below(f[k - 1])
            BY <1>3, <2>1, <2>2, <3>1
        <3>. QED BY <2>2, <3>2
    <2>4. PICK h : /\ h = [k \in 0 .. n |-> IF k = 0 THEN nCursorPos ELSE Editor!Below(h[k - 1])]
                   /\ Editor!Down(n) = h[n]
        BY <2>3 DEF Editor!Down, Editor!Times
    <2>5. PICK T : T = [k \in 0 .. n |-> {g[k]}]
        OBVIOUS
    <2>6. h[n] \in T[n]
        <3>1. h[0] \in T[0]
            BY <1>2, <1>3, <2>4, <2>5
        <3>2. ASSUME NEW k \in 1 .. n, h[k - 1] \in T[k - 1] PROVE h[k] \in T[k]
            <4>1. k \in 0 .. n /\ k - 1 \in 0 .. n /\ k # 0
                BY <1>2
            <4>2. h[k] = Editor!Below(h[k - 1])
                BY <2>4, <4>1
            <4>3. h[k - 1] = g[k - 1] /\ T[k] = {g[k]}
                BY <2>5, <3>2, <4>1
            <4>. QED BY <2>1, <4>2, <4>3
        <3>. QED BY <1>2, <3>1, <3>2, LoopKeeps
    <2>7. h[n] = g[n]
        BY <1>2, <2>5, <2>6
    <2>. QED BY <1>1, <1>5, <2>4, <2>7
<1>. QED BY <1>4, <1>5

LEMMA EndMeans ==
    ASSUME TextIInv, Editing
    PROVE  nCursorPos + LineLength(nCursorPos) - Column(nCursorPos) = Editor!LineEnd(nCursorPos)
<1>1. PICK p \in Nat, l \in Nat : /\ p = nCursorPos /\ IsPlace(p) /\ l = Length(szText) /\ p <= l
                                  /\ l < Size /\ Size \in Nat /\ \A i \in 0 .. l - 1 : szText[i] # Nul
    BY EditingFacts, PlacesAre DEF IsPlace
<1>2. PICK s \in Nat : /\ s = Editor!LineStart(p) /\ s <= p /\ Column(p) = p - s
                       /\ \A q \in 1 .. p : szText[q - 1] = LF => q <= s
    BY <1>1, LineStartIs
<1>3. PICK T : T = {q \in p .. Size - 1 : szText[q] \in {Nul, LF}}
    OBVIOUS
<1>4. {q \in s .. Size - 1 : szText[q] \in {Nul, LF}} = T
    <2>1. ASSUME NEW q \in s .. p - 1 PROVE szText[q] \notin {Nul, LF}
        <3>1. q \in 0 .. l - 1 /\ q + 1 \in 1 .. p /\ q + 1 - 1 = q /\ ~(q + 1 <= s)
            BY <1>1, <1>2
        <3>. QED BY <1>1, <1>2, <3>1
    <2>2. \A q \in s .. Size - 1 : q \in s .. p - 1 \/ q \in p .. Size - 1
        BY <1>1, <1>2
    <2>3. \A q \in p .. Size - 1 : q \in s .. Size - 1
        BY <1>1, <1>2
    <2>. QED BY <1>3, <2>1, <2>2, <2>3
<1>5. PICK m \in Nat : m = Editor!LineEnd(p) /\ m = Min(T)
    BY <1>1, <1>3, LineEndIs
<1>6. p - Column(p) = s
    BY <1>2
<1>7. LineLength(p) = m - s
    BY <1>4, <1>5, <1>6 DEF LineLength
<1>8. p + LineLength(p) - Column(p) = m
    BY <1>2, <1>7
<1>. QED BY <1>1, <1>5, <1>8

LEMMA HomeMeans ==
    ASSUME TextIInv, Editing
    PROVE  nCursorPos - Column(nCursorPos) = Editor!LineStart(nCursorPos)
<1>1. PICK p \in Nat : p = nCursorPos /\ IsPlace(p)
    BY EditingFacts, PlacesAre DEF IsPlace
<1>2. Editor!LineStart(p) \in Nat /\ Column(p) = p - Editor!LineStart(p)
    BY <1>1, LineStartIs
<1>. QED BY <1>1, <1>2

\* Back over what is between words, and then over the word.
LEMMA WordLeftMeans ==
    ASSUME TextIInv, Editing
    PROVE  SeekLeftWord(nCursorPos) = Editor!WordLeft
<1>1. PICK l \in Nat, t \in Seq(Chars) :
             /\ l = Length(szText) /\ l < Size /\ Size \in Nat /\ szText[l] = Nul
             /\ t = Text(szText) /\ Len(t) = l /\ Editor!Length = l
             /\ \A i \in 1 .. l : t[i] = szText[i - 1] /\ szText[i - 1] # Nul
             /\ code \/ \A i \in 1 .. l : szText[i - 1] # LF
    BY LineFacts
<1>2. PICK p \in Nat : p = nCursorPos /\ p <= l
    BY <1>1, EditingFacts, PlacesAre
<1>3. \A r \in 1 .. p : Alphanumeric(r) <=> t[r] \in Alnum
    BY <1>1, <1>2 DEF Alphanumeric
<1>4. PICK S : S = {q \in 0 .. p : \A r \in q + 1 .. p : ~Alphanumeric(r)}
    OBVIOUS
<1>5. S \in SUBSET Nat /\ p \in S
    BY <1>2, <1>4
<1>6. PICK gap \in Nat : gap = Min(S) /\ gap \in S /\ gap <= p /\ \A k \in S : gap <= k
    <2>1. Min(S) \in S /\ \A k \in S : Min(S) <= k
        BY <1>5, MinIs
    <2>. QED BY <1>2, <1>5, <2>1
<1>7. PICK T : T = {q \in 0 .. gap : \A r \in q + 1 .. gap : Alphanumeric(r)}
    OBVIOUS
<1>8. T \in SUBSET Nat /\ gap \in T
    BY <1>6, <1>7
<1>9. PICK m \in Nat : m = Min(T) /\ m \in T /\ m <= gap /\ \A k \in T : m <= k
    <2>1. Min(T) \in T /\ \A k \in T : Min(T) <= k
        BY <1>8, MinIs
    <2>. QED BY <1>6, <1>8, <2>1
<1>10. SeekLeftWord(p) = m
    BY <1>4, <1>6, <1>7, <1>9 DEF SeekLeftWord
<1>11. (\A r \in gap + 1 .. p : t[r] \notin Alnum) /\ (\A r \in m + 1 .. gap : t[r] \in Alnum)
    <2>1. \A r \in gap + 1 .. p : ~Alphanumeric(r) /\ r \in 1 .. p
        BY <1>4, <1>6
    <2>2. \A r \in m + 1 .. gap : Alphanumeric(r) /\ r \in 1 .. p
        BY <1>2, <1>6, <1>7, <1>9
    <2>. QED BY <1>3, <2>1, <2>2
<1>12. ASSUME gap # 0 PROVE m < gap
    <2>1. t[gap] \in Alnum
        <3>. SUFFICES ASSUME t[gap] \notin Alnum PROVE FALSE
            OBVIOUS
        <3>1. gap - 1 \in 0 .. p /\ \A r \in (gap - 1) + 1 .. p : r = gap \/ r \in gap + 1 .. p
            BY <1>2, <1>6, <1>12
        <3>2. \A r \in (gap - 1) + 1 .. p : r \in 1 .. p /\ ~Alphanumeric(r)
            BY <1>2, <1>3, <1>6, <1>11, <1>12, <3>1
        <3>3. gap - 1 \in S
            BY <1>4, <3>1, <3>2
        <3>. QED BY <1>6, <3>3
    <2>2. gap - 1 \in 0 .. gap /\ \A r \in (gap - 1) + 1 .. gap : r = gap /\ r \in 1 .. p
        BY <1>2, <1>6, <1>12
    <2>3. gap - 1 \in T
        BY <1>3, <1>7, <2>1, <2>2
    <2>. QED BY <1>6, <1>9, <2>3
<1>13. ASSUME m # 0 PROVE t[m] \notin Alnum
    <2>. SUFFICES ASSUME t[m] \in Alnum PROVE FALSE
        OBVIOUS
    <2>1. m - 1 \in 0 .. gap /\ \A r \in (m - 1) + 1 .. gap : r \in 1 .. p /\ (r = m \/ r \in m + 1 .. gap)
        BY <1>2, <1>6, <1>9, <1>13
    <2>2. \A r \in (m - 1) + 1 .. gap : Alphanumeric(r)
        BY <1>3, <1>11, <2>1
    <2>3. m - 1 \in T
        BY <1>7, <2>1, <2>2
    <2>. QED BY <1>9, <2>3
<1>14. PICK W : W = {0} \cup {q \in 1 .. p - 1 : t[q] \notin Alnum /\ t[q + 1] \in Alnum}
    OBVIOUS
<1>15. Editor!WordLeft = Max(W)
    BY <1>1, <1>2, <1>14 DEF Editor!WordLeft, Editor!WordStart, Editor!Max, Max
<1>16. W \in SUBSET Nat /\ m \in W
    <2>1. m # 0 => m \in 1 .. p - 1 /\ m + 1 \in m + 1 .. gap
        BY <1>2, <1>6, <1>9, <1>12
    <2>2. m # 0 => t[m] \notin Alnum /\ t[m + 1] \in Alnum
        BY <1>11, <1>13, <2>1
    <2>. QED BY <1>2, <1>14, <2>1, <2>2
<1>17. ASSUME NEW q \in W PROVE q <= m
    <2>. SUFFICES ASSUME q > m PROVE FALSE
        BY <1>16
    <2>1. q \in 1 .. p - 1 /\ t[q] \notin Alnum /\ t[q + 1] \in Alnum
        BY <1>9, <1>14
    <2>2. q \notin m + 1 .. gap /\ q + 1 \notin gap + 1 .. p
        BY <1>11, <2>1
    <2>. QED BY <1>2, <1>6, <1>9, <2>1, <2>2
<1>18. Max(W) = m
    <2>1. Max(W) \in W /\ \A k \in W : Max(W) >= k
        BY <1>16, <1>17, MaxIs
    <2>2. Max(W) \in Nat /\ Max(W) <= m /\ m <= Max(W)
        BY <1>16, <1>17, <2>1
    <2>. QED BY <2>2
<1>. QED BY <1>2, <1>10, <1>15, <1>18

\* On over the word, and then over what is between words.
LEMMA WordRightMeans ==
    ASSUME TextIInv, Editing
    PROVE  SeekRightWord(nCursorPos) = Editor!WordRight
<1>1. PICK l \in Nat, t \in Seq(Chars) :
             /\ l = Length(szText) /\ l < Size /\ Size \in Nat /\ szText[l] = Nul
             /\ t = Text(szText) /\ Len(t) = l /\ Editor!Length = l
             /\ \A i \in 1 .. l : t[i] = szText[i - 1] /\ szText[i - 1] # Nul
             /\ code \/ \A i \in 1 .. l : szText[i - 1] # LF
    BY LineFacts
<1>2. PICK p \in Nat : p = nCursorPos /\ p <= l
    BY <1>1, EditingFacts, PlacesAre
<1>3. \A r \in 1 .. l : Alphanumeric(r) <=> t[r] \in Alnum
    BY <1>1 DEF Alphanumeric
<1>4. PICK S : S = {q \in p .. l : \A r \in p + 1 .. q : Alphanumeric(r)}
    OBVIOUS
<1>5. S \in SUBSET Nat /\ p \in S /\ \A k \in S : k <= l
    BY <1>1, <1>2, <1>4
<1>6. PICK end \in Nat : end = Max(S) /\ end \in S /\ p <= end /\ end <= l /\ \A k \in S : k <= end
    <2>1. Max(S) \in S /\ \A k \in S : Max(S) >= k
        BY <1>5, MaxIs
    <2>2. Max(S) \in Nat /\ p <= Max(S) /\ Max(S) <= l /\ \A k \in S : k <= Max(S)
        BY <1>5, <2>1
    <2>. QED BY <2>1, <2>2
<1>7. PICK T : T = {q \in end .. l : \A r \in end + 1 .. q : ~Alphanumeric(r)}
    OBVIOUS
<1>8. T \in SUBSET Nat /\ end \in T /\ \A k \in T : k <= l
    BY <1>6, <1>7
<1>9. PICK m \in Nat : m = Max(T) /\ m \in T /\ end <= m /\ m <= l /\ \A k \in T : k <= m
    <2>1. Max(T) \in T /\ \A k \in T : Max(T) >= k
        BY <1>8, MaxIs
    <2>2. Max(T) \in Nat /\ end <= Max(T) /\ Max(T) <= l /\ \A k \in T : k <= Max(T)
        BY <1>8, <2>1
    <2>. QED BY <2>1, <2>2
<1>10. SeekRightWord(p) = m
    BY <1>1, <1>4, <1>6, <1>7, <1>9 DEF SeekRightWord
<1>11. (\A r \in p + 1 .. end : t[r] \in Alnum) /\ (\A r \in end + 1 .. m : t[r] \notin Alnum)
    <2>1. \A r \in p + 1 .. end : Alphanumeric(r) /\ r \in 1 .. l
        BY <1>2, <1>4, <1>6
    <2>2. \A r \in end + 1 .. m : ~Alphanumeric(r) /\ r \in 1 .. l
        BY <1>6, <1>7, <1>9
    <2>. QED BY <1>3, <2>1, <2>2
<1>12. ASSUME end # l PROVE end < m
    <2>0. end + 1 \in 1 .. l /\ end + 1 \in p .. l
        BY <1>2, <1>6, <1>12
    <2>1. t[end + 1] \notin Alnum
        <3>. SUFFICES ASSUME t[end + 1] \in Alnum PROVE FALSE
            OBVIOUS
        <3>1. \A r \in p + 1 .. end + 1 : r \in 1 .. l /\ (r = end + 1 \/ r \in p + 1 .. end)
            BY <1>2, <1>6, <1>12
        <3>2. \A r \in p + 1 .. end + 1 : Alphanumeric(r)
            BY <1>3, <1>11, <3>1
        <3>3. end + 1 \in S
            BY <1>4, <2>0, <3>2
        <3>. QED BY <1>6, <3>3
    <2>2. end + 1 \in end .. l /\ \A r \in end + 1 .. end + 1 : r = end + 1
        BY <1>6, <1>12
    <2>3. end + 1 \in T
        BY <1>3, <1>7, <2>0, <2>1, <2>2
    <2>. QED BY <1>6, <1>9, <2>3
<1>13. ASSUME m # l PROVE t[m + 1] \in Alnum
    <2>. SUFFICES ASSUME t[m + 1] \notin Alnum PROVE FALSE
        OBVIOUS
    <2>1. m + 1 \in end .. l /\ \A r \in end + 1 .. m + 1 : r \in 1 .. l /\ (r = m + 1 \/ r \in end + 1 .. m)
        BY <1>6, <1>9, <1>13
    <2>2. \A r \in end + 1 .. m + 1 : ~Alphanumeric(r)
        BY <1>3, <1>11, <2>1
    <2>3. m + 1 \in T
        BY <1>7, <2>1, <2>2
    <2>. QED BY <1>9, <2>3
<1>14. PICK W : W = {l} \cup {q \in p + 1 .. l - 1 : t[q] \notin Alnum /\ t[q + 1] \in Alnum}
    OBVIOUS
<1>15. Editor!WordRight = Min(W)
    BY <1>1, <1>2, <1>14 DEF Editor!WordRight, Editor!WordStart, Editor!Min, Min
<1>16. W \in SUBSET Nat /\ m \in W
    <2>1. m # l => m \in p + 1 .. l - 1 /\ m \in end + 1 .. m
        BY <1>2, <1>6, <1>9, <1>12
    <2>2. m # l => t[m] \notin Alnum /\ t[m + 1] \in Alnum
        BY <1>11, <1>13, <2>1
    <2>. QED BY <1>2, <1>14, <2>1, <2>2
<1>17. ASSUME NEW q \in W PROVE m <= q
    <2>. SUFFICES ASSUME q < m PROVE FALSE
        BY <1>16
    <2>1. q \in p + 1 .. l - 1 /\ t[q] \notin Alnum /\ t[q + 1] \in Alnum
        BY <1>9, <1>14
    <2>2. q \notin p + 1 .. end /\ q + 1 \notin end + 1 .. m
        BY <1>11, <2>1
    <2>. QED BY <1>2, <1>6, <1>9, <2>1, <2>2
<1>18. Min(W) = m
    <2>1. Min(W) \in W /\ \A k \in W : Min(W) <= k
        BY <1>16, MinIs
    <2>2. Min(W) \in Nat /\ Min(W) <= m /\ m <= Min(W)
        BY <1>16, <1>17, <2>1
    <2>. QED BY <2>2
<1>. QED BY <1>2, <1>10, <1>15, <1>18

-----------------------------------------------------------------------------
LEMMA KeyMeans ==
    ASSUME TextIInv
    PROVE  KeyDoesAsMeant
<1>. SUFFICES ASSUME Editing
              PROVE  /\ \A c \in Alnum \cup Other, n \in Repeats :
                          Type(c, n) => Resurrects(n) \/ Editor!Types(c, n)
                     /\ \A clip \in Clips : Paste(clip) => Overlong \/ Editor!Pastes(clip)
                     /\ ReturnKey => Editor!Breaks
                     /\ CutKey => Same \/ Editor!Cuts
                     /\ \A n \in Repeats :
                          (BackKey(n) => Editor!Backspaces(n)) /\ (DeleteKey(n) => Editor!Deletes(n))
                     /\ \A n \in Repeats, shift \in BOOLEAN :
                          /\ MoveLeft(n, shift) => Editor!Moves(Editor!Left(n), shift)
                          /\ MoveRight(n, shift) => Editor!Moves(Editor!Right(n), shift)
                          /\ MoveUp(n, shift) => Editor!Moves(IF code THEN Editor!Up(n) ELSE nCursorPos, shift)
                          /\ MoveDown(n, shift) => Editor!Moves(IF code THEN Editor!Down(n) ELSE nCursorPos, shift)
                     /\ \A shift \in BOOLEAN :
                          /\ MoveHome(shift) => Editor!Moves(Editor!LineStart(nCursorPos), shift)
                          /\ MoveEnd(shift) => Editor!Moves(Editor!LineEnd(nCursorPos), shift)
                          /\ MoveLeftWord(shift) => Editor!Moves(Editor!WordLeft, shift)
                          /\ MoveRightWord(shift) => Editor!Moves(Editor!WordRight, shift)
                          /\ MoveFirst(shift) => Editor!Moves(0, shift)
                          /\ MoveLast(shift) => Editor!Moves(Editor!Length, shift)
    BY DEF KeyDoesAsMeant
<1>1. \A c \in Alnum \cup Other, n \in Repeats : Type(c, n) => Resurrects(n) \/ Editor!Types(c, n)
    BY TypeMeans
<1>2. \A clip \in Clips : Paste(clip) => Overlong \/ Editor!Pastes(clip)
    BY PasteMeans
<1>3. ReturnKey => Editor!Breaks
    BY ReturnMeans
<1>4. CutKey => Same \/ Editor!Cuts
    BY CutMeans DEF CutKey
<1>5. \A n \in Repeats : (BackKey(n) => Editor!Backspaces(n)) /\ (DeleteKey(n) => Editor!Deletes(n))
    BY BackMeans, DeleteMeans
<1>6. ASSUME NEW n \in Repeats, NEW shift \in BOOLEAN
      PROVE  /\ MoveLeft(n, shift) => Editor!Moves(Editor!Left(n), shift)
             /\ MoveRight(n, shift) => Editor!Moves(Editor!Right(n), shift)
             /\ MoveUp(n, shift) => Editor!Moves(IF code THEN Editor!Up(n) ELSE nCursorPos, shift)
             /\ MoveDown(n, shift) => Editor!Moves(IF code THEN Editor!Down(n) ELSE nCursorPos, shift)
    <2>1. MoveLeft(n, shift) => Editor!Moves(Editor!Left(n), shift)
        BY MoveMeans, LeftMeans DEF MoveLeft
    <2>2. MoveRight(n, shift) => Editor!Moves(Editor!Right(n), shift)
        BY MoveMeans, RightMeans DEF MoveRight
    <2>3. MoveUp(n, shift) => Editor!Moves(IF code THEN Editor!Up(n) ELSE nCursorPos, shift)
        BY MoveMeans, UpMeans DEF MoveUp
    <2>4. MoveDown(n, shift) => Editor!Moves(IF code THEN Editor!Down(n) ELSE nCursorPos, shift)
        BY MoveMeans, DownMeans DEF MoveDown
    <2>. QED BY <2>1, <2>2, <2>3, <2>4
<1>7. ASSUME NEW shift \in BOOLEAN
      PROVE  /\ MoveHome(shift) => Editor!Moves(Editor!LineStart(nCursorPos), shift)
             /\ MoveEnd(shift) => Editor!Moves(Editor!LineEnd(nCursorPos), shift)
             /\ MoveLeftWord(shift) => Editor!Moves(Editor!WordLeft, shift)
             /\ MoveRightWord(shift) => Editor!Moves(Editor!WordRight, shift)
             /\ MoveFirst(shift) => Editor!Moves(0, shift)
             /\ MoveLast(shift) => Editor!Moves(Editor!Length, shift)
    <2>1. MoveHome(shift) => Editor!Moves(Editor!LineStart(nCursorPos), shift)
        BY MoveMeans, HomeMeans DEF MoveHome
    <2>2. MoveEnd(shift) => Editor!Moves(Editor!LineEnd(nCursorPos), shift)
        BY MoveMeans, EndMeans DEF MoveEnd
    <2>3. MoveLeftWord(shift) => Editor!Moves(Editor!WordLeft, shift)
        BY MoveMeans, WordLeftMeans DEF MoveLeftWord
    <2>4. MoveRightWord(shift) => Editor!Moves(Editor!WordRight, shift)
        BY MoveMeans, WordRightMeans DEF MoveRightWord
    <2>5. MoveFirst(shift) => Editor!Moves(0, shift)
        BY MoveMeans DEF MoveFirst
    <2>6. MoveLast(shift) => Editor!Moves(Editor!Length, shift)
        BY MoveMeans, EditorIs DEF MoveLast
    <2>. QED BY <2>1, <2>2, <2>3, <2>4, <2>5, <2>6
<1>. QED BY <1>1, <1>2, <1>3, <1>4, <1>5, <1>6, <1>7

\* Every key of the entry box does to the buffer of C what the editor says it means to the
\* text: what is typed, pasted, cut and deleted is what is there and nowhere else, and the
\* cursor goes to the line, the word or the end that was asked for (the cases of WM_CHAR and
\* WM_KEYDOWN and the WaitString functions).
THEOREM KeysMean == TextSpec => KeysDoAsMeant
<1>1. TextSpec => []TextIInv
    BY TextInvariants
<1>2. TextIInv /\ [TextNext]_textVars => [KeyDoesAsMeant]_textVars
    BY KeyMeans
<1>. QED BY <1>1, <1>2, PTL DEF TextSpec, KeysDoAsMeant

-----------------------------------------------------------------------------
USE DirsAssumption, DefaultAssumption, BurstAssumption, PageAssumption

(***************************************************************************)
(* The threads.  An unforced scan is only begun for a list that is not     *)
(* ready, and only a call that is forced changes the directory.            *)
(***************************************************************************)
AtRest == {"idle", "frame", "drawing", "painting", "closing"}
InCall == {"waiting", "looking"}
Starting == {"enter", "begin"}
Listing == {"reading", "publish", "finish", "sorting"}

ThreadInv ==
    /\ alive <=> scan.at # "gone"
    /\ window = "spawn" => ~alive
    /\ quit => window \in {"cancelling", "closing", "spawn"}
    /\ window \in AtRest => call = NoCall
    /\ window \in {"tried", "cancelling"} => call.force
    /\ window \in InCall /\ alive => scan.force = call.force
    /\ call.newDir # Missing => call.force
    /\ scan.at = "enter" => ~scan.retrying
    /\ scan.at \in Listing => ~ready

\* Directories do not become empty, nor fuller than they were.
HeldInv == \A d \in Dirs : held[d] <= Count[d] /\ (held[d] = 0 => Count[d] = 0)

\* What a scan that lists a directory has found and added; until it is about to be cancelled,
\* it knows how many presets there are.
FoundInv ==
    scan.at \in Listing =>
        IF scan.files = Missing THEN scan.found = 0 /\ scan.at # "publish" /\ ~scan.force
        ELSE /\ held[scan.files] > 0
             /\ list = [dir |-> scan.files, size |-> nPresets]
             /\ nPresets <= scan.found /\ scan.found <= Count[scan.files]
             /\ window # "cancelling" => scan.found <= held[scan.files]
             /\ scan.at \in {"finish", "sorting"} =>
                    scan.found > 0 /\ (window # "cancelling" => scan.found = held[scan.files])

\* A forced scan is about to replace the list.
Doomed == window \in {"tried", "cancelling"} /\ dir \in Dirs
Cut == "cut" \in lapses
Crossed == "crossed" \in lapses

\* An unforced scan that finds its directory listed already stops short only of a list that
\* was cut off, or that is about to be replaced.
UnforcedInv ==
    /\ scan.at \in Starting /\ ~scan.force =>
         IF scan.retrying THEN Cut \/ Doomed \/ (~ready /\ mask # Default)
         ELSE ~ready /\ (Cut \/ mask = Missing)
    /\ scan.at \in Listing /\ scan.files = Missing => Cut \/ Doomed
    /\ window = "spawn" /\ ~call.force => ~ready /\ (Cut \/ mask = Missing)

RetryInv ==
    scan.at = "begin" /\ scan.retrying =>
        nPresets = 0 /\ (Valid(dir) = Default \/ Doomed)

\* Without a scan, the list is ready or was cut off.
EndedInv ==
    ~ready /\ ~alive /\ (window \in (AtRest \ {"closing"}) \cup InCall
                         \/ (window = "tried" /\ dir \notin Dirs)) => Cut

\* The directory that will be set when the window is idle.
Aim == IF call.newDir = Missing THEN dir ELSE call.newDir

\* The scan is for that directory, unless that is empty and the default one is tried.
AimInv ==
    /\ call.newDir \in Dirs =>
         /\ window \in {"tried", "cancelling", "spawn"} => dir = call.newDir \/ Crossed
         /\ window \in InCall /\ scan.at \in Starting =>
              IF scan.retrying THEN held[call.newDir] = 0 \/ Crossed
              ELSE dir = call.newDir \/ Crossed
    /\ window \in AtRest \cup InCall /\ scan.at \in Listing /\ scan.files # Missing /\ Aim \in Dirs
         => Aim = scan.files \/ held[Aim] = 0 \/ Cut \/ Crossed

WholeInv ==
    window \in AtRest \cup InCall /\ ready /\ ~alive /\ Aim \in Dirs
        => \/ list = [dir |-> Aim, size |-> held[Aim]] /\ nPresets = held[Aim]
           \/ held[Aim] = 0 \/ Cut \/ Crossed

\* The selection, where nothing will replace it.
SelectInv ==
    (\/ window \in (AtRest \ {"closing"}) \cup InCall
     \/ window = "closing" /\ ready
     \/ window = "tried" /\ dir \notin Dirs)
        /\ ~alive /\ nPresets > 0 /\ lapses \cap {"cut", "missed"} = {}
        => cursor \in Entries

ScanInv == TypeOK /\ IndexSafe /\ ThreadInv /\ HeldInv /\ FoundInv /\ UnforcedInv
           /\ RetryInv /\ EndedInv /\ AimInv /\ WholeInv /\ SelectInv

AskedInv ==
    /\ asked # None => ui \in {"del", "rename"} /\ cursor = asked
    /\ call.next \in {"clamp", "find"} => asked = None

MenuInv == MenuTypeOK /\ ModesAgree /\ AskedInv

-----------------------------------------------------------------------------
(***************************************************************************)
(* What the keys and the painting do to the list and its scans: they       *)
(* select, or they call UpdatePresetList or ChangePresetDir.               *)
(***************************************************************************)
Selecting ==
    /\ window' = window \/ Goes("painting", "idle")
    /\ cursor' \in -1 .. Most
    /\ cursor \in Entries => cursor' \in Entries
    /\ UNCHANGED <<listVars, threadVars, held, call, calls, orphaned, lapses>>

Refreshing(d, c) ==
    /\ Refresh(d, c)
    /\ c.force /\ c.newDir = Missing /\ c.next # "dropped"
    /\ held' \in [Dirs -> 0 .. Most]
    /\ \A e \in Dirs : held'[e] <= Count[e] /\ (held'[e] = 0 => held[e] = 0)

UserStep ==
    \/ Selecting
    \/ Open("idle") \/ Open("painting")
    \/ \E d \in Names, c \in Calls : Refreshing(d, c)
    \/ \E d \in Names, whole \in BOOLEAN, next \in {"dropped", "stay"} : ChangePresetDir(d, whole, next)
    \/ Close

SystemStep == Scan \/ Window \/ UserStep \/ UNCHANGED scanVars

\* A key leaves the list and its scans alone.
LEMMA IntoKeeps == ASSUME NEW next, NEW text, Into(next, text) PROVE UNCHANGED scanVars
    BY DEF Into

LEMMA MovesSelect ==
    ASSUME TypeOK, NEW p \in -1 .. Most, Moves(p), cursor \in Entries => p \in Entries
    PROVE  Selecting
    BY DEF Moves, Selecting, listVars, threadVars

\* What the keys ask for: one that names no directory, or leaves the caller's cursor.
LEMMA Asked ==
    ASSUME NEW force \in BOOLEAN, NEW reselect \in BOOLEAN
    PROVE  /\ UpdatePresetList(force, reselect) \in Calls
           /\ UpdatePresetList(force, reselect).force = force
           /\ UpdatePresetList(force, reselect).reselect = reselect
           /\ UpdatePresetList(force, reselect).newDir = Missing
           /\ UpdatePresetList(force, reselect).next = "stay"
    BY DEF UpdatePresetList, Calls, Names

LEMMA PaintSelects ==
    ASSUME TypeOK, Paint PROVE Selecting \/ Open("painting")
<1>1. CASE PaintList
    <2>1. CASE nPresets = 0
        BY <1>1, <2>1 DEF PaintList, Painted, Selecting, Entries, TypeOK, listVars, threadVars
    <2>2. CASE nPresets # 0
        <3>1. PICK n \in 1 .. MaxPage : cursor' \in Paged(n)
            BY <1>1, <2>2 DEF PaintList
        <3>2. /\ cursor' \in -1 .. Most
              /\ cursor \in Entries => cursor' \in Entries
            BY <3>1, <2>2 DEF Paged, AtMost, Max0, Entries, TypeOK
        <3>. QED BY <1>1, <3>2 DEF PaintList, Painted, Selecting
    <2>. QED BY <2>1, <2>2
<1>2. CASE PaintMashUp
    <2>1. CASE Open("painting")
        BY <2>1
    <2>2. CASE Painted /\ UNCHANGED cursor
        BY <2>2 DEF Painted, Selecting, TypeOK
    <2>. QED BY <1>2, <2>1, <2>2 DEF PaintMashUp
<1>3. CASE PaintOther
    BY <1>3 DEF PaintOther, Painted, Selecting, TypeOK
<1>. QED BY <1>1, <1>2, <1>3 DEF Paint

LEMMA KeysAsk ==
    ASSUME TypeOK, HeldInv, Keys PROVE UserStep \/ UNCHANGED scanVars
<1>1. CASE Help \/ ToggleMenu \/ SaveAs \/ Choose \/ LeaveMenu \/ Escape \/ No \/ AcceptText
    BY <1>1, IntoKeeps DEF Help, ToggleMenu, SaveAs, Choose, LeaveMenu, Escape, No, AcceptText
<1>2. CASE DeleteFails \/ RenameFails \/ SaveFails
    BY <1>2, IntoKeeps DEF DeleteFails, RenameFails, SaveFails
<1>3. CASE AskDelete \/ AskName \/ NothingToLoad
    BY <1>3 DEF AskDelete, AskName, NothingToLoad, Ask
<1>4. CASE Up \/ Down \/ Home \/ End \/ SeekToPreset
    <2>1. PICK p \in -1 .. Most : Moves(p) /\ (cursor \in Entries => p \in Entries)
        BY <1>4 DEF Up, Down, Home, End, SeekToPreset, Entries, TypeOK
    <2>. QED BY <2>1, MovesSelect DEF UserStep
<1>5. CASE OpenList
    BY <1>5 DEF OpenList, UserStep
<1>6. CASE \E d \in Names : OpenDir(d)
    <2>1. PICK d \in Names : OpenDir(d)
        BY <1>6
    <2>2. Refreshing(d, UpdatePresetList(TRUE, FALSE))
        BY <2>1, Asked DEF OpenDir, Refreshing, TypeOK, HeldInv
    <2>. QED BY <2>2, Asked DEF UserStep
<1>7. CASE Delete
    <2>. DEFINE c == [UpdatePresetList(TRUE, TRUE) EXCEPT !.next = "clamp", !.cursor = cursor]
    <2>1. c \in Calls /\ c.force /\ c.newDir = Missing /\ c.next # "dropped"
        BY DEF UpdatePresetList, Calls, Names, TypeOK
    <2>2. held' \in [Dirs -> 0 .. Most] /\ \A e \in Dirs : held'[e] <= Count[e] /\ (held'[e] = 0 => held[e] = 0)
        BY <1>7 DEF Delete, TypeOK, HeldInv
    <2>3. Refreshing(dir, c)
        BY <1>7, <2>1, <2>2 DEF Delete, Refreshing
    <2>. QED BY <2>1, <2>3 DEF UserStep, TypeOK
<1>8. CASE Rename
    <2>. DEFINE c == [UpdatePresetList(TRUE, FALSE) EXCEPT !.next = "find"]
    <2>1. c \in Calls /\ c.force /\ c.newDir = Missing /\ c.next # "dropped"
        <3>1. UpdatePresetList(TRUE, FALSE) \in Calls
            BY Asked
        <3>. QED BY <3>1, Asked DEF Calls
    <2>2. Refreshing(dir, c)
        BY <1>8, <2>1 DEF Rename, Refreshing, TypeOK, HeldInv
    <2>. QED BY <2>1, <2>2 DEF UserStep, TypeOK
<1>9. CASE Save
    <2>1. held' \in [Dirs -> 0 .. Most] /\ \A e \in Dirs : held'[e] <= Count[e] /\ (held'[e] = 0 => held[e] = 0)
        BY <1>9 DEF Save, TypeOK, HeldInv
    <2>2. Refreshing(dir, UpdatePresetList(TRUE, TRUE))
        BY <1>9, <2>1, Asked DEF Save, Refreshing
    <2>. QED BY <2>2, Asked DEF UserStep, TypeOK
<1>10. CASE \E d \in Names : LoadFrom(d)
    BY <1>10 DEF LoadFrom, UserStep
<1>11. CASE \E d \in Dirs : Drop(d)
    BY <1>11 DEF Drop, UserStep, Names
<1>. QED BY <1>1, <1>2, <1>3, <1>4, <1>5, <1>6, <1>7, <1>8, <1>9, <1>10, <1>11 DEF Keys

\* Every step of the system is one of the scan, of the window or of these.
LEMMA Steps ==
    ASSUME TypeOK, HeldInv, [Next]_vars PROVE SystemStep
<1>1. CASE ScanStep
    BY <1>1 DEF ScanStep, SystemStep
<1>2. CASE WindowStep
    BY <1>2, PaintSelects DEF WindowStep, SystemStep, UserStep
<1>3. CASE Keys
    BY <1>3, KeysAsk DEF SystemStep
<1>4. CASE Close
    BY <1>4 DEF SystemStep, UserStep
<1>5. CASE UNCHANGED vars
    BY <1>5 DEF SystemStep, vars
<1>. QED BY <1>1, <1>2, <1>3, <1>4, <1>5 DEF Next

-----------------------------------------------------------------------------
(***************************************************************************)
(* Types.                                                                  *)
(***************************************************************************)
LEMMA ValidIsDir == ASSUME NEW d PROVE Valid(d) \in Dirs /\ (d \in Dirs => Valid(d) = d)
    BY DEF Valid

LEMMA GoneType ==
    /\ Gone \in Threads
    /\ \A force, reselect \in BOOLEAN :
           [Gone EXCEPT !.at = "enter", !.force = force, !.reselect = reselect] \in Threads
<1>1. Missing \in Names /\ 0 \in 0 .. Most
    BY DEF Names
<1>. QED BY <1>1 DEF Gone, Threads

LEMMA ThreadType ==
    ASSUME NEW t \in Threads
    PROVE  /\ \A at \in {"begin", "reading", "publish", "finish", "sorting"} :
               /\ [t EXCEPT !.at = at] \in Threads
               /\ \A n \in 0 .. Most : [t EXCEPT !.found = n, !.at = at] \in Threads
           /\ [t EXCEPT !.at = "begin", !.retrying = TRUE] \in Threads
           /\ \A d \in Names : [t EXCEPT !.at = "reading", !.files = d, !.found = 0] \in Threads
<1>1. 0 \in 0 .. Most
    OBVIOUS
<1>. QED BY <1>1 DEF Threads

\* What the caller selects is in the list, or just before it.
LEMMA SelectedType ==
    ASSUME TypeOK, NEW c \in Selected(call.next) PROVE c \in -1 .. Most
<1>1. call.cursor \in -1 .. Most /\ call.next \in {"stay", "clamp", "find", "dropped"}
    BY DEF TypeOK, Calls
<1>. QED BY <1>1 DEF Selected, Max0, AtMost, Entries, TypeOK

LEMMA RetryType ==
    ASSUME TypeOK, Retry
    PROVE  /\ dir' \in Names /\ alive' \in BOOLEAN
           /\ holder' \in {"nobody", "scan", "window", "deleted"}
           /\ scan' \in Threads
<1>1. CASE scan.retrying
    BY <1>1, GoneType DEF Retry, Ends, Leave, TypeOK
<1>2. CASE ~scan.retrying
    BY <1>2, ThreadType DEF Retry, TypeOK, Names
<1>. QED BY <1>1, <1>2

LEMMA TypeInScan ==
    ASSUME TypeOK, FoundInv, ThreadInv, Scan PROVE TypeOK'
<1>1. CASE EnterFirst \/ EnterLast
    <2>1. scan' \in Threads
        BY <1>1, ThreadType DEF EnterFirst, EnterLast, Enter, TypeOK
    <2>. QED BY <1>1, <2>1 DEF EnterFirst, EnterLast, Enter, others, TypeOK, listVars
<1>2. CASE Rescan
    <2>1. Crossing \subseteq {"cut", "crossed", "missed"}
        BY DEF Crossing
    <2>2. CASE held[Valid(dir)] = 0
        BY <1>2, <2>1, <2>2, ValidIsDir, RetryType DEF Rescan, others, TypeOK, Names
    <2>3. CASE held[Valid(dir)] # 0
        <3>1. scan' \in Threads
            <4>1. scan' = [scan EXCEPT !.at = "reading", !.files = Valid(dir), !.found = 0]
                BY <1>2, <2>3 DEF Rescan
            <4>. QED BY <4>1, ValidIsDir, ThreadType DEF TypeOK, Names
        <3>2. lapses' \subseteq {"cut", "crossed", "missed"}
            BY <1>2, <2>3 DEF Rescan, TypeOK
        <3>3. list' \in [dir : Names, size : 0 .. Most] /\ nPresets' \in 0 .. Most
            BY <1>2, ValidIsDir DEF Rescan, Names
        <3>. QED BY <3>2, <3>3, <1>2, <2>3, <3>1, ValidIsDir DEF Rescan, Leave, others, TypeOK, Names
    <2>. QED BY <2>2, <2>3
<1>3. CASE Continue
    <2>1. scan' \in Threads /\ alive' \in BOOLEAN
        <3>1. CASE ready
            BY <1>3, <3>1, GoneType DEF Continue, Ends
        <3>2. CASE ~ready
            <4>1. scan' = [scan EXCEPT !.at = "reading", !.files = Missing, !.found = 0]
                  /\ alive' = alive
                BY <1>3, <3>2 DEF Continue
            <4>. QED BY <4>1, ThreadType DEF TypeOK, Names
        <3>. QED BY <3>1, <3>2
    <2>. QED BY <1>3, <2>1, ValidIsDir DEF Continue, Leave, others, TypeOK, Names
<1>4. CASE Read
    <2>1. Total \in 0 .. Most
        BY DEF Total, TypeOK, Names, Threads
    <2>2. scan.found + 1 \in 0 .. Most
        BY <1>4, <2>1 DEF Read, ReadUpTo, TypeOK, Threads
    <2>3. scan' \in Threads
        BY <1>4, <2>2, ThreadType DEF Read, ReadUpTo, TypeOK
    <2>. QED BY <1>4, <2>3 DEF Read, ReadUpTo, others, TypeOK, listVars
<1>5. CASE Publish
    <2>1. PICK n \in nPresets .. scan.found :
            list' = [list EXCEPT !.size = @ + n - nPresets] /\ nPresets' = n
        BY <1>5 DEF Publish
    <2>2. list.size = nPresets
        BY <1>5 DEF Publish, FoundInv, Listing
    <2>3. n \in 0 .. Most /\ list.size + n - nPresets = n
        BY <2>1, <2>2 DEF TypeOK, Threads
    <2>4. list' \in [dir : Names, size : 0 .. Most]
        BY <2>1, <2>3 DEF TypeOK
    <2>5. scan' \in Threads
        BY <1>5, ThreadType DEF Publish, TypeOK
    <2>. QED BY <1>5, <2>1, <2>3, <2>4, <2>5 DEF Publish, others, TypeOK
<1>6. CASE Quit
    BY <1>6, GoneType DEF Quit, Ends, others, TypeOK, listVars
<1>7. CASE AllRead
    <2>1. scan' \in Threads
        BY <1>7, ThreadType DEF AllRead, TypeOK
    <2>. QED BY <1>7, <2>1 DEF AllRead, others, TypeOK, listVars
<1>8. CASE Finish
    <2>1. Crossing \subseteq {"cut", "crossed", "missed"}
        BY DEF Crossing
    <2>2. list' \in [dir : Names, size : 0 .. Most] /\ nPresets' \in 0 .. Most /\ ready' \in BOOLEAN
        <3>1. list' = [list EXCEPT !.size = IF scan.found > nPresets THEN @ + scan.found - nPresets ELSE @]
              /\ nPresets' = scan.found /\ ready' = TRUE
            BY <1>8 DEF Finish, AddTheRest
        <3>2. scan.found > nPresets => list.size = nPresets
            <4>1. scan.at \in Listing /\ (scan.files = Missing => scan.found = 0)
                BY <1>8 DEF Finish, FoundInv, Listing
            <4>2. scan.files # Missing => list.size = nPresets
                BY <4>1 DEF FoundInv
            <4>. QED BY <4>1, <4>2 DEF TypeOK
        <3>3. scan.found \in 0 .. Most /\ list.size \in 0 .. Most /\ nPresets \in 0 .. Most
            BY DEF TypeOK, Threads
        <3>4. (IF scan.found > nPresets THEN list.size + scan.found - nPresets ELSE list.size) \in 0 .. Most
            BY <3>2, <3>3
        <3>. QED BY <3>1, <3>3, <3>4 DEF TypeOK
    <2>3. CASE scan.found = 0
        BY <1>8, <2>1, <2>2, <2>3, RetryType DEF Finish, others, TypeOK
    <2>4. CASE scan.found # 0
        <3>1. cursor' \in -1 .. Most
            BY <1>8, <2>4 DEF Finish, TypeOK, Threads
        <3>2. /\ scan' \in Threads /\ alive' \in BOOLEAN
              /\ holder' \in {"nobody", "scan", "window", "deleted"}
              /\ lapses' \subseteq {"cut", "crossed", "missed"}
            BY <1>8, <2>4, GoneType DEF Finish, Ends, Leave, TypeOK
        <3>. QED BY <1>8, <2>2, <2>4, <3>1, <3>2 DEF Finish, others, TypeOK
    <2>. QED BY <2>3, <2>4
<1>. QED BY <1>1, <1>2, <1>3, <1>4, <1>5, <1>6, <1>7, <1>8 DEF Scan

LEMMA ReturnType ==
    ASSUME TypeOK, Return
    PROVE  /\ window' = "idle" /\ dir' \in Names /\ cursor' \in -1 .. Most /\ call' \in Calls
           /\ lapses' \subseteq {"cut", "crossed", "missed"}
    BY SelectedType, Asked DEF Return, NoCall, Calls, TypeOK

LEMMA TypeInWindow ==
    ASSUME TypeOK, Window PROVE TypeOK'
<1>1. CASE WantFrame \/ Draw \/ Drawn \/ Sleep
    BY <1>1 DEF WantFrame, Draw, Drawn, Sleep, Goes, TypeOK, listVars, threadVars, unasked
<1>2. CASE DirIsValid
    BY <1>2 DEF DirIsValid, ForceScan, TypeOK
<1>3. CASE DirIsInvalid
    <2>1. cursor' \in -1 .. Most /\ call' \in Calls
        BY <1>3, SelectedType, Asked DEF DirIsInvalid, NoCall
    <2>2. lapses' \subseteq {"cut", "crossed", "missed"}
        BY <1>3 DEF DirIsInvalid, TypeOK
    <2>. QED BY <1>3, <2>1, <2>2 DEF DirIsInvalid, Goes, TypeOK, listVars, threadVars
<1>4. CASE CancelThread
    <2>1. Gone \in Threads
        BY GoneType
    <2>2. CASE Respawned
        BY <1>4, <2>1, <2>2 DEF CancelThread, Respawned, Goes, TypeOK, listVars
    <2>3. CASE Restarted
        BY <1>4, <2>1, <2>3 DEF CancelThread, Restarted, Goes, TypeOK, listVars
    <2>. QED BY <1>4, <2>2, <2>3 DEF CancelThread
<1>5. CASE Spawn
    BY <1>5, GoneType DEF Spawn, Goes, TypeOK, Calls, listVars, unasked
<1>6. CASE Waited
    BY <1>6, ReturnType DEF Waited, TypeOK, threadVars
<1>7. CASE Look
    <2>1. CASE Return
        BY <1>7, <2>1, ReturnType DEF Look, TypeOK, threadVars
    <2>2. CASE window' = "waiting" /\ UNCHANGED <<dir, cursor, lapses, call>>
        BY <1>7, <2>2 DEF Look, TypeOK, threadVars
    <2>. QED BY <1>7, <2>1, <2>2 DEF Look
<1>. QED BY <1>1, <1>2, <1>3, <1>4, <1>5, <1>6, <1>7 DEF Window, Update

LEMMA TypeInUser ==
    ASSUME TypeOK, UserStep PROVE TypeOK'
<1>1. CASE Selecting
    BY <1>1 DEF Selecting, Goes, TypeOK, listVars, threadVars
<1>2. CASE Open("idle") \/ Open("painting")
    <2>1. call' \in Calls
        BY <1>2, Asked DEF Open
    <2>2. window' = "spawn" /\ Called
        BY <1>2 DEF Open, Goes
    <2>3. UNCHANGED <<listVars, threadVars, cursor, held, orphaned, lapses>>
        BY <1>2 DEF Open
    <2>. QED BY <2>1, <2>2, <2>3 DEF Called, TypeOK, listVars, threadVars
<1>3. CASE \E d \in Names, c \in Calls : Refreshing(d, c)
    BY <1>3 DEF Refreshing, Refresh, ForceScan, Called, TypeOK
<1>4. CASE \E d \in Names, whole \in BOOLEAN, next \in {"dropped", "stay"} : ChangePresetDir(d, whole, next)
    <2>1. PICK d \in Names, whole \in BOOLEAN, next \in {"dropped", "stay"} : ChangePresetDir(d, whole, next)
        BY <1>4
    <2>2. call' \in Calls
        <3>1. UpdatePresetList(TRUE, FALSE) \in Calls
            BY Asked
        <3>. QED BY <2>1, <3>1 DEF ChangePresetDir, Calls
    <2>. QED BY <2>1, <2>2 DEF ChangePresetDir, Called, Goes, TypeOK, threadVars
<1>5. CASE Close
    BY <1>5 DEF Close, Called, Goes, TypeOK, listVars
<1>. QED BY <1>1, <1>2, <1>3, <1>4, <1>5 DEF UserStep

LEMMA TypeIsKept ==
    ASSUME TypeOK, FoundInv, ThreadInv, SystemStep PROVE TypeOK'
<1>1. CASE UNCHANGED scanVars
    BY <1>1 DEF scanVars, listVars, threadVars, TypeOK
<1>. QED BY <1>1, TypeInScan, TypeInWindow, TypeInUser DEF SystemStep

-----------------------------------------------------------------------------
(***************************************************************************)
(* The threads, and what directories hold.                                 *)
(***************************************************************************)
LEMMA EndsGone == ASSUME Ends PROVE ~alive' /\ scan'.at = "gone"
    BY DEF Ends, Gone

\* A scan that begins to list a directory, or to find that it has nothing to read.
LEMMA ListsFiles ==
    ASSUME TypeOK, NEW d, scan' = [scan EXCEPT !.at = "reading", !.files = d, !.found = 0]
    PROVE  /\ scan'.at = "reading" /\ scan'.files = d /\ scan'.found = 0
           /\ scan'.force = scan.force /\ scan'.retrying = scan.retrying
    BY DEF TypeOK, Threads

LEMMA RescanLists ==
    ASSUME TypeOK, Rescan, held[Valid(dir)] # 0
    PROVE  /\ scan'.at = "reading" /\ scan'.files = Valid(dir) /\ scan'.found = 0
           /\ scan'.force = scan.force /\ dir' = Valid(dir) /\ alive' = alive
<1>1. scan' = [scan EXCEPT !.at = "reading", !.files = Valid(dir), !.found = 0]
      /\ dir' = Valid(dir) /\ alive' = alive
    BY DEF Rescan
<1>. QED BY <1>1, ListsFiles

LEMMA ThreadInScan ==
    ASSUME TypeOK, ThreadInv, Scan PROVE ThreadInv'
<1>. USE DEF ThreadInv, Listing, AtRest, InCall
<1>1. CASE EnterFirst \/ EnterLast
    BY <1>1 DEF EnterFirst, EnterLast, Enter, others, TypeOK, listVars, Threads
<1>2. CASE Rescan
    <2>1. CASE held[Valid(dir)] = 0
        <3>1. ready' = FALSE /\ Retry /\ UNCHANGED <<quit, window, call>> /\ alive
            BY <1>2, <2>1 DEF Rescan, others
        <3>2. CASE Ends
            BY <3>1, <3>2, EndsGone
        <3>3. CASE scan' = [scan EXCEPT !.at = "begin", !.retrying = TRUE] /\ UNCHANGED alive
            <4>1. scan'.at = "begin" /\ scan'.force = scan.force
                BY <3>3 DEF TypeOK, Threads
            <4>. QED BY <3>1, <3>3, <4>1
        <3>. QED BY <3>1, <3>2, <3>3 DEF Retry
    <2>2. CASE held[Valid(dir)] # 0
        <3>1. ready' = FALSE /\ UNCHANGED <<quit, window, call>> /\ alive
            BY <1>2 DEF Rescan, others
        <3>. QED BY <1>2, <2>2, <3>1, RescanLists
    <2>. QED BY <2>1, <2>2
<1>3. CASE Continue
    <2>1. CASE ready
        BY <1>3, <2>1 DEF Continue, Ends, Gone, others
    <2>2. CASE ~ready
        <3>1. scan'.at = "reading" /\ scan'.force = scan.force /\ scan.at = "begin"
            BY <1>3, <2>2, ListsFiles DEF Continue
        <3>2. UNCHANGED <<ready, alive, quit, window, call>>
            BY <1>3, <2>2 DEF Continue, others
        <3>. QED BY <2>2, <3>1, <3>2
    <2>. QED BY <2>1, <2>2
<1>4. CASE Read
    BY <1>4 DEF Read, ReadUpTo, others, TypeOK, Threads, listVars
<1>5. CASE Publish
    BY <1>5 DEF Publish, others, TypeOK, Threads
<1>6. CASE Quit
    BY <1>6 DEF Quit, Ends, Gone, others, listVars
<1>7. CASE AllRead
    BY <1>7 DEF AllRead, others, TypeOK, Threads, listVars
<1>8. CASE Finish
    <2>1. CASE Ends
        BY <1>8, <2>1 DEF Finish, Ends, Gone, others
    <2>2. CASE scan' = [scan EXCEPT !.at = "begin", !.retrying = TRUE] /\ UNCHANGED alive
        BY <1>8, <2>2 DEF Finish, others, TypeOK, Threads
    <2>. QED BY <1>8, <2>1, <2>2 DEF Finish, Retry
<1>. QED BY <1>1, <1>2, <1>3, <1>4, <1>5, <1>6, <1>7, <1>8 DEF Scan

LEMMA ThreadInWindow ==
    ASSUME TypeOK, ThreadInv, Window PROVE ThreadInv'
<1>. USE DEF ThreadInv, Listing, AtRest, InCall
<1>1. CASE WantFrame \/ Draw \/ Drawn \/ Sleep
    BY <1>1 DEF WantFrame, Draw, Drawn, Sleep, Goes, listVars, threadVars, unasked
<1>2. CASE DirIsValid
    BY <1>2 DEF DirIsValid, ForceScan
<1>3. CASE DirIsInvalid
    BY <1>3, Asked DEF DirIsInvalid, Goes, NoCall, listVars, threadVars
<1>4. CASE CancelThread
    BY <1>4 DEF CancelThread, Respawned, Restarted, Goes, Gone, listVars
<1>5. CASE Spawn
    BY <1>5 DEF Spawn, Goes, Gone, listVars, unasked
<1>6. CASE Waited
    BY <1>6, Asked DEF Waited, Return, NoCall, threadVars
<1>7. CASE Look
    BY <1>7, Asked DEF Look, Return, NoCall, threadVars
<1>. QED BY <1>1, <1>2, <1>3, <1>4, <1>5, <1>6, <1>7 DEF Window, Update

LEMMA ThreadIsKept ==
    ASSUME TypeOK, ThreadInv, SystemStep PROVE ThreadInv'
<1>. USE DEF ThreadInv, Listing, AtRest, InCall
<1>1. CASE Selecting
    BY <1>1 DEF Selecting, Goes, listVars, threadVars
<1>2. CASE Open("idle") \/ Open("painting")
    <2>1. window \in {"idle", "painting"} /\ window' = "spawn" /\ ~alive /\ call'.newDir = Missing
        BY <1>2, Asked DEF Open, Goes
    <2>2. UNCHANGED <<alive, quit, scan, ready>>
        BY <1>2 DEF Open, listVars, threadVars
    <2>. QED BY <2>1, <2>2
<1>3. CASE \E d \in Names, c \in Calls : Refreshing(d, c)
    BY <1>3 DEF Refreshing, Refresh, ForceScan
<1>4. CASE \E d \in Names, whole \in BOOLEAN, next \in {"dropped", "stay"} : ChangePresetDir(d, whole, next)
    <2>1. call'.force /\ window' = "tried" /\ window = "idle"
        BY <1>4 DEF ChangePresetDir, UpdatePresetList, Goes
    <2>2. UNCHANGED <<alive, quit, scan, ready>>
        BY <1>4 DEF ChangePresetDir, threadVars
    <2>. QED BY <2>1, <2>2
<1>5. CASE Close
    BY <1>5 DEF Close, Goes, listVars
<1>6. CASE UNCHANGED scanVars
    BY <1>6 DEF scanVars, listVars, threadVars
<1>. QED BY <1>1, <1>2, <1>3, <1>4, <1>5, <1>6, ThreadInScan, ThreadInWindow DEF SystemStep, UserStep

LEMMA HeldIsKept ==
    ASSUME TypeOK, HeldInv, SystemStep PROVE HeldInv'
<1>1. CASE held' = held
    BY <1>1 DEF HeldInv
<1>2. CASE \E d \in Names, c \in Calls : Refreshing(d, c)
    BY <1>2 DEF Refreshing, HeldInv, TypeOK
<1>3. Scan => held' = held
    BY DEF Scan, EnterFirst, EnterLast, Enter, Rescan, Continue, Read, ReadUpTo, Publish, Quit,
           AllRead, Finish, others
<1>4. Window => held' = held
    BY DEF Window, Update, WantFrame, Draw, Drawn, DirIsValid, DirIsInvalid, CancelThread, Spawn,
           Waited, Sleep, Look, unasked
<1>. QED BY <1>1, <1>2, <1>3, <1>4
         DEF SystemStep, UserStep, Selecting, Open, ChangePresetDir, Close, scanVars

-----------------------------------------------------------------------------
(***************************************************************************)
(* The list, and what the scan that lists has found.                       *)
(***************************************************************************)
LEMMA FoundInScan ==
    ASSUME TypeOK, ThreadInv, HeldInv, FoundInv, Scan PROVE FoundInv'
<1>. USE DEF FoundInv, Listing
<1>1. CASE EnterFirst
    BY <1>1 DEF EnterFirst, Enter, TypeOK, Threads
<1>2. CASE EnterLast
    <2>1. /\ scan.at = "finish" /\ scan'.at = "sorting"
          /\ scan'.found = scan.found /\ scan'.files = scan.files /\ scan'.force = scan.force
        BY <1>2 DEF EnterLast, Enter, TypeOK, Threads
    <2>2. UNCHANGED <<list, nPresets, held, window>>
        BY <1>2 DEF EnterLast, Enter, others, listVars
    <2>. QED BY <2>1, <2>2
<1>3. CASE Rescan
    <2>1. CASE held[Valid(dir)] = 0
        <3>1. CASE Ends
            BY <3>1, EndsGone
        <3>2. CASE scan' = [scan EXCEPT !.at = "begin", !.retrying = TRUE]
            BY <3>2 DEF TypeOK, Threads
        <3>. QED BY <1>3, <2>1, <3>1, <3>2 DEF Rescan, Retry
    <2>2. CASE held[Valid(dir)] # 0
        <3>1. scan'.at = "reading" /\ scan'.files = Valid(dir) /\ scan'.found = 0
            BY <1>3, <2>2, RescanLists
        <3>2. list' = [dir |-> Valid(dir), size |-> 0] /\ nPresets' = 0 /\ held' = held
            BY <1>3 DEF Rescan, others
        <3>3. Valid(dir) \in Dirs /\ held[Valid(dir)] \in 0 .. Most /\ Count[Valid(dir)] \in 0 .. Most
            BY ValidIsDir DEF TypeOK
        <3>. QED BY <2>2, <3>1, <3>2, <3>3
    <2>. QED BY <2>1, <2>2
<1>4. CASE Continue
    <2>1. CASE ready
        BY <1>4, <2>1 DEF Continue, Ends, Gone
    <2>2. CASE ~ready
        BY <1>4, <2>2, ListsFiles DEF Continue
    <2>. QED BY <2>1, <2>2
<1>5. CASE Read
    <2>1. scan.at = "reading" /\ scan'.at \in {"reading", "publish"} /\ scan.found < Total
          /\ scan'.found = scan.found + 1 /\ scan'.files = scan.files
        BY <1>5 DEF Read, ReadUpTo, TypeOK, Threads
    <2>2. UNCHANGED <<list, nPresets, held, window>>
        BY <1>5 DEF Read, ReadUpTo, others, listVars
    <2>3. scan.files \in Dirs /\ scan.found \in 0 .. Most /\ nPresets \in 0 .. Most
        BY <2>1 DEF Total, TypeOK, Threads, Names
    <2>4. held[scan.files] \in 0 .. Most /\ Count[scan.files] \in 0 .. Most
          /\ held[scan.files] <= Count[scan.files] /\ scan.found + 1 <= held[scan.files]
        BY <2>1, <2>3 DEF HeldInv, Total, TypeOK
    <2>. QED BY <2>1, <2>2, <2>3, <2>4
<1>6. CASE Publish
    <2>1. scan.at = "publish" /\ scan'.at = "reading"
          /\ scan'.found = scan.found /\ scan'.files = scan.files
        BY <1>6 DEF Publish, TypeOK, Threads
    <2>2. PICK n \in nPresets .. scan.found :
            list' = [list EXCEPT !.size = @ + n - nPresets] /\ nPresets' = n
        BY <1>6 DEF Publish
    <2>3. list = [dir |-> scan.files, size |-> nPresets] /\ scan.files # Missing
        BY <2>1
    <2>4. list' = [dir |-> scan.files, size |-> n]
        <3>1. nPresets + n - nPresets = n
            BY <2>2 DEF TypeOK, Threads
        <3>. QED BY <2>2, <2>3, <3>1
    <2>5. UNCHANGED <<held, window>>
        BY <1>6 DEF Publish, others
    <2>. QED BY <2>1, <2>2, <2>3, <2>4, <2>5 DEF TypeOK, Threads
<1>7. CASE Quit
    BY <1>7, EndsGone DEF Quit
<1>8. CASE AllRead
    <2>1. /\ scan.at = "reading" /\ scan'.at = "finish" /\ scan.found >= Total
          /\ scan'.found = scan.found /\ scan'.files = scan.files /\ scan'.force = scan.force
        BY <1>8 DEF AllRead, TypeOK, Threads
    <2>2. UNCHANGED <<list, nPresets, held, window>>
        BY <1>8 DEF AllRead, others, listVars
    <2>3. scan.files # Missing => held[scan.files] \in 0 .. Most
        BY DEF TypeOK, Threads, Names
    <2>. QED BY <2>1, <2>2, <2>3 DEF Total, TypeOK, Threads
<1>9. CASE Finish
    <2>1. CASE Ends
        BY <2>1, EndsGone
    <2>2. CASE scan' = [scan EXCEPT !.at = "begin", !.retrying = TRUE]
        BY <2>2 DEF TypeOK, Threads
    <2>. QED BY <1>9, <2>1, <2>2 DEF Finish, Retry
<1>. QED BY <1>1, <1>2, <1>3, <1>4, <1>5, <1>6, <1>7, <1>8, <1>9 DEF Scan

LEMMA FoundInWindow ==
    ASSUME TypeOK, FoundInv, Window PROVE FoundInv'
<1>. USE DEF FoundInv, Listing
<1>1. CASE WantFrame \/ Draw \/ Drawn \/ Sleep
    BY <1>1 DEF WantFrame, Draw, Drawn, Sleep, Goes, listVars, threadVars, unasked
<1>2. CASE DirIsValid
    BY <1>2 DEF DirIsValid, ForceScan
<1>3. CASE DirIsInvalid
    BY <1>3 DEF DirIsInvalid, Goes, listVars, threadVars
<1>4. CASE CancelThread
    BY <1>4 DEF CancelThread, Gone
<1>5. CASE Spawn
    BY <1>5 DEF Spawn, Gone
<1>6. CASE Waited
    BY <1>6 DEF Waited, Return, threadVars
<1>7. CASE Look
    BY <1>7 DEF Look, Return, threadVars
<1>. QED BY <1>1, <1>2, <1>3, <1>4, <1>5, <1>6, <1>7 DEF Window, Update

LEMMA FoundIsKept ==
    ASSUME TypeOK, ThreadInv, HeldInv, FoundInv, SystemStep PROVE FoundInv'
<1>. USE DEF FoundInv, Listing
<1>1. CASE Selecting
    BY <1>1 DEF Selecting, Goes, listVars, threadVars
<1>2. CASE Open("idle") \/ Open("painting")
    BY <1>2 DEF Open, Goes, listVars, threadVars, ThreadInv
<1>3. CASE \E d \in Names, c \in Calls : Refreshing(d, c)
    <2>1. UNCHANGED <<list, nPresets, scan>> /\ (alive => window' = "cancelling")
        BY <1>3 DEF Refreshing, Refresh, ForceScan
    <2>2. \A e \in Dirs : held[e] \in 0 .. Most /\ held'[e] \in 0 .. Most /\ (held'[e] = 0 => held[e] = 0)
        BY <1>3 DEF Refreshing, TypeOK
    <2>3. scan.files # Missing => scan.files \in Dirs
        BY DEF TypeOK, Threads, Names
    <2>4. scan.at \in Listing => alive
        BY DEF ThreadInv
    <2>. QED BY <2>1, <2>2, <2>3, <2>4
<1>4. CASE \E d \in Names, whole \in BOOLEAN, next \in {"dropped", "stay"} : ChangePresetDir(d, whole, next)
    BY <1>4 DEF ChangePresetDir, Goes, threadVars
<1>5. CASE Close
    BY <1>5 DEF Close, Goes, listVars
<1>6. CASE UNCHANGED scanVars
    BY <1>6 DEF scanVars, listVars, threadVars
<1>. QED BY <1>1, <1>2, <1>3, <1>4, <1>5, <1>6, FoundInScan, FoundInWindow DEF SystemStep, UserStep

LEMMA IndexIsKept ==
    ASSUME TypeOK, HeldInv, FoundInv, IndexSafe, SystemStep PROVE IndexSafe'
<1>1. CASE UNCHANGED <<list, nPresets>>
    BY <1>1 DEF IndexSafe
<1>2. CASE Rescan
    BY <1>2 DEF Rescan, IndexSafe
<1>3. CASE Publish
    <2>1. PICK n \in nPresets .. scan.found :
            list' = [list EXCEPT !.size = @ + n - nPresets] /\ nPresets' = n
        BY <1>3 DEF Publish
    <2>2. list = [dir |-> scan.files, size |-> nPresets] /\ scan.files \in Dirs
          /\ scan.found <= Count[scan.files]
        BY <1>3 DEF Publish, FoundInv, Listing, TypeOK, Threads, Names
    <2>3. nPresets + n - nPresets = n /\ n <= Count[scan.files]
        BY <2>1, <2>2 DEF TypeOK, Threads
    <2>4. list' = [dir |-> scan.files, size |-> n]
        BY <2>1, <2>2, <2>3
    <2>. QED BY <2>1, <2>3, <2>4 DEF IndexSafe
<1>4. CASE Finish
    <2>1. list' = [list EXCEPT !.size = IF scan.found > nPresets THEN @ + scan.found - nPresets ELSE @]
          /\ nPresets' = scan.found /\ scan.at = "sorting"
        BY <1>4 DEF Finish, AddTheRest
    <2>2. scan.found \in 0 .. Most /\ nPresets \in 0 .. Most
          /\ list \in [dir : Names, size : 0 .. Most]
        BY DEF TypeOK, Threads
    <2>3. CASE scan.files = Missing
        <3>1. scan.found = 0
            BY <2>1, <2>3 DEF FoundInv, Listing
        <3>2. list' = list
            BY <2>1, <2>2, <3>1
        <3>. QED BY <2>1, <2>2, <3>1, <3>2 DEF IndexSafe
    <2>4. CASE scan.files # Missing
        <3>1. list = [dir |-> scan.files, size |-> nPresets] /\ nPresets <= scan.found
              /\ scan.found <= Count[scan.files]
            BY <2>1, <2>4 DEF FoundInv, Listing
        <3>2. list' = [dir |-> scan.files, size |-> scan.found]
            <4>1. nPresets + scan.found - nPresets = scan.found
                BY <2>2
            <4>2. scan.found > nPresets \/ scan.found = nPresets
                BY <2>2, <3>1
            <4>. QED BY <2>1, <3>1, <4>1, <4>2
        <3>. QED BY <2>1, <2>2, <3>1, <3>2 DEF IndexSafe
    <2>. QED BY <2>3, <2>4
<1>5. Scan => UNCHANGED <<list, nPresets>> \/ Rescan \/ Publish \/ Finish
    BY DEF Scan, EnterFirst, EnterLast, Enter, Continue, Read, ReadUpTo, Quit, AllRead, listVars
<1>6. Window => UNCHANGED <<list, nPresets>>
    BY DEF Window, Update, WantFrame, Draw, Drawn, DirIsValid, ForceScan, DirIsInvalid, CancelThread,
           Spawn, Waited, Sleep, Look, listVars
<1>7. UserStep => UNCHANGED <<list, nPresets>>
    BY DEF UserStep, Selecting, Open, Refreshing, Refresh, ForceScan, ChangePresetDir, Close, listVars
<1>. QED BY <1>1, <1>2, <1>3, <1>4, <1>5, <1>6, <1>7 DEF SystemStep, scanVars, listVars

-----------------------------------------------------------------------------
(***************************************************************************)
(* Scans that find nothing to do, or nothing.                              *)
(***************************************************************************)
\* The default directory is not empty, and never becomes so.
LEMMA DefaultHolds == ASSUME TypeOK, HeldInv PROVE held[Default] > 0
    BY DEF TypeOK, HeldInv

\* Nothing is found: the scan ends, or begins again with the default directory.
LEMMA RetryStep ==
    ASSUME TypeOK, Retry
    PROVE  \/ scan.retrying /\ Ends /\ UNCHANGED dir
           \/ /\ ~scan.retrying /\ scan'.at = "begin" /\ scan'.retrying
              /\ scan'.force = scan.force /\ dir' = Default /\ UNCHANGED alive
    BY DEF Retry, TypeOK, Threads

LEMMA UnforcedInScan ==
    ASSUME TypeOK, ThreadInv, HeldInv, FoundInv, RetryInv, UnforcedInv, Scan PROVE UnforcedInv'
<1>. USE DEF UnforcedInv, Starting, Listing, Doomed, Cut
<1>0. scan.at # "gone" /\ window # "spawn" /\ window' = window /\ call' = call
    BY DEF Scan, EnterFirst, EnterLast, Enter, Rescan, Continue, Read, ReadUpTo, Publish, Quit,
           AllRead, Finish, others, ThreadInv
<1>1. CASE EnterFirst
    <2>1. scan.at = "enter" /\ ~scan.retrying
          /\ scan'.at = "begin" /\ scan'.force = scan.force /\ scan'.retrying = scan.retrying
        BY <1>1 DEF EnterFirst, Enter, ThreadInv, TypeOK, Threads
    <2>2. UNCHANGED <<ready, mask, lapses>>
        BY <1>1 DEF EnterFirst, Enter, listVars
    <2>. QED BY <1>0, <2>1, <2>2
<1>2. CASE Rescan
    <2>1. CASE held[Valid(dir)] = 0
        <3>1. Retry /\ ready' = FALSE /\ mask' = Valid(dir)
            BY <1>2, <2>1 DEF Rescan
        <3>2. Valid(dir) # Default
            BY <2>1, DefaultHolds
        <3>. QED BY <1>0, <3>1, <3>2, RetryStep, EndsGone
    <2>2. CASE held[Valid(dir)] # 0
        <3>1. scan'.at = "reading" /\ scan'.files \in Dirs
            BY <1>2, <2>2, ValidIsDir, RescanLists
        <3>. QED BY <1>0, <3>1
    <2>. QED BY <2>1, <2>2
<1>3. CASE Continue
    <2>1. CASE ready
        <3>1. scan'.at = "gone"
            BY <1>3, <2>1, EndsGone DEF Continue
        <3>. QED BY <1>0, <3>1
    <2>2. CASE ~ready
        <3>1. scan'.at = "reading" /\ scan.at = "begin" /\ ~scan.force /\ mask = Valid(dir)
              /\ dir' = Valid(dir) /\ lapses' = lapses
            BY <1>3, <2>2, ListsFiles DEF Continue
        <3>2. Cut \/ Doomed
            BY <2>2, <3>1, ValidIsDir DEF RetryInv
        <3>. QED BY <1>0, <3>1, <3>2, ValidIsDir
    <2>. QED BY <2>1, <2>2
<1>4. CASE Read \/ Publish \/ AllRead \/ EnterLast
    <2>1. scan.at \in Listing /\ scan'.at \in Listing /\ scan'.files = scan.files
        BY <1>4 DEF Read, ReadUpTo, Publish, AllRead, EnterLast, Enter, TypeOK, Threads
    <2>2. UNCHANGED <<lapses, dir>>
        BY <1>4 DEF Read, ReadUpTo, Publish, AllRead, EnterLast, Enter, listVars
    <2>. QED BY <1>0, <2>1, <2>2
<1>5. CASE Quit
    BY <1>0, <1>5, EndsGone DEF Quit
<1>6. CASE Finish
    <2>1. CASE scan.found = 0
        <3>1. scan.at = "sorting" /\ Retry /\ lapses \subseteq lapses'
            BY <1>6, <2>1 DEF Finish
        <3>2. scan.files = Missing
            BY <2>1, <3>1 DEF FoundInv
        <3>. QED BY <1>0, <3>1, <3>2, RetryStep, EndsGone
    <2>2. CASE scan.found # 0
        BY <1>0, <1>6, <2>2, EndsGone DEF Finish
    <2>. QED BY <2>1, <2>2
<1>. QED BY <1>1, <1>2, <1>3, <1>4, <1>5, <1>6 DEF Scan

LEMMA UnforcedInWindow ==
    ASSUME TypeOK, ThreadInv, UnforcedInv, Window PROVE UnforcedInv'
<1>. USE DEF UnforcedInv, Starting, Listing, Doomed, Cut
<1>1. CASE WantFrame \/ Draw \/ Drawn \/ Sleep
    BY <1>1 DEF WantFrame, Draw, Drawn, Sleep, Goes, listVars, threadVars, unasked
<1>2. CASE DirIsValid
    BY <1>2 DEF DirIsValid, ForceScan, ThreadInv
<1>3. CASE DirIsInvalid
    BY <1>3 DEF DirIsInvalid, Goes, listVars, threadVars
<1>4. CASE CancelThread
    BY <1>4 DEF CancelThread, Respawned, Restarted, Goes, Gone, ThreadInv
<1>5. CASE Spawn
    BY <1>5 DEF Spawn, Goes, Gone, listVars, unasked
<1>6. CASE Waited
    BY <1>6 DEF Waited, Return, threadVars
<1>7. CASE Look
    BY <1>7 DEF Look, Return, threadVars
<1>. QED BY <1>1, <1>2, <1>3, <1>4, <1>5, <1>6, <1>7 DEF Window, Update

LEMMA UnforcedIsKept ==
    ASSUME TypeOK, ThreadInv, HeldInv, FoundInv, RetryInv, EndedInv, UnforcedInv, SystemStep
    PROVE  UnforcedInv'
<1>. USE DEF UnforcedInv, Starting, Listing, Doomed, Cut
<1>1. CASE Selecting
    BY <1>1 DEF Selecting, Goes, listVars, threadVars
<1>2. CASE Open("idle") \/ Open("painting")
    <2>1. window \in {"idle", "painting"} /\ ~alive /\ ~ready /\ scan.at = "gone"
        BY <1>2 DEF Open, Goes, ThreadInv
    <2>2. UNCHANGED <<scan, ready, lapses>>
        BY <1>2 DEF Open, listVars, threadVars
    <2>. QED BY <2>1, <2>2 DEF EndedInv, AtRest
<1>3. CASE \E d \in Names, c \in Calls : Refreshing(d, c)
    BY <1>3 DEF Refreshing, Refresh, ForceScan
<1>4. CASE \E d \in Names, whole \in BOOLEAN, next \in {"dropped", "stay"} : ChangePresetDir(d, whole, next)
    BY <1>4 DEF ChangePresetDir, Goes, threadVars
<1>5. CASE Close
    BY <1>5 DEF Close, Goes, listVars
<1>6. CASE UNCHANGED scanVars
    BY <1>6 DEF scanVars, listVars, threadVars
<1>. QED BY <1>1, <1>2, <1>3, <1>4, <1>5, <1>6, UnforcedInScan, UnforcedInWindow DEF SystemStep, UserStep

LEMMA RetryInScan ==
    ASSUME TypeOK, ThreadInv, RetryInv, Scan PROVE RetryInv'
<1>1. CASE EnterFirst
    BY <1>1 DEF EnterFirst, Enter, ThreadInv, RetryInv, TypeOK, Threads
<1>2. CASE Rescan
    <2>1. CASE held[Valid(dir)] = 0
        <3>1. Retry /\ nPresets' = 0
            BY <1>2, <2>1 DEF Rescan
        <3>. QED BY <3>1, RetryStep, EndsGone, ValidIsDir DEF RetryInv, Valid
    <2>2. CASE held[Valid(dir)] # 0
        <3>1. scan'.at = "reading"
            BY <1>2, <2>2, RescanLists
        <3>. QED BY <3>1 DEF RetryInv
    <2>. QED BY <2>1, <2>2
<1>3. CASE Finish
    <2>1. CASE scan.found = 0
        <3>1. Retry /\ nPresets' = 0
            BY <1>3, <2>1 DEF Finish, AddTheRest
        <3>. QED BY <3>1, RetryStep, EndsGone, ValidIsDir DEF RetryInv, Valid
    <2>2. CASE scan.found # 0
        BY <1>3, <2>2, EndsGone DEF Finish, RetryInv
    <2>. QED BY <2>1, <2>2
<1>4. scan'.at = "begin" => EnterFirst \/ Rescan \/ Finish
    <2>1. Continue \/ Quit => scan'.at # "begin"
        <3>1. Continue => Ends \/ scan'.at = "reading"
            BY DEF Continue, TypeOK, Threads
        <3>. QED BY <3>1, EndsGone DEF Quit
    <2>2. Read \/ Publish \/ AllRead \/ EnterLast => scan'.at # "begin"
        BY DEF Read, ReadUpTo, Publish, AllRead, EnterLast, Enter, TypeOK, Threads
    <2>. QED BY <2>1, <2>2 DEF Scan
<1>. QED BY <1>1, <1>2, <1>3, <1>4 DEF RetryInv

LEMMA RetryIsKept ==
    ASSUME TypeOK, ThreadInv, RetryInv, SystemStep PROVE RetryInv'
<1>. USE DEF RetryInv, Doomed
<1>1. CASE Window
    <2>1. CASE WantFrame \/ Draw \/ Drawn \/ Sleep
        BY <2>1 DEF WantFrame, Draw, Drawn, Sleep, Goes, listVars, threadVars, unasked
    <2>2. CASE DirIsValid
        BY <2>2 DEF DirIsValid, ForceScan, ThreadInv
    <2>3. CASE DirIsInvalid
        BY <2>3 DEF DirIsInvalid, Goes, listVars, threadVars, Valid
    <2>4. CASE CancelThread
        BY <2>4 DEF CancelThread, Gone
    <2>7. CASE Spawn
        BY <2>7 DEF Spawn, Gone
    <2>5. CASE Waited
        BY <2>5 DEF Waited, threadVars, ThreadInv
    <2>6. CASE Look
        BY <2>6 DEF Look, Return, threadVars
    <2>. QED BY <1>1, <2>1, <2>2, <2>3, <2>4, <2>7, <2>5, <2>6 DEF Window, Update
<1>2. CASE Selecting
    BY <1>2 DEF Selecting, Goes, listVars, threadVars
<1>3. CASE Open("idle") \/ Open("painting")
    BY <1>3 DEF Open, threadVars, ThreadInv
<1>4. CASE \E d \in Names, c \in Calls : Refreshing(d, c)
    BY <1>4 DEF Refreshing, Refresh, ForceScan, ThreadInv, Valid
<1>5. CASE \E d \in Names, whole \in BOOLEAN, next \in {"dropped", "stay"} : ChangePresetDir(d, whole, next)
    BY <1>5 DEF ChangePresetDir, Goes, threadVars, Valid
<1>6. CASE Close
    BY <1>6 DEF Close, Goes, listVars
<1>7. CASE UNCHANGED scanVars
    BY <1>7 DEF scanVars, listVars, threadVars
<1>. QED BY <1>1, <1>2, <1>3, <1>4, <1>5, <1>6, <1>7, RetryInScan DEF SystemStep, UserStep

LEMMA EndedIsKept ==
    ASSUME TypeOK, ThreadInv, HeldInv, RetryInv, EndedInv, SystemStep PROVE EndedInv'
<1>. USE DEF EndedInv, AtRest, InCall, Cut
<1>1. CASE Scan
    <2>1. CASE alive'
        BY <2>1
    <2>2. CASE Rescan /\ ~alive'
        <3>1. scan.at = "begin" /\ Retry /\ held[Valid(dir)] = 0 /\ alive
            BY <2>2 DEF Rescan, ThreadInv
        <3>2. scan.retrying /\ UNCHANGED dir
            BY <2>2, <3>1, RetryStep
        <3>3. Doomed
            BY <3>1, <3>2, DefaultHolds DEF RetryInv
        <3>. QED BY <2>2, <3>2, <3>3 DEF Doomed, Rescan, others
    <2>3. CASE Continue /\ ~alive'
        BY <2>3 DEF Continue, ThreadInv
    <2>4. CASE Quit
        BY <2>4 DEF Quit, others, ThreadInv
    <2>5. CASE Finish
        BY <2>5 DEF Finish, AddTheRest
    <2>6. CASE EnterFirst \/ EnterLast \/ Read \/ Publish \/ AllRead
        BY <2>6 DEF EnterFirst, EnterLast, Enter, Read, ReadUpTo, Publish, AllRead, ThreadInv
    <2>. QED BY <1>1, <2>1, <2>2, <2>3, <2>4, <2>5, <2>6 DEF Scan
<1>2. CASE Window
    <2>1. CASE WantFrame \/ Draw \/ Drawn \/ Sleep
        BY <2>1 DEF WantFrame, Draw, Drawn, Sleep, Goes, listVars, threadVars, unasked
    <2>2. CASE DirIsValid
        BY <2>2 DEF DirIsValid, ForceScan
    <2>3. CASE DirIsInvalid
        BY <2>3 DEF DirIsInvalid, Goes, listVars, threadVars
    <2>4. CASE CancelThread
        BY <2>4 DEF CancelThread, Respawned, Restarted, Goes, listVars
    <2>5. CASE Spawn
        BY <2>5 DEF Spawn
    <2>6. CASE Waited
        BY <2>6 DEF Waited, Return, threadVars
    <2>7. CASE Look
        BY <2>7 DEF Look, Return, threadVars
    <2>. QED BY <1>2, <2>1, <2>2, <2>3, <2>4, <2>5, <2>6, <2>7 DEF Window, Update
<1>3. CASE Selecting
    BY <1>3 DEF Selecting, Goes, listVars, threadVars
<1>4. CASE Open("idle") \/ Open("painting")
    BY <1>4 DEF Open, Goes
<1>5. CASE \E d \in Names, c \in Calls : Refreshing(d, c)
    BY <1>5 DEF Refreshing, Refresh, ForceScan
<1>6. CASE \E d \in Names, whole \in BOOLEAN, next \in {"dropped", "stay"} : ChangePresetDir(d, whole, next)
    BY <1>6 DEF ChangePresetDir, Goes, threadVars
<1>7. CASE Close
    BY <1>7 DEF Close, Goes
<1>8. CASE UNCHANGED scanVars
    BY <1>8 DEF scanVars, listVars, threadVars
<1>. QED BY <1>1, <1>2, <1>3, <1>4, <1>5, <1>6, <1>7, <1>8 DEF SystemStep, UserStep

-----------------------------------------------------------------------------
(***************************************************************************)
(* The directory a scan is for.                                            *)
(***************************************************************************)
\* Where the window waits for nothing, no directory is to be set.
LEMMA NoCallAims ==
    ASSUME ThreadInv PROVE window \in AtRest => call.newDir = Missing
    BY Asked DEF ThreadInv, NoCall

LEMMA AimInScan ==
    ASSUME TypeOK, ThreadInv, HeldInv, FoundInv, AimInv, Scan PROVE AimInv'
<1>. USE DEF AimInv, Starting, Listing, Cut, Crossed
<1>0. /\ scan.at # "gone" /\ window # "spawn"
      /\ window' = window /\ call' = call /\ held' = held
    BY DEF Scan, EnterFirst, EnterLast, Enter, Rescan, Continue, Read, ReadUpTo, Publish, Quit,
           AllRead, Finish, others, ThreadInv
<1>1. CASE EnterFirst
    <2>1. scan.at = "enter" /\ ~scan.retrying /\ scan'.at = "begin" /\ scan'.retrying = scan.retrying
        BY <1>1 DEF EnterFirst, Enter, ThreadInv, TypeOK, Threads
    <2>2. UNCHANGED <<dir, lapses>>
        BY <1>1 DEF EnterFirst, Enter, listVars
    <2>. QED BY <1>0, <2>1, <2>2
<1>2. CASE Rescan
    <2>1. scan.at = "begin" /\ ("crossed" \in lapses => "crossed" \in lapses')
        BY <1>2 DEF Rescan
    <2>2. CASE held[Valid(dir)] = 0
        <3>1. Retry /\ (window \in {"tried", "cancelling"} => "crossed" \in lapses')
            BY <1>2, <2>2 DEF Rescan, Crossing
        <3>2. call.newDir \in Dirs /\ window \in InCall /\ ~scan.retrying
                => held[call.newDir] = 0 \/ Crossed
            BY <2>1, <2>2, ValidIsDir
        <3>. QED BY <1>0, <2>1, <3>1, <3>2, RetryStep, EndsGone
    <2>3. CASE held[Valid(dir)] # 0
        <3>1. scan'.at = "reading" /\ scan'.files = Valid(dir) /\ dir' = Valid(dir)
            BY <1>2, <2>3, RescanLists
        <3>2. window \in InCall \cup AtRest /\ call.newDir # Missing
                => held[call.newDir] = 0 \/ Crossed \/ Valid(dir) = call.newDir
            BY <2>1, ValidIsDir, NoCallAims DEF TypeOK, Calls, Names
        <3>. QED BY <1>0, <2>1, <3>1, <3>2, ValidIsDir DEF Aim
    <2>. QED BY <2>2, <2>3
<1>3. CASE Continue
    <2>1. dir' = Valid(dir) /\ lapses' = lapses
        BY <1>3 DEF Continue
    <2>2. scan'.at = "gone" \/ (scan'.at = "reading" /\ scan'.files = Missing)
        BY <1>3, EndsGone DEF Continue, TypeOK, Threads
    <2>. QED BY <1>0, <2>1, <2>2, ValidIsDir
<1>4. CASE Read \/ Publish \/ AllRead \/ EnterLast
    <2>1. scan.at \in Listing /\ scan'.at \in Listing /\ scan'.files = scan.files
        BY <1>4 DEF Read, ReadUpTo, Publish, AllRead, EnterLast, Enter, TypeOK, Threads
    <2>2. UNCHANGED <<lapses, dir>>
        BY <1>4 DEF Read, ReadUpTo, Publish, AllRead, EnterLast, Enter, listVars
    <2>. QED BY <1>0, <2>1, <2>2 DEF Aim
<1>5. CASE Quit
    <2>1. scan'.at = "gone" /\ UNCHANGED <<lapses, dir>>
        BY <1>5, EndsGone DEF Quit, listVars
    <2>. QED BY <1>0, <2>1
<1>6. CASE Finish
    <2>1. CASE scan.found = 0
        <3>1. /\ scan.at = "sorting" /\ Retry /\ lapses \subseteq lapses'
              /\ window \in {"tried", "cancelling"} => "crossed" \in lapses'
            BY <1>6, <2>1 DEF Finish, Crossing
        <3>2. ~scan.force
            BY <2>1, <3>1 DEF FoundInv
        <3>3. window \in InCall => call.newDir = Missing
            BY <3>1, <3>2 DEF ThreadInv
        <3>. QED BY <1>0, <3>1, <3>3, RetryStep, EndsGone DEF TypeOK, Calls
    <2>2. CASE scan.found # 0
        <3>1. scan'.at = "gone" /\ dir' = dir /\ ("crossed" \in lapses => "crossed" \in lapses')
            BY <1>6, <2>2, EndsGone DEF Finish
        <3>. QED BY <1>0, <3>1
    <2>. QED BY <2>1, <2>2
<1>. QED BY <1>1, <1>2, <1>3, <1>4, <1>5, <1>6 DEF Scan

LEMMA AimInWindow ==
    ASSUME TypeOK, ThreadInv, AimInv, Window PROVE AimInv'
<1>. USE DEF AimInv, AtRest, InCall, Starting, Listing, Aim, Cut, Crossed
<1>1. CASE WantFrame \/ Draw \/ Drawn \/ Sleep
    BY <1>1 DEF WantFrame, Draw, Drawn, Sleep, Goes, listVars, threadVars, unasked
<1>2. CASE DirIsValid
    BY <1>2 DEF DirIsValid, ForceScan
<1>3. CASE DirIsInvalid
    BY <1>3, Asked DEF DirIsInvalid, Goes, NoCall, listVars, threadVars
<1>4. CASE CancelThread
    BY <1>4 DEF CancelThread, Respawned, Restarted, Goes, Gone, listVars
<1>5. CASE Spawn
    BY <1>5 DEF Spawn, Goes, Gone, listVars, unasked
<1>6. CASE Waited
    BY <1>6, Asked DEF Waited, Return, NoCall, threadVars, ThreadInv
<1>7. CASE Look
    <2>1. CASE Return
        <3>1. window' = "idle" /\ call'.newDir = Missing /\ dir' = Aim /\ lapses \subseteq lapses'
            BY <2>1, Asked DEF Return, NoCall
        <3>2. window = "looking" /\ UNCHANGED <<scan, held>>
            BY <1>7 DEF Look, threadVars
        <3>. QED BY <3>1, <3>2
    <2>2. CASE window' = "waiting" /\ UNCHANGED <<dir, cursor, lapses, call>>
        BY <1>7, <2>2 DEF Look, threadVars
    <2>. QED BY <1>7, <2>1, <2>2 DEF Look
<1>. QED BY <1>1, <1>2, <1>3, <1>4, <1>5, <1>6, <1>7 DEF Window, Update

LEMMA AimIsKept ==
    ASSUME TypeOK, ThreadInv, HeldInv, FoundInv, AimInv, SystemStep PROVE AimInv'
<1>. USE DEF AimInv, AtRest, InCall, Starting, Listing, Aim, Cut, Crossed
<1>1. CASE Selecting
    BY <1>1 DEF Selecting, Goes, listVars, threadVars
<1>2. CASE Open("idle") \/ Open("painting")
    <2>1. window' = "spawn" /\ call'.newDir = Missing
        BY <1>2, Asked DEF Open, Goes
    <2>. QED BY <2>1
<1>3. CASE \E d \in Names, c \in Calls : Refreshing(d, c)
    BY <1>3 DEF Refreshing, Refresh, ForceScan
<1>4. CASE \E d \in Names, whole \in BOOLEAN, next \in {"dropped", "stay"} : ChangePresetDir(d, whole, next)
    <2>1. PICK d \in Names, whole \in BOOLEAN, next \in {"dropped", "stay"} : ChangePresetDir(d, whole, next)
        BY <1>4
    <2>2. window' = "tried" /\ dir' = d /\ call'.newDir = d
        BY <2>1 DEF ChangePresetDir, Goes, UpdatePresetList
    <2>. QED BY <2>2
<1>5. CASE Close
    BY <1>5 DEF Close, Goes, listVars
<1>6. CASE UNCHANGED scanVars
    BY <1>6 DEF scanVars, listVars, threadVars
<1>. QED BY <1>1, <1>2, <1>3, <1>4, <1>5, <1>6, AimInScan, AimInWindow DEF SystemStep, UserStep

-----------------------------------------------------------------------------
(***************************************************************************)
(* The list is whole, and one of it selected.                              *)
(***************************************************************************)
\* A scan that ends leaves the list it made, or one that is not said to be ready, or was cut
\* off, or is about to be replaced.
LEMMA ScanLeaves ==
    ASSUME TypeOK, ThreadInv, HeldInv, FoundInv, UnforcedInv, RetryInv, Scan, ~alive'
    PROVE  \/ Finish /\ scan.found # 0
           \/ Cut /\ "cut" \in lapses' /\ ~Rescan
           \/ nPresets' = 0 /\ ready' = FALSE
           \/ Doomed /\ dir' = dir
           \/ quit /\ ready' = FALSE /\ UNCHANGED window
<1>1. CASE Rescan
    BY <1>1 DEF Rescan
<1>2. CASE Continue
    <2>1. ready /\ scan.at = "begin" /\ ~scan.force /\ dir' = Valid(dir) /\ lapses' = lapses
        BY <1>2 DEF Continue, ThreadInv
    <2>2. Cut \/ Doomed
        BY <2>1 DEF UnforcedInv, Starting
    <2>3. ~Rescan
        BY <1>2 DEF Continue, Rescan
    <2>. QED BY <2>1, <2>2, <2>3, ValidIsDir DEF Cut, Doomed
<1>3. CASE Quit
    BY <1>3 DEF Quit, ThreadInv, Listing, listVars, others, TypeOK
<1>4. CASE Finish
    <2>1. CASE scan.found = 0
        <3>1. scan.at = "sorting" /\ Retry /\ lapses \subseteq lapses'
            BY <1>4, <2>1 DEF Finish
        <3>2. alive /\ (Cut \/ Doomed) /\ ~Rescan
            BY <2>1, <3>1 DEF FoundInv, UnforcedInv, Listing, ThreadInv, Rescan
        <3>3. dir' = dir
            BY <3>1, <3>2, RetryStep
        <3>. QED BY <3>1, <3>2, <3>3 DEF Cut
    <2>. QED BY <1>4, <2>1
<1>5. ~(EnterFirst \/ EnterLast \/ Read \/ Publish \/ AllRead)
    BY DEF EnterFirst, EnterLast, Enter, Read, ReadUpTo, Publish, AllRead, ThreadInv
<1>. QED BY <1>1, <1>2, <1>3, <1>4, <1>5 DEF Scan

LEMMA WholeInScan ==
    ASSUME TypeOK, ThreadInv, HeldInv, FoundInv, UnforcedInv, RetryInv, AimInv, Scan
    PROVE  WholeInv'
<1>. SUFFICES ASSUME window' \in AtRest \cup InCall, ready', ~alive', Aim' \in Dirs
              PROVE  \/ list' = [dir |-> Aim', size |-> held'[Aim']] /\ nPresets' = held'[Aim']
                     \/ held'[Aim'] = 0 \/ Cut' \/ Crossed'
    BY DEF WholeInv
<1>1. window' = window /\ call' = call /\ held' = held
    BY DEF Scan, EnterFirst, EnterLast, Enter, Rescan, Continue, Read, ReadUpTo, Publish, Quit,
           AllRead, Finish, others
<1>2. ~Doomed
    BY <1>1 DEF Doomed, AtRest, InCall
<1>3. CASE Finish /\ scan.found # 0
    <2>1. scan.at = "sorting" /\ dir' = dir /\ lapses' = lapses \ {"missed"} /\ nPresets' = scan.found
          /\ list' = [list EXCEPT !.size = IF scan.found > nPresets THEN @ + scan.found - nPresets ELSE @]
        BY <1>3 DEF Finish, AddTheRest
    <2>2. scan.files # Missing /\ list = [dir |-> scan.files, size |-> nPresets]
          /\ nPresets <= scan.found /\ scan.found = held[scan.files]
        BY <1>1, <1>3, <2>1 DEF FoundInv, Listing, AtRest, InCall
    <2>3. list' = [dir |-> scan.files, size |-> scan.found]
        <3>1. scan.found \in 0 .. Most /\ nPresets \in 0 .. Most
            BY DEF TypeOK, Threads
        <3>2. nPresets + scan.found - nPresets = scan.found /\ (scan.found > nPresets \/ scan.found = nPresets)
            BY <3>1, <2>2
        <3>. QED BY <2>1, <2>2, <3>2
    <2>4. Aim' = Aim
        BY <1>1, <2>1 DEF Aim
    <2>5. Aim = scan.files \/ held[Aim] = 0 \/ Cut \/ Crossed
        BY <1>1, <2>1, <2>2, <2>4 DEF AimInv, Listing
    <2>. QED BY <1>1, <2>1, <2>2, <2>3, <2>4, <2>5 DEF Cut, Crossed
<1>. QED BY <1>2, <1>3, ScanLeaves DEF Cut

LEMMA WholeInWindow ==
    ASSUME TypeOK, ThreadInv, WholeInv, Window PROVE WholeInv'
<1>. USE DEF WholeInv, AtRest, InCall, Aim, Cut, Crossed
<1>1. CASE WantFrame \/ Draw \/ Drawn \/ Sleep
    BY <1>1 DEF WantFrame, Draw, Drawn, Sleep, Goes, listVars, threadVars, unasked
<1>2. CASE DirIsValid
    BY <1>2 DEF DirIsValid, ForceScan
<1>3. CASE DirIsInvalid
    BY <1>3, Asked DEF DirIsInvalid, Goes, NoCall, listVars, threadVars
<1>4. CASE CancelThread
    BY <1>4 DEF CancelThread, Respawned, Restarted, Goes, listVars
<1>5. CASE Spawn
    BY <1>5 DEF Spawn
<1>6. CASE (Waited \/ Look) /\ Return
    <2>1. window' = "idle" /\ call'.newDir = Missing /\ dir' = Aim /\ lapses \subseteq lapses'
        BY <1>6, Asked DEF Return, NoCall
    <2>2. window \in {"waiting", "looking"} /\ UNCHANGED <<list, nPresets, ready, alive, held>>
        BY <1>6 DEF Waited, Look, threadVars
    <2>. QED BY <2>1, <2>2
<1>7. CASE Look /\ ~Return
    BY <1>7 DEF Look, threadVars
<1>. QED BY <1>1, <1>2, <1>3, <1>4, <1>5, <1>6, <1>7 DEF Window, Update, Waited

LEMMA WholeIsKept ==
    ASSUME TypeOK, ThreadInv, HeldInv, FoundInv, UnforcedInv, RetryInv, AimInv, WholeInv, SystemStep
    PROVE  WholeInv'
<1>. USE DEF WholeInv, AtRest, InCall, Aim, Cut, Crossed
<1>1. CASE Selecting
    BY <1>1 DEF Selecting, Goes, listVars, threadVars
<1>2. CASE Open("idle") \/ Open("painting")
    BY <1>2 DEF Open, Goes
<1>3. CASE \E d \in Names, c \in Calls : Refreshing(d, c)
    BY <1>3 DEF Refreshing, Refresh, ForceScan
<1>4. CASE \E d \in Names, whole \in BOOLEAN, next \in {"dropped", "stay"} : ChangePresetDir(d, whole, next)
    BY <1>4 DEF ChangePresetDir, Goes
<1>5. CASE Close
    BY <1>5 DEF Close, Goes, listVars
<1>6. CASE UNCHANGED scanVars
    BY <1>6 DEF scanVars, listVars, threadVars
<1>. QED BY <1>1, <1>2, <1>3, <1>4, <1>5, <1>6, WholeInScan, WholeInWindow DEF SystemStep, UserStep

\* What the caller selects is in a list that is not empty, unless it looked in vain for a file
\* that was dropped.
LEMMA SelectedInList ==
    ASSUME TypeOK, nPresets > 0, cursor \in Entries, NEW c \in Selected(call.next)
    PROVE  c \in Entries \/ (call.next = "dropped" /\ c = -1)
<1>1. call.cursor \in -1 .. Most /\ call.next \in {"stay", "clamp", "find", "dropped"}
    BY DEF TypeOK, Calls
<1>. QED BY <1>1 DEF Selected, Max0, AtMost, Entries, TypeOK

LEMMA SelectInScan ==
    ASSUME TypeOK, ThreadInv, HeldInv, FoundInv, UnforcedInv, RetryInv, Scan PROVE SelectInv'
<1>1. CASE alive'
    BY <1>1 DEF SelectInv
<1>2. CASE Finish /\ scan.found # 0
    <2>1. nPresets' = scan.found /\ scan.found \in 0 .. Most
          /\ cursor' \in {0} \cup {i \in 0 .. scan.found - 1 : scan.reselect}
        BY <1>2 DEF Finish, AddTheRest, TypeOK, Threads
    <2>. QED BY <1>2, <2>1 DEF SelectInv, Entries
<1>3. window' = window
    BY DEF Scan, EnterFirst, EnterLast, Enter, Rescan, Continue, Read, ReadUpTo, Publish, Quit,
           AllRead, Finish, others
<1>4. CASE Doomed /\ dir' = dir
    BY <1>3, <1>4 DEF Doomed, SelectInv, AtRest, InCall
<1>5. CASE quit /\ ready' = FALSE
    BY <1>3, <1>5 DEF ThreadInv, SelectInv, AtRest, InCall
<1>6. CASE nPresets' = 0 \/ "cut" \in lapses'
    BY <1>6 DEF SelectInv
<1>. QED BY <1>1, <1>2, <1>4, <1>5, <1>6, ScanLeaves

LEMMA SelectInWindow ==
    ASSUME TypeOK, ThreadInv, SelectInv, Window PROVE SelectInv'
<1>. USE DEF AtRest, InCall
<1>1. CASE WantFrame \/ Draw \/ Drawn \/ Sleep
    BY <1>1 DEF WantFrame, Draw, Drawn, Sleep, Goes, listVars, threadVars, unasked, SelectInv, Entries
<1>2. CASE DirIsValid
    BY <1>2 DEF DirIsValid, ForceScan, SelectInv
<1>3. CASE CancelThread
    BY <1>3 DEF CancelThread, Respawned, Restarted, Goes, listVars, SelectInv, Entries
<1>4. CASE Spawn
    BY <1>4 DEF Spawn, SelectInv
<1>5. CASE Look /\ ~Return
    BY <1>5 DEF Look, threadVars, SelectInv, Entries
<1>6. CASE DirIsInvalid \/ ((Waited \/ Look) /\ Return)
    <2>1. /\ cursor' \in Selected(call.next) /\ UNCHANGED <<nPresets, alive>>
          /\ lapses' = IF call.next = "dropped" /\ cursor' = -1 THEN lapses \cup {"missed"} ELSE lapses
          /\ window \in InCall \/ (window = "tried" /\ dir \notin Dirs)
        BY <1>6 DEF DirIsInvalid, Goes, Waited, Look, Return, listVars, threadVars
    <2>2. ~alive /\ nPresets > 0 /\ lapses \cap {"cut", "missed"} = {} => cursor \in Entries
        BY <2>1 DEF SelectInv
    <2>. QED BY <2>1, <2>2, SelectedInList DEF SelectInv, Entries
<1>. QED BY <1>1, <1>2, <1>3, <1>4, <1>5, <1>6 DEF Window, Update, Waited

LEMMA SelectIsKept ==
    ASSUME TypeOK, ThreadInv, HeldInv, FoundInv, UnforcedInv, RetryInv, SelectInv, SystemStep
    PROVE  SelectInv'
<1>. USE DEF SelectInv, AtRest, InCall, Entries
<1>1. CASE Selecting
    BY <1>1 DEF Selecting, Goes, listVars, threadVars
<1>2. CASE Open("idle") \/ Open("painting")
    BY <1>2 DEF Open, Goes
<1>3. CASE \E d \in Names, c \in Calls : Refreshing(d, c)
    BY <1>3 DEF Refreshing, Refresh, ForceScan
<1>4. CASE \E d \in Names, whole \in BOOLEAN, next \in {"dropped", "stay"} : ChangePresetDir(d, whole, next)
    BY <1>4 DEF ChangePresetDir, Goes, threadVars
<1>5. CASE Close
    BY <1>5 DEF Close, Goes, listVars
<1>6. CASE UNCHANGED scanVars
    BY <1>6 DEF scanVars, listVars, threadVars
<1>. QED BY <1>1, <1>2, <1>3, <1>4, <1>5, <1>6, SelectInScan, SelectInWindow DEF SystemStep, UserStep

-----------------------------------------------------------------------------
(***************************************************************************)
(* The menus.                                                              *)
(***************************************************************************)
\* What a question asks about is there while the mode is that of the question.
LEMMA NotAsked ==
    ASSUME AskedInv, ui \notin {"del", "rename"} PROVE asked = None
    BY DEF AskedInv

LEMMA IntoMenus ==
    ASSUME NEW next \in Modes, NEW text \in BOOLEAN, Into(next, text),
           text <=> next \in {"rename", "saveas", "prompt", "string"}
    PROVE  ui' \in Modes /\ typing' \in BOOLEAN /\ ModesAgree' /\ asked' = None
    BY DEF Into, ModesAgree

LEMMA KeysKeepModes ==
    ASSUME MenuTypeOK, ModesAgree, Keys
    PROVE  ui' \in Modes /\ typing' \in BOOLEAN /\ ModesAgree'
<1>1. CASE Help \/ ToggleMenu \/ SaveAs \/ Choose \/ LeaveMenu
    BY <1>1 DEF Help, ToggleMenu, SaveAs, Choose, LeaveMenu, Into, Modes, ModesAgree
<1>2. CASE Escape
    BY <1>2 DEF Escape, Into, Modes, ModesAgree
<1>3. CASE No \/ AcceptText \/ DeleteFails \/ RenameFails \/ SaveFails
    BY <1>3 DEF No, AcceptText, DeleteFails, RenameFails, SaveFails, Into, Modes, ModesAgree
<1>4. CASE AskDelete \/ AskName \/ OpenList \/ Delete \/ Rename \/ Save \/ NothingToLoad
    BY <1>4 DEF AskDelete, AskName, Ask, At, OpenList, Delete, Rename, Save, NothingToLoad, Answered,
                Modes, ModesAgree, MenuTypeOK
<1>5. CASE UNCHANGED menuVars
    BY <1>5 DEF menuVars, ModesAgree, MenuTypeOK
<1>6. Up \/ Down \/ Home \/ End \/ SeekToPreset \/ (\E d \in Names : OpenDir(d) \/ LoadFrom(d))
        \/ (\E d \in Dirs : Drop(d)) => UNCHANGED menuVars
    BY DEF Up, Down, Home, End, SeekToPreset, Moves, OpenDir, LoadFrom, Drop, menuVars
<1>. QED BY <1>1, <1>2, <1>3, <1>4, <1>5, <1>6 DEF Keys

LEMMA ModesAreKept ==
    ASSUME MenuTypeOK, ModesAgree, [Next]_vars
    PROVE  ui' \in Modes /\ typing' \in BOOLEAN /\ ModesAgree'
<1>1. CASE UNCHANGED <<ui, typing>>
    BY <1>1 DEF ModesAgree, MenuTypeOK
<1>2. CASE Paint
    BY <1>2 DEF Paint, PaintList, PaintMashUp, PaintOther, Painted, menuVars, Modes, ModesAgree, MenuTypeOK
<1>. QED BY <1>1, <1>2, KeysKeepModes DEF Next, ScanStep, WindowStep, vars, menuVars

\* The scan selects when it sorts; the window when a call returns.
LEMMA ScanSelects ==
    ASSUME Scan PROVE scan.at = "sorting" \/ UNCHANGED cursor
    BY DEF Scan, EnterFirst, EnterLast, Enter, Rescan, Continue, Read, ReadUpTo, Publish, Quit,
           AllRead, Finish, others

LEMMA WindowSelects ==
    ASSUME TypeOK, Window
    PROVE  /\ cursor' = cursor \/ call.next \in {"clamp", "find"} \/ (call.next = "dropped" /\ call' = NoCall)
           /\ call' = call \/ call' = NoCall
<1>1. CASE DirIsInvalid \/ ((Waited \/ Look) /\ Return)
    <2>1. cursor' \in Selected(call.next) /\ call' = NoCall
        BY <1>1 DEF DirIsInvalid, Return
    <2>2. call.next \in {"stay", "clamp", "find", "dropped"}
        BY DEF TypeOK, Calls
    <2>. QED BY <2>1, <2>2 DEF Selected
<1>2. CASE UNCHANGED <<cursor, call>>
    BY <1>2
<1>. QED BY <1>1, <1>2
         DEF Window, Update, WantFrame, Draw, Drawn, DirIsValid, ForceScan, CancelThread, Spawn, Sleep,
             Waited, Look, unasked

LEMMA KeysKeepAsked ==
    ASSUME MenuTypeOK, ThreadInv, AskedInv, Keys PROVE AskedInv' /\ asked' \in {None} \cup -1 .. Most
<1>1. CASE asked' = None
    BY <1>1 DEF AskedInv
<1>2. CASE AskDelete \/ AskName
    <2>1. window = "idle" /\ asked' = cursor /\ ui' \in {"del", "rename"} /\ UNCHANGED <<cursor, call>>
        BY <1>2 DEF AskDelete, AskName, Ask, Idle, scanVars
    <2>2. call.next = "stay"
        BY <2>1, Asked DEF ThreadInv, AtRest, NoCall
    <2>. QED BY <2>1, <2>2 DEF AskedInv, MenuTypeOK, TypeOK
<1>3. CASE Up \/ Down \/ Home \/ End \/ SeekToPreset \/ OpenList \/ NothingToLoad \/ \E d \in Names : OpenDir(d)
    <2>1. ui \notin {"del", "rename"} /\ asked' = asked
        BY <1>3 DEF Up, Down, Home, End, SeekToPreset, Moves, At, OpenList, NothingToLoad, OpenDir, menuVars
    <2>. QED BY <1>1, <2>1, NotAsked
<1>4. CASE (\E d \in Names : LoadFrom(d)) \/ (\E d \in Dirs : Drop(d))
    <2>1. PICK d \in Names, whole \in BOOLEAN, next \in {"dropped", "stay"} :
            ChangePresetDir(d, whole, next) /\ UNCHANGED menuVars
        BY <1>4 DEF LoadFrom, Drop, Names
    <2>2. call'.next = next /\ UNCHANGED <<ui, asked, cursor>>
        BY <2>1 DEF ChangePresetDir, UpdatePresetList, menuVars
    <2>. QED BY <2>2 DEF AskedInv, MenuTypeOK
<1>5. Help \/ ToggleMenu \/ SaveAs \/ Choose \/ LeaveMenu \/ Escape \/ No \/ AcceptText \/ DeleteFails
        \/ RenameFails \/ SaveFails \/ Delete \/ Rename \/ Save => asked' = None
    BY DEF Help, ToggleMenu, SaveAs, Choose, LeaveMenu, Escape, No, AcceptText, DeleteFails, RenameFails,
           SaveFails, Delete, Rename, Save, Into, Answered
<1>. QED BY <1>1, <1>2, <1>3, <1>4, <1>5 DEF Keys

LEMMA AskedIsKept ==
    ASSUME MenuTypeOK, ThreadInv, AskedInv, [Next]_vars
    PROVE  AskedInv' /\ asked' \in {None} \cup -1 .. Most
<1>1. CASE asked' = None
    BY <1>1 DEF AskedInv
<1>2. CASE UNCHANGED <<ui, asked, cursor, call>>
    BY <1>2 DEF AskedInv, MenuTypeOK
<1>3. CASE ScanStep
    <2>1. Scan => call' = call
        BY DEF Scan, EnterFirst, EnterLast, Enter, Rescan, Continue, Read, ReadUpTo, Publish, Quit,
               AllRead, Finish, others
    <2>. QED BY <1>1, <1>2, <1>3, <2>1, ScanSelects DEF ScanStep
<1>4. CASE WindowStep /\ Window /\ UNCHANGED ui
            /\ asked' = IF call.next = "dropped" /\ call' = NoCall THEN None ELSE asked
    <2>1. NoCall.next = "stay"
        BY Asked DEF NoCall
    <2>2. asked' = None \/ (asked' = asked /\ (cursor' = cursor \/ asked = None))
        BY <1>4, WindowSelects DEF AskedInv, MenuTypeOK
    <2>. QED BY <1>4, <2>1, <2>2, WindowSelects DEF AskedInv, MenuTypeOK
<1>5. CASE Paint
    <2>1. CASE ui \in {"load", "mashup"}
        <3>1. asked = None
            BY <2>1, NotAsked
        <3>2. asked' = asked
            BY <1>5 DEF Paint, PaintList, PaintMashUp, PaintOther, Painted, menuVars
        <3>. QED BY <1>1, <3>1, <3>2
    <2>2. CASE ui \notin {"load", "mashup"}
        BY <1>2, <1>5, <2>2 DEF Paint, PaintList, PaintMashUp, PaintOther, Painted
    <2>. QED BY <2>1, <2>2
<1>6. CASE Close /\ UNCHANGED menuVars
    BY <1>2, <1>6 DEF Close, menuVars
<1>7. CASE UNCHANGED vars
    BY <1>2, <1>7 DEF vars, scanVars, menuVars
<1>. QED BY <1>3, <1>4, <1>5, <1>6, <1>7, KeysKeepAsked DEF Next, WindowStep

-----------------------------------------------------------------------------
(***************************************************************************)
(* The theorems.                                                           *)
(***************************************************************************)
IInv == ScanInv /\ MenuInv

LEMMA Initially == MenuInit => IInv
<1>. SUFFICES ASSUME MenuInit PROVE IInv
    OBVIOUS
<1>. USE DEF MenuInit, Init
<1>1. TypeOK
    <2>1. Missing \in Names /\ 0 \in 0 .. Most /\ 0 \in -1 .. Most /\ 0 \in 0 .. MaxCalls
        BY DEF Names
    <2>2. list \in [dir : Names, size : 0 .. Most]
        BY <2>1
    <2>3. call \in Calls
        BY Asked
    <2>. QED BY <2>1, <2>2, <2>3, GoneType DEF TypeOK
<1>2. IndexSafe /\ HeldInv
    BY DEF IndexSafe, HeldInv
<1>3. scan.at = "gone" /\ call.newDir = Missing /\ call.next = "stay"
    BY Asked DEF Gone
<1>4. ThreadInv /\ FoundInv /\ UnforcedInv /\ RetryInv /\ EndedInv /\ AimInv
    BY <1>3 DEF ThreadInv, FoundInv, UnforcedInv, RetryInv, EndedInv, AimInv, AtRest, InCall,
                Starting, Listing
<1>5. WholeInv /\ SelectInv
    BY DEF WholeInv, SelectInv, AtRest, InCall
<1>6. MenuInv
    BY <1>1 DEF MenuInv, MenuTypeOK, ModesAgree, AskedInv, Modes
<1>. QED BY <1>1, <1>2, <1>4, <1>5, <1>6 DEF IInv, ScanInv

LEMMA Inductive == IInv /\ [Next]_vars => IInv'
<1>. SUFFICES ASSUME IInv, [Next]_vars PROVE IInv'
    OBVIOUS
<1>. USE DEF IInv, ScanInv, MenuInv
<1>1. SystemStep
    BY Steps
<1>2. ScanInv'
    BY <1>1, TypeIsKept, IndexIsKept, ThreadIsKept, HeldIsKept, FoundIsKept, UnforcedIsKept,
       RetryIsKept, EndedIsKept, AimIsKept, WholeIsKept, SelectIsKept
<1>3. MenuInv'
    BY <1>2, ModesAreKept, AskedIsKept DEF MenuTypeOK
<1>. QED BY <1>2, <1>3

\* Whatever the scans, the window, the user and the Remote do, and however often the window is
\* lost, the invariants hold.
THEOREM Invariants == Spec => []IInv
    BY Initially, Inductive, PTL DEF Spec

\* The list may be used by whoever has g_cs, whatever scan was ended, terminated or begun again
\* before; and when it is said to be ready and no scan runs, it holds every preset of the
\* directory that is set, but for a lapse that is named (UpdatePresetList, __UpdatePresetList).
THEOREM ListIsSound == Spec => []ListSound
<1>1. IInv => ListSound
    <2>1. IInv => TypeOK /\ IndexSafe
        BY DEF IInv, ScanInv
    <2>2. IInv => ListIsWhole
        BY NoCallAims DEF IInv, ScanInv, WholeInv, AtRest, Aim, Cut, Crossed, ListIsWhole, IsWhole
    <2>. QED BY <2>1, <2>2 DEF ListSound
<1>. QED BY <1>1, Invariants, PTL

\* A text is typed exactly in the modes that have one; between scans, a preset of the list is
\* selected; and what is deleted or renamed is what the user was asked about (plugin_input.cpp).
THEOREM MenuIsSound == Spec => []MenuSound
<1>1. IInv => MenuSound
    <2>1. IInv => Selects
        BY DEF IInv, ScanInv, SelectInv, AtRest, Selects, Idle
    <2>2. IInv => QuestionStands
        BY DEF IInv, MenuInv, AskedInv, QuestionStands
    <2>. QED BY <2>1, <2>2 DEF IInv, MenuInv, MenuSound
<1>. QED BY <1>1, Invariants, PTL
=============================================================================
