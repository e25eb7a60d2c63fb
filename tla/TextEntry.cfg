SPECIFICATION TextSpec
CONSTANTS
    a = a
    sp = sp
    LF = LF
    Nul = Nul
    Alnum <- MCAlnum
    Other <- MCOther
    Texts <- MCTexts
    Clips <- MCClips
    Size = 6
    MaxLen = 4
    MaxRepeat = 2
INVARIANT CursorInText
PROPERTY KeysDoAsMeant
\* What follows a write before the buffer is not modelled.
CHECK_DEADLOCK FALSE
