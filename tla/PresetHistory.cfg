SPECIFICATION Spec
\* A ring of 5 slots: it fills up and wraps. Two presets that can be told apart.
CONSTANTS
    Presets = {p1, p2}
    NoFile = NoFile
    HistLen = 5
INVARIANT NoHoles
PROPERTY ImplementsTrail
