SPECIFICATION FairSpec
\* Loads, cancels, resets and the precompiler in every order; the load of duo may be replaced.
CONSTANTS
    bad = bad
    duo = duo
    heavy = heavy
    plain = plain
    shaded = shaded
    two = two
    Presets = {plain, shaded, heavy, two, duo, bad}
    Shaded = {shaded, heavy}
    Double = {two, duo, bad}
    Broken = {bad}
    Precompile = {heavy}
    NoFile = NoFile
    Caching = TRUE
    Fragile = {two}
    Unstarted = {heavy}
    Spared = {two}
    MaxLoads = 2
INVARIANTS Shown RenderFindsCache CancelHitsItsLoad HalvesTogether
PROPERTY LoadEnds
