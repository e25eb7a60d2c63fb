CONSTANTS
    Pids = {1, 2}
    Targets = {t1}
    None = None
    MaxPosted = 2
    MaxStray = 1
SPECIFICATION FairSpec
INVARIANTS LooksForOne StateAskedFor
PROPERTY Recovers
