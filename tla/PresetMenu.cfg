\* A scan that was terminated may keep g_cs, and then everybody waits.
CHECK_DEADLOCK FALSE
SPECIFICATION FairSpec
CONSTANTS
    many = many
    one = one
    empty = empty
    Dirs <- MCDirs
    Count <- MCCount
    Most = 3
    Default = one
    Missing = Missing
    Burst = 1
    Interval = 2
    MaxCalls = 2
    MaxPage = 1
INVARIANT ListSound
INVARIANT MenuSound
PROPERTY WaitsEnd
