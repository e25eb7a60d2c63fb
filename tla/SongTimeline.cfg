CONSTANTS
    Songs = {0, 1}
    Length = 4
    Rates = {1, 2}
    Jitter = 1
    Correction = 2
    Backward = 4
    Assumed = 1
    Epoch = 10
    Tracked = {"stamped", "unstamped", "silent"}
    MaxNow = 3
    MaxEvents = 2
SPECIFICATION SongSpec
INVARIANT Accurate
PROPERTY NeverBack
