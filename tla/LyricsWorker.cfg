SPECIFICATION FairSpec
\* Two tracks, a file, two retries, four changes of subject.
CONSTANTS
    t1 = t1
    t2 = t2
    f = f
    Tracks = {t1, t2}
    Manual = {f}
    Nothing = Nothing
    MaxRetries = 2
    MaxRequests = 4
INVARIANTS ShowsNewestRequest FollowsTrack
PROPERTY LookupsEnd
