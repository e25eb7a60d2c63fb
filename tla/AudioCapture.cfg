CONSTANTS
    Inputs = {n1}
    Outputs = {n2}
    NoName = NoName
    MaxRequests = 2
    MaxPlugs = 1
SPECIFICATION FairSpec
\* The process ends.
CHECK_DEADLOCK FALSE
INVARIANTS StaysUp UsesWhatItShows
PROPERTIES RevertsToWorked CallsEnd
