\* The connection ends with its handler.
CHECK_DEADLOCK FALSE
SPECIFICATION FairPipeSpec
CONSTANTS
    Sizes <- MCSizes
    NewsSizes <- MCNewsSizes
    Buf = 2
    RBuf = 2
    Cap = 3
    RCap = 4
    Quota = 2
    MaxCommands = 2
    MaxNews = 2
    MaxHangs = 1
INVARIANT MessagesWhole
PROPERTIES MessagesArrive HandlerEnds
