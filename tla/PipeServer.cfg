SPECIFICATION FairSpec
\* Two connections through one listener, a restart, a Send.
CONSTANTS
    Ctx = {c1, c2}
    Listeners = {l1}
    NoCtx = NoCtx
    MaxStarts = 2
    MaxSends = 1
    SpawnMayFail = TRUE
    AcceptJoinMayTimeOut = FALSE
INVARIANTS NoDanglingContext HandlerOwnsPipe NoContextLost ListTruthful
PROPERTY CallsReturn
CHECK_DEADLOCK FALSE
