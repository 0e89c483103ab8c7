SPECIFICATION QueueSpec
CONSTANTS
    Jobs = {j1, j2}
    Workers = {w1, w2}
    QueueMax = 1
    NoJob = NoJob
INVARIANTS
    QueueTypeOK
    OneOwner
    RunningIsHeld
    CancelledNeverCompletes
    NoHandlerOutlivesPool
PROPERTIES
    RunsAtMostOnce
    QueuedIsSettled
    CancelSettles
CHECK_DEADLOCK FALSE
