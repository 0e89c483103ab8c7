SPECIFICATION AgentSpec
CONSTANTS
    Jobs = {j1, j2}
    Workers = {w1}
    QueueMax = 1
    NoJob = NoJob
    Buds = {b1}
    BudOf <- OneBud
    DbMayFail = FALSE
    BareCancels = {}
INVARIANT
    LinkedRowIsAttended
PROPERTY
    QueuedTaskSettles
CHECK_DEADLOCK FALSE
