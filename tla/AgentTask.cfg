SPECIFICATION AgentSafety
CONSTANTS
    Jobs = {j1, j2}
    Workers = {w1}
    QueueMax = 1
    NoJob = NoJob
    Buds = {b1}
    BudOf <- OneBud
    DbMayFail = TRUE
    BareCancels = {j1}
INVARIANTS
    AgentTypeOK
    CompletedJobHasCompletedRow
PROPERTY
    ImplementsQueue
CHECK_DEADLOCK FALSE
