SPECIFICATION ChatSafety
CONSTANTS
    Jobs = {j1, j2}
    Workers = {w1, w2}
    QueueMax = 1
    NoJob = NoJob
    Sections = {s1}
    SectionOf <- OneSection
    BareCancels = {j1, j2}
    DbMayFail = TRUE
SYMMETRY Symmetry
INVARIANTS
    ChatTypeOK
    LockHasLiveHolder
    StuckClaimIsRecognised
PROPERTY
    ImplementsQueue
CHECK_DEADLOCK FALSE
