SPECIFICATION ChatSpec
CONSTANTS
    Jobs = {j1, j2}
    Workers = {w1}
    QueueMax = 1
    NoJob = NoJob
    Sections = {s1}
    SectionOf <- OneSection
    BareCancels = {j1, j2}
    DbMayFail = FALSE
PROPERTY
    UncancelledChatReleases
CHECK_DEADLOCK FALSE
