SPECIFICATION Safety
CONSTANTS
    Repos = {r1}
    RepoOf <- OneRepo
    LastDelivery = 3
    BatchLimit = 2
    MaxBoots = 2
    RedisMayFail = TRUE
    DbMayFail = TRUE
INVARIANTS
    TypeOK
    Accounted
    RunsWithinBoots
CHECK_DEADLOCK FALSE
