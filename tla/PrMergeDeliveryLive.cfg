SPECIFICATION Spec
CONSTANTS
    Repos = {r1, r2}
    RepoOf <- TwoRepos
    LastDelivery = 3
    BatchLimit = 3
    MaxBoots = 2
    RedisMayFail = FALSE
    DbMayFail = FALSE
PROPERTY
    RecordedIsSettled
CHECK_DEADLOCK FALSE
