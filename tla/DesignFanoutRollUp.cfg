CONSTANTS
    Designs = {d1, d2}
    Users = {u1, u2}
    MaxTasks = 2
    MaxJobs = 2
    MaxRequests = 3
CHECK_DEADLOCK FALSE
SPECIFICATION Spec
INVARIANT RollUpIsNeverLost
SYMMETRY Symmetric
