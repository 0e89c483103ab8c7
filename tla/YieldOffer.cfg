CONSTANTS
    low = low
    middle = middle
    high = high
    Users = {u1, u2}
    Buds = {low, middle, high}
    Weight <- Priorities
    Cap = 1
    Txs = {t1, t2}
    MaxOffers = 2
    MaxRequests = 4
    Nobody = Nobody
SPECIFICATION Spec
INVARIANTS YieldTypeOK LockedMeansPending AskedOnce AskedForTheUnassigned
PROPERTY AnswersOutliveSweeps
SYMMETRY Symmetric
CHECK_DEADLOCK FALSE
