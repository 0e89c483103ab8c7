CONSTANTS
    Members = {m1}
    Requests = {q1, q2}
    Owner <- OneMember
    LastDay = 3
    LastToday = 2
    HolidayDays = {2, 3}
    Allowance = 1
    Adjustments <- Deduction
    BackdateLimit = 1
    AutoApprove = TRUE
    StopsAtBalance = FALSE
    Txs = {t1, t2}
    MaxTxs = 4
CHECK_DEADLOCK FALSE
SPECIFICATION Spec
SYMMETRY Symmetric
INVARIANTS LeaveTypeOK NoDoubleBooking PaidIsWhatBalanceCovers DaysFollowCalendar OnlyCalendarsDeadlock
PROPERTY ImplementsBook
