------------------------------ MODULE LeaveRules ------------------------------
(***************************************************************************)
(* What each operation on leave requests makes of the leave book, as the    *)
(* transaction that holds its locks computes it (services/leave).  A book   *)
(* is the requests' rows, the policy's mandatory holidays and the members'  *)
(* balance adjustments.  Days are numbers; one leave type whose allowance   *)
(* is released at the start of the year, and whole days only.               *)
(***************************************************************************)
EXTENDS Integers, FiniteSets, FiniteSetsExt

CONSTANTS
    Members,         \* the people whose leave is on the policy
    Requests,        \* the ids that leave_requests hands out
    Owner,           \* who sends each request
    LastDay,         \* bound: the days that can be booked are 1 .. LastDay
    LastToday,       \* bound: the day on which the model's clock stops
    HolidayDays,     \* bound: the days on which HR may put a holiday
    Allowance,       \* the frozen allocation of the year
    Adjustments,     \* bound: what HR's adjustments of a balance add up to
    BackdateLimit,   \* policy.backdate_limit_days
    AutoApprove,     \* leave_type.auto_approve
    StopsAtBalance   \* leave_type.stops_at_balance

Days == 1 .. LastDay

ASSUME LeaveAssumption ==
    /\ IsFiniteSet(Requests) /\ Owner \in [Requests -> Members]
    /\ LastDay \in Nat /\ LastToday \in Days
    /\ HolidayDays \subseteq Days
    /\ Allowance \in Nat
    /\ 0 \in Adjustments /\ Adjustments \subseteq Int
    /\ BackdateLimit \in Nat
    /\ AutoApprove \in BOOLEAN
    /\ StopsAtBalance \in BOOLEAN

Status == {"none", "pending", "approved", "rejected", "cancelled"}

NoRow == [status |-> "none", start |-> 1, end |-> 1, days |-> 0, lop |-> 0]

Rows == [status : Status, start : Days, end : Days, days : 0 .. LastDay, lop : 0 .. LastDay]

Books == [rows : [Requests -> Rows], holidays : SUBSET HolidayDays,
          adjusted : [Members -> Adjustments]]

NewBook == [rows     |-> [r \in Requests |-> NoRow],
            holidays |-> {},
            adjusted |-> [m \in Members |-> 0]]

-----------------------------------------------------------------------------
Active(row) == row.status \in {"pending", "approved"}
Booked(b, m) == {r \in Requests : Owner[r] = m /\ Active(b.rows[r])}
Overlap(row, from, to) == row.start <= to /\ row.end >= from

count_days(b, from, to) == Cardinality((from .. to) \ b.holidays)

Total(b, m) == Allowance + b.adjusted[m]
PaidDays(b, S) == SumFunction([r \in S |-> b.rows[r].days - b.rows[r].lop])
BookedDays(b, S) == SumFunction([r \in S |-> b.rows[r].days])

\* Mutant: usable_from is not cut off at zero.
availableBelowZero(b, m) == Total(b, m) - PaidDays(b, Booked(b, m))

\* build_line, usable_from: what is left to pay for, never below zero.
available(b, m) == Max({0, Total(b, m) - PaidDays(b, Booked(b, m))})

\* split_paid, the unpaid part.
UnpaidOf(days, left) == days - Min({days, left})

\* reprice: the request's own paid days are released first.
reprice(b, r) ==
    LET days == b.rows[r].days
        released == [b EXCEPT !.rows[r].lop = days]
    IN [b EXCEPT !.rows[r].lop = UnpaidOf(days, available(released, Owner[r]))]

\* What the leave of the same member that starts before r leaves of the balance.
earlier(b, r) == {e \in Booked(b, Owner[r]) : b.rows[e].start < b.rows[r].start}
left_for(b, r) == Max({0, Total(b, Owner[r]) - BookedDays(b, earlier(b, r))})

\* rebalance: everything is released and priced again, the earliest leave first.
rebalance(b, members) ==
    [b EXCEPT !.rows = [r \in Requests |->
        IF Owner[r] \in members /\ Active(b.rows[r])
        THEN [b.rows[r] EXCEPT !.lop = UnpaidOf(b.rows[r].days, left_for(b, r))]
        ELSE b.rows[r]]]

\* Mutant: check_overlap looks at approved requests only.
AcceptableApproved(b, m, from, to, day) ==
    LET days == count_days(b, from, to)
    IN /\ from >= day - BackdateLimit
       /\ days > 0
       /\ \A r \in Booked(b, m) :
             b.rows[r].status = "approved" => ~ Overlap(b.rows[r], from, to)
       /\ StopsAtBalance => days <= available(b, m)

\* evaluate: date_problems, no_working_days, check_overlap, over_balance.
Acceptable(b, m, from, to, day) ==
    LET days == count_days(b, from, to)
    IN /\ from >= day - BackdateLimit
       /\ days > 0
       /\ \A r \in Booked(b, m) : ~ Overlap(b.rows[r], from, to)
       /\ StopsAtBalance => days <= available(b, m)

-----------------------------------------------------------------------------
\* Each operation is the set of the books it may leave: empty when it is refused,
\* which rolls the transaction back.

submit(b, r, from, to, day) ==
    LET days == count_days(b, from, to)
        lop  == UnpaidOf(days, available(b, Owner[r]))
        row  == [status |-> IF AutoApprove /\ lop = 0 THEN "approved" ELSE "pending",
                 start |-> from, end |-> to, days |-> days, lop |-> lop]
    IN IF b.rows[r].status = "none" /\ Acceptable(b, Owner[r], from, to, day)
       THEN {[b EXCEPT !.rows[r] = row]}
       ELSE {}

\* decide, with _refuse_if_over.
approve(b, r) ==
    LET priced == reprice(b, r)
    IN IF /\ b.rows[r].status = "pending"
          /\ StopsAtBalance => priced.rows[r].lop = 0
       THEN {[priced EXCEPT !.rows[r].status = "approved"]}
       ELSE {}

\* Mutant: the paid days of a rejected request are not given to the others.
rejectKeeps(b, r) ==
    IF b.rows[r].status = "pending" THEN {[b EXCEPT !.rows[r].status = "rejected"]} ELSE {}

reject(b, r) ==
    IF b.rows[r].status = "pending"
    THEN {rebalance([b EXCEPT !.rows[r].status = "rejected"], {Owner[r]})}
    ELSE {}

\* Approved leave that is ended before its time keeps the working days already
\* taken, and gives its loss of pay back first; without any it takes `status`.
EndedBy(b, r, status, day) ==
    LET row   == b.rows[r]
        taken == IF row.start < day THEN count_days(b, row.start, day - 1) ELSE 0
        kept  == [row EXCEPT !.end = day - 1, !.days = taken,
                             !.lop = Max({0, row.lop - (row.days - taken)})]
        ended == IF taken = 0 THEN [row EXCEPT !.status = status] ELSE kept
    IN rebalance([b EXCEPT !.rows[r] = ended], {Owner[r]})

NotOver(row, day) == row.status = "approved" /\ row.end >= day

cancel(b, r, day) ==
    IF b.rows[r].status = "pending"
    THEN {rebalance([b EXCEPT !.rows[r].status = "cancelled"], {Owner[r]})}
    ELSE IF NotOver(b.rows[r], day) THEN {EndedBy(b, r, "cancelled", day)} ELSE {}

withdraw(b, r, day) ==
    IF NotOver(b.rows[r], day) THEN {EndedBy(b, r, "rejected", day)} ELSE {}

\* The days of a move that the rules accept, or 0.  Leave not started is set aside
\* while the new dates are checked; of leave under way only the end moves.
DaysOfMove(b, r, from, to, day) ==
    LET row   == b.rows[r]
        aside == [b EXCEPT !.rows[r].status = "cancelled"]
        whole == count_days(b, from, to)
    IN IF row.start >= day
       THEN IF from >= day /\ Acceptable(aside, Owner[r], from, to, day) THEN whole ELSE 0
       ELSE IF from # row.start \/ to < day THEN 0
       ELSE IF to <= row.end THEN whole
       ELSE IF Acceptable(b, Owner[r], row.end + 1, to, day)
       THEN row.days + count_days(b, row.end + 1, to)
       ELSE 0

MayMove(b, r, from, to, day) ==
    /\ NotOver(b.rows[r], day)
    /\ <<from, to>> # <<b.rows[r].start, b.rows[r].end>>
    /\ DaysOfMove(b, r, from, to, day) > 0

\* The UPDATE sets days and leaves lop_days to the reprice that follows, so fewer
\* days than that break ck_leave_requests_lop_within_days, and nothing is stored.
Storable(b, r, from, to, day) == DaysOfMove(b, r, from, to, day) >= b.rows[r].lop

reschedule(b, r, from, to, day) ==
    LET moved == [b EXCEPT !.rows[r].start = from, !.rows[r].end = to,
                           !.rows[r].days = DaysOfMove(b, r, from, to, day)]
    IN IF MayMove(b, r, from, to, day) /\ Storable(b, r, from, to, day)
       THEN {rebalance(reprice(moved, r), {Owner[r]})}
       ELSE {}

\* adjust, and recalculate with the correction it books.
adjust(b, m, by) ==
    IF b.adjusted[m] + by \in Adjustments
    THEN {rebalance([b EXCEPT !.adjusted[m] = @ + by], {m})}
    ELSE {}

\* open_for_policy_from: the requests a change of the calendar can still re-price.
open_for_policy_from(b, earliest, day) ==
    {r \in Requests :
        /\ b.rows[r].end >= earliest
        /\ \/ b.rows[r].status = "pending"
           \/ b.rows[r].status = "approved" /\ b.rows[r].start >= day}

\* The holidays after a change that drops some days and adds others, and the first
\* day it touches.
Changed(b, drop, add) == [b EXCEPT !.holidays = (@ \ drop) \cup add]
MayChange(b, drop, add) == drop \subseteq b.holidays /\ add \cap b.holidays = {}
Affected(b, drop, add, day) ==
    {Owner[r] : r \in open_for_policy_from(b, Min(drop \cup add), day)}

recount_requests(b, drop, add, day) ==
    LET open == open_for_policy_from(b, Min(drop \cup add), day)
        after == Changed(b, drop, add)
        counted == [after EXCEPT !.rows = [r \in Requests |->
                      IF r \in open
                      THEN [after.rows[r] EXCEPT
                              !.days = count_days(after, after.rows[r].start, after.rows[r].end)]
                      ELSE after.rows[r]]]
    IN IF MayChange(b, drop, add) THEN {rebalance(counted, {Owner[r] : r \in open})} ELSE {}

-----------------------------------------------------------------------------
\* What a caller may ask for.
Spans == {s \in Days \X Days : s[1] <= s[2]}
Singles == {{d} : d \in HolidayDays}

Ops ==
    [kind : {"submit", "reschedule"}, req : Requests, span : Spans]
    \cup [kind : {"approve", "reject", "cancel", "withdraw"}, req : Requests]
    \cup [kind : {"adjust"}, member : Members, by : {a - c : a, c \in Adjustments} \ {0}]
    \cup {o \in [kind : {"calendar"}, drop : Singles \cup {{}}, add : Singles \cup {{}}] :
             o.drop # o.add}

Effect(o, b, day) ==
    CASE o.kind = "submit"     -> submit(b, o.req, o.span[1], o.span[2], day)
      [] o.kind = "approve"    -> approve(b, o.req)
      [] o.kind = "reject"     -> reject(b, o.req)
      [] o.kind = "cancel"     -> cancel(b, o.req, day)
      [] o.kind = "withdraw"   -> withdraw(b, o.req, day)
      [] o.kind = "reschedule" -> reschedule(b, o.req, o.span[1], o.span[2], day)
      [] o.kind = "adjust"     -> adjust(b, o.member, o.by)
      [] o.kind = "calendar"   -> recount_requests(b, o.drop, o.add, day)
=============================================================================
