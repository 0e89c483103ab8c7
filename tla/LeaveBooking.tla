----------------------------- MODULE LeaveBooking -----------------------------
(***************************************************************************)
(* Leave operations as the READ COMMITTED transactions they are: each waits *)
(* for its row locks, reads the book under them, and writes at its commit.  *)
(* Submits and changes of approved leave take the policy's row shared and   *)
(* then the member's; decisions, cancellations and adjustments take the     *)
(* member's row; a change of the calendar takes the policy's row            *)
(* exclusively and then the rows of all the members it re-prices.           *)
(***************************************************************************)
EXTENDS LeaveRules

CONSTANTS
    Txs,      \* the transactions that may be open at one time
    MaxTxs    \* bound: the transactions that are begun

ASSUME BookingAssumption == MaxTxs \in Nat

VARIABLES
    book,    \* the committed rows, holidays and adjustments
    today,   \* today_for(policy)
    tx,      \* what each transaction does, how far it is, and what it has read
    begun    \* how many there were

vars == <<book, today, tx, begun>>

Idle == [phase |-> "idle"]

Phases == {"idle", "policy", "find", "member", "commit"}

LeaveTypeOK ==
    /\ book \in Books
    /\ \A r \in Requests : book.rows[r].lop <= book.rows[r].days
    /\ today \in Days
    /\ \A t \in Txs : tx[t].phase \in Phases
    /\ begun \in 0 .. MaxTxs

Init ==
    /\ book = NewBook
    /\ today = 1
    /\ tx = [t \in Txs |-> Idle]
    /\ begun = 0

-----------------------------------------------------------------------------
Working(t) == tx[t].phase # "idle"
IsCalendar(t) == Working(t) /\ tx[t].op.kind = "calendar"

\* The locks follow from the phase.  A holiday that is added references the
\* policy, which takes FOR KEY SHARE on its row as soon as it is staged.
SharesPolicy(t) ==
    /\ Working(t) /\ tx[t].op.kind \in {"submit", "withdraw", "reschedule"}
    /\ tx[t].phase # "policy"
OwnsPolicy(t) == IsCalendar(t) /\ tx[t].phase # "policy"
ReferencesPolicy(t) == IsCalendar(t) /\ tx[t].op.drop = {}

\* Mutant: a submit locks the member first and the policy then.
OwnsMemberEarly(t, m) ==
    /\ Working(t) /\ m \in tx[t].members
    /\ tx[t].phase \in {"policy", "commit"}

OwnsMember(t, m) == tx[t].phase = "commit" /\ m \in tx[t].members

\* The transactions whose locks t waits for.
Blockers(t) ==
    {u \in Txs \ {t} :
        \/ /\ tx[t].phase = "policy"
           /\ \/ OwnsPolicy(u)
              \/ IsCalendar(t) /\ (SharesPolicy(u) \/ ReferencesPolicy(u))
        \/ tx[t].phase = "member" /\ \E m \in tx[t].members : OwnsMember(u, m)}

\* Two transactions that wait for each other.
Deadlocked(t) == \E u \in Blockers(t) : t \in Blockers(u)

MemberOf(o) == IF o.kind = "adjust" THEN o.member ELSE Owner[o.req]

\* A caller knows the request it names.  A change of the calendar stages its
\* holidays at once; a day that another one stages waits for that one.
Sensible(t, o) ==
    IF o.kind = "calendar"
    THEN /\ MayChange(book, o.drop, o.add)
         /\ \A u \in Txs : IsCalendar(u) =>
               (tx[u].op.drop \cup tx[u].op.add) \cap (o.drop \cup o.add) = {}
    ELSE CASE o.kind = "submit" -> book.rows[o.req].status = "none"
           [] o.kind = "adjust" -> TRUE
           [] OTHER             -> Active(book.rows[o.req])

Begin(t, o) ==
    /\ tx[t].phase = "idle"
    /\ begun < MaxTxs
    /\ begun' = begun + 1
    /\ Sensible(t, o)
    /\ tx' = [tx EXCEPT ![t] =
         [op |-> o,
          phase |-> IF o.kind \in {"approve", "reject", "cancel", "adjust"}
                    THEN "member" ELSE "policy",
          members |-> IF o.kind = "calendar" THEN {} ELSE {MemberOf(o)},
          day |-> 0]]
    /\ UNCHANGED <<book, today>>

Becomes(t, phase) == tx' = [tx EXCEPT ![t].phase = phase]

\* Mutant: a submit does not wait for a calendar that is changing.
LockPolicyFree(t) ==
    /\ tx[t].phase = "policy"
    /\ Becomes(t, IF IsCalendar(t) THEN "find" ELSE "member")
    /\ UNCHANGED <<book, today, begun>>

LockPolicy(t) ==
    /\ tx[t].phase = "policy"
    /\ Blockers(t) = {}
    /\ Becomes(t, IF IsCalendar(t) THEN "find" ELSE "member")
    /\ UNCHANGED <<book, today, begun>>

\* recount_requests: which members' requests may change, under the date read here.
\* Nobody's: the holidays are all there is to commit.
Find(t) ==
    /\ tx[t].phase = "find"
    /\ LET o == tx[t].op
           found == Affected(book, o.drop, o.add, today)
       IN tx' = [tx EXCEPT ![t] =
            IF found = {}
            THEN [op |-> o, phase |-> "commit", members |-> {},
                  wrote |-> Changed(book, o.drop, o.add)]
            ELSE [@ EXCEPT !.phase = "member", !.members = found, !.day = today]]
    /\ UNCHANGED <<book, today, begun>>

\* Mutant: an operation reads before it has the member's lock.
OperateUnlocked(t) ==
    /\ tx[t].phase = "member"
    /\ LET made == Effect(tx[t].op, book, IF IsCalendar(t) THEN tx[t].day ELSE today)
       IN IF made = {}
          THEN tx' = [tx EXCEPT ![t] = Idle]
          ELSE \E b \in made : tx' = [tx EXCEPT ![t] =
                 [op |-> @.op, phase |-> "commit", members |-> @.members, wrote |-> b]]
    /\ UNCHANGED <<book, today, begun>>

\* The members' rows are locked, and the book and the date are read again; what
\* the operation makes of them is written, but nobody sees it yet.  A refusal
\* rolls back.
Operate(t) ==
    /\ tx[t].phase = "member"
    /\ Blockers(t) = {}
    /\ LET made == Effect(tx[t].op, book, IF IsCalendar(t) THEN tx[t].day ELSE today)
       IN IF made = {}
          THEN tx' = [tx EXCEPT ![t] = Idle]
          ELSE \E b \in made : tx' = [tx EXCEPT ![t] =
                 [op |-> @.op, phase |-> "commit", members |-> @.members, wrote |-> b]]
    /\ UNCHANGED <<book, today, begun>>

\* What the operation o leaves of a book b: the rows of the members it locked, and
\* what it writes besides.
Written(b, o, members, wrote) ==
    [rows |-> [r \in Requests |-> IF Owner[r] \in members THEN wrote.rows[r] ELSE b.rows[r]],
     holidays |-> IF o.kind = "calendar" THEN (b.holidays \ o.drop) \cup o.add ELSE b.holidays,
     adjusted |-> IF o.kind = "adjust"
                  THEN [b.adjusted EXCEPT ![o.member] = wrote.adjusted[o.member]]
                  ELSE b.adjusted]

\* get_db commits after the endpoint.
Commit(t) ==
    /\ tx[t].phase = "commit"
    /\ book' = Written(book, tx[t].op, tx[t].members, tx[t].wrote)
    /\ tx' = [tx EXCEPT ![t] = Idle]
    /\ UNCHANGED <<today, begun>>

\* The process dies, the client's connection drops, or Postgres breaks a deadlock.
RollBack(t) ==
    /\ Working(t)
    /\ tx' = [tx EXCEPT ![t] = Idle]
    /\ UNCHANGED <<book, today, begun>>

NextDay ==
    /\ today < LastToday
    /\ today' = today + 1
    /\ UNCHANGED <<book, tx, begun>>

Step(t) == LockPolicy(t) \/ Find(t) \/ Operate(t) \/ Commit(t) \/ RollBack(t)

Next ==
    \/ \E t \in Txs : Step(t) \/ \E o \in Ops : Begin(t, o)
    \/ NextDay

Spec == Init /\ [][Next]_vars

-----------------------------------------------------------------------------
\* The locks make every operation atomic: the book changes only as if the
\* transactions ran one after another, whatever they had read before.
Atomic == INSTANCE LeaveBook WITH book <- book, today <- today
ImplementsBook == Atomic!Spec

\* check_overlap: no two pending or approved requests of one person share a day,
\* though submits, moves and approvals of it run at the same time.
NoDoubleBooking ==
    \A r, s \in Requests :
        (r # s /\ Owner[r] = Owner[s] /\ Active(book.rows[r]) /\ Active(book.rows[s]))
            => ~ Overlap(book.rows[r], book.rows[s].start, book.rows[s].end)

\* Of everything that is booked exactly what the balance covers is paid: it is
\* never overdrawn, and no loss of pay is left where freed days could cover it,
\* through decisions, cancellations, moves, adjustments and recounts.
PaidIsWhatBalanceCovers ==
    \A m \in Members :
        LET mine == Booked(book, m)
        IN PaidDays(book, mine) = Min({BookedDays(book, mine), Max({0, Total(book, m)})})

\* "a submit never counts against a calendar that is changing, and the recount
\* always sees the requests submitted before it": the days of every request that
\* waits or has not begun are counted against the holidays as they stand.
DaysFollowCalendar ==
    \A r \in Requests :
        LET row == book.rows[r]
        IN row.status = "pending" \/ (row.status = "approved" /\ row.start >= today)
              => row.days = count_days(book, row.start, row.end)

\* "Always taken before any member lock, so the two can't deadlock": whatever
\* wait for each other, it is never anything but two changes of the calendar.
OnlyCalendarsDeadlock == \A t \in Txs : Deadlocked(t) => IsCalendar(t)

-----------------------------------------------------------------------------
\* Promises of the comments that the code does not keep, and that have no run of
\* their own: TLC refutes each on a small instance, and the README tells the trace.

\* "Move or shorten approved leave; it stays approved under the new dates": a
\* move that the checks accept can be stored.
AcceptedMoveIsStored ==
    \A t \in Txs : (tx[t].phase = "member" /\ tx[t].op.kind = "reschedule") =>
        LET o == tx[t].op
        IN MayMove(book, o.req, o.span[1], o.span[2], today)
              => Storable(book, o.req, o.span[1], o.span[2], today)
=============================================================================
