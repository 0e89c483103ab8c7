------------------------------- MODULE LeaveBook ------------------------------
(***************************************************************************)
(* What the leave operations promise together: as if each were one step on  *)
(* the book.  A transaction may have read the date just before midnight, so *)
(* a step may be taken under an earlier day; and a cancellation, which does *)
(* not lock the policy, may count the days already taken under a calendar    *)
(* that has been changed since.                                             *)
(***************************************************************************)
EXTENDS Integers

CONSTANTS
    Ops, Effect(_, _, _),  \* the operations, and the books each may leave of one on a day
    NewBook,
    HolidayDays,
    LastToday              \* bound: the day on which the model's clock stops

VARIABLES
    book,    \* the committed rows, holidays and adjustments
    today    \* today_for(policy)

Init == book = NewBook /\ today = 1

Operation(o) ==
    /\ \E day \in 1 .. today :
          \/ book' \in Effect(o, book, day)
          \/ /\ o.kind = "cancel"
             /\ book'.holidays = book.holidays
             /\ \E h \in SUBSET HolidayDays :
                   [book' EXCEPT !.holidays = h] \in Effect(o, [book EXCEPT !.holidays = h], day)
    /\ UNCHANGED today

NextDay ==
    /\ today < LastToday
    /\ today' = today + 1
    /\ UNCHANGED book

Next == NextDay \/ (book' # book /\ \E o \in Ops : Operation(o))

Spec == Init /\ [][Next]_<<book, today>>
=============================================================================
