-------------------------- MODULE LeaveBookingProofs --------------------------
(* Proofs about leave: for any members, requests, days, holidays, allowance and   *)
(* adjustments, and any number of transactions at a time.  First what the sums    *)
(* and the operations do to a book, then what the locks make of transactions.     *)
EXTENDS LeaveBooking, FiniteSetTheorems, WellFoundedInduction, TLAPS

-----------------------------------------------------------------------------
(* Sums over finite sets, as the community modules define them.                  *)

\* Of some subsets of a finite set one has no other of them below it.
LEMMA LeastSubset ==
  ASSUME NEW S, IsFiniteSet(S), NEW T \in SUBSET (SUBSET S), T # {}
  PROVE  \E x \in T : \A y \in T : y \subseteq x => y = x
<1>1. IsWellFoundedOn(StrictSubsetOrdering(S), SUBSET S)
  BY FS_StrictSubsetOrderingWellFounded, FS_FiniteSubsetsOfFinite
<1>2. PICK x \in T : \A y \in T : ~ (<<y, x>> \in StrictSubsetOrdering(S))
  BY <1>1, WFMin
<1>3. QED
  BY <1>2 DEF StrictSubsetOrdering

\* How the library's sum takes its elements one by one, and what the sum of each subset
\* is then.
Pick(s) == CHOOSE x \in s : TRUE
IsSum(g, f, T) ==
    g = [s \in SUBSET T |-> IF s = {} THEN 0 ELSE f[Pick(s)] + g[s \ {Pick(s)}]]

\* What is picked is taken out.
LEMMA PickIn == \A s : s # {} => Pick(s) \in s /\ s \ {Pick(s)} # s /\ s \ {Pick(s)} \subseteq s
  BY DEF Pick

\* Sums of the same numbers agree, whatever larger sets they were computed in.
LEMMA SumUnique ==
  ASSUME NEW f, NEW T1, NEW T2, NEW g1, NEW g2, IsSum(g1, f, T1), IsSum(g2, f, T2),
         NEW U \in SUBSET (T1 \cap T2), IsFiniteSet(U)
  PROVE  g1[U] = g2[U]
<1> DEFINE Bad == {V \in SUBSET U : g1[V] # g2[V]}
<1> SUFFICES ASSUME Bad # {} PROVE FALSE
  OBVIOUS
<1>1. PICK V \in Bad : \A W \in Bad : W \subseteq V => W = V
  <2>1. Bad \in SUBSET (SUBSET U) /\ Bad # {}
    OBVIOUS
  <2> HIDE DEF Bad
  <2>2. QED
    BY <2>1, LeastSubset
<1>2. V \in SUBSET T1 /\ V \in SUBSET T2
  OBVIOUS
<1>3. g1[V] = IF V = {} THEN 0 ELSE f[Pick(V)] + g1[V \ {Pick(V)}]
  BY <1>2 DEF IsSum
<1>4. g2[V] = IF V = {} THEN 0 ELSE f[Pick(V)] + g2[V \ {Pick(V)}]
  BY <1>2 DEF IsSum
<1>5. V # {}
  BY <1>3, <1>4
<1>6. V \ {Pick(V)} \notin Bad
  BY <1>1, <1>5, PickIn
<1>7. g1[V \ {Pick(V)}] = g2[V \ {Pick(V)}]
  BY <1>6
<1>8. QED
  BY <1>3, <1>4, <1>5, <1>7

\* There is such a function, so the recursion of the library's sum defines one.
LEMMA SumExists ==
  ASSUME NEW f, NEW S, IsFiniteSet(S)
  PROVE  \E g : IsSum(g, f, S)
<1> DEFINE Bad == {T \in SUBSET S : ~ \E g : IsSum(g, f, T)}
<1> SUFFICES ASSUME Bad # {} PROVE FALSE
  OBVIOUS
<1>1. PICK T \in Bad : \A U \in Bad : U \subseteq T => U = T
  <2>1. Bad \in SUBSET (SUBSET S) /\ Bad # {}
    OBVIOUS
  <2> HIDE DEF Bad
  <2>2. QED
    BY <2>1, LeastSubset
<1> DEFINE h(U) == CHOOSE g : IsSum(g, f, U)
           v(s) == IF s = {} THEN 0 ELSE f[Pick(s)] + h(s \ {Pick(s)})[s \ {Pick(s)}]
           g == [s \in SUBSET T |-> v(s)]
<1>2. \A U \in SUBSET T : U # T => IsSum(h(U), f, U)
  BY <1>1
<1> HIDE DEF h
<1>3. ASSUME NEW U \in SUBSET T, U # T PROVE g[U] = h(U)[U]
  <2>1. h(U)[U] = IF U = {} THEN 0 ELSE f[Pick(U)] + h(U)[U \ {Pick(U)}]
    BY <1>2, <1>3 DEF IsSum
  <2>2. CASE U = {}
    BY <2>1, <2>2
  <2>3. CASE U # {}
    <3> DEFINE W == U \ {Pick(U)}
    <3>1. W \in SUBSET U /\ W # U /\ W # T
      BY <2>3, PickIn
    <3>2. IsSum(h(U), f, U) /\ IsSum(h(W), f, W)
      BY <1>2, <1>3, <3>1
    <3>3. IsFiniteSet(W)
      BY <3>1, <1>1, FS_Subset
    <3>4. W \in SUBSET (U \cap W)
      BY <3>1
    <3> HIDE DEF W
    <3>5. h(U)[W] = h(W)[W]
      BY <3>2, <3>3, <3>4, SumUnique
    <3>6. QED
      BY <2>1, <2>3, <3>5 DEF W
  <2>4. QED
    BY <2>2, <2>3
<1>4. \A s \in SUBSET T : s # {} => g[s \ {Pick(s)}] = h(s \ {Pick(s)})[s \ {Pick(s)}]
  <2> SUFFICES ASSUME NEW s \in SUBSET T, s # {}
               PROVE g[s \ {Pick(s)}] = h(s \ {Pick(s)})[s \ {Pick(s)}]
    OBVIOUS
  <2>1. s \ {Pick(s)} \in SUBSET T /\ s \ {Pick(s)} # T
    BY PickIn
  <2> HIDE DEF g
  <2>2. QED
    BY <2>1, <1>3
<1>5. IsSum(g, f, T)
  BY <1>4 DEF IsSum
<1>6. QED
  BY <1>1, <1>5

\* The library's sum is what that function says.
LEMMA SumIs ==
  ASSUME NEW f, NEW S, IsFiniteSet(S)
  PROVE  \E g : IsSum(g, f, S) /\ SumFunctionOnSet(f, S) = g[S]
<1>1. SumFunctionOnSet(f, S) = (CHOOSE g : IsSum(g, f, S))[S]
  BY DEF SumFunctionOnSet, FoldFunctionOnSet, MapThenFoldSet, IsSum, Pick
<1>2. QED
  BY <1>1, SumExists

\* A finite sum of integers is an integer.
LEMMA SumInt ==
  ASSUME NEW S, IsFiniteSet(S), NEW f \in [S -> Int]
  PROVE  SumFunction(f) \in Int
<1>1. PICK g : IsSum(g, f, S) /\ SumFunctionOnSet(f, S) = g[S]
  BY SumIs
<1> DEFINE Bad == {V \in SUBSET S : g[V] \notin Int}
<1> SUFFICES ASSUME Bad # {} PROVE FALSE
  BY <1>1 DEF SumFunction
<1>2. PICK V \in Bad : \A W \in Bad : W \subseteq V => W = V
  <2>1. Bad \in SUBSET (SUBSET S) /\ Bad # {}
    OBVIOUS
  <2> HIDE DEF Bad
  <2>2. QED
    BY <2>1, LeastSubset
<1>3. g[V] = IF V = {} THEN 0 ELSE f[Pick(V)] + g[V \ {Pick(V)}]
  BY <1>1 DEF IsSum
<1>4. V # {}
  BY <1>3
<1>5. V \ {Pick(V)} \notin Bad /\ Pick(V) \in S
  BY <1>2, <1>4, PickIn
<1>6. QED
  BY <1>3, <1>4, <1>5

-----------------------------------------------------------------------------
(* What leave costs.                                                            *)

\* The larger and the smaller of two numbers.
LEMMA MaxMin ==
  ASSUME NEW x \in Int, NEW y \in Int
  PROVE  /\ Max({x, y}) = IF x >= y THEN x ELSE y
         /\ Min({x, y}) = IF x <= y THEN x ELSE y
<1>1. \A z \in {x, y} : (\A w \in {x, y} : z >= w) => z = IF x >= y THEN x ELSE y
  OBVIOUS
<1>2. \E z \in {x, y} : \A w \in {x, y} : z >= w
  OBVIOUS
<1>3. \A z \in {x, y} : (\A w \in {x, y} : z <= w) => z = IF x <= y THEN x ELSE y
  OBVIOUS
<1>4. \E z \in {x, y} : \A w \in {x, y} : z <= w
  OBVIOUS
<1>5. QED
  BY <1>1, <1>2, <1>3, <1>4 DEF Max, Min

\* The unpaid part of some days is between none and all of them.
LEMMA UnpaidBounds ==
  ASSUME NEW days \in Nat, NEW paid \in Nat
  PROVE  UnpaidOf(days, paid) \in 0 .. days
<1>1. Min({days, paid}) = IF days <= paid THEN days ELSE paid
  BY MaxMin
<1>2. QED
  BY <1>1 DEF UnpaidOf

\* The sums that the rules compute are integers.
LEMMA TotalsAreNumbers ==
  ASSUME NEW b \in Books, NEW m \in Members, NEW S \in SUBSET Requests
  PROVE  Total(b, m) \in Int /\ PaidDays(b, S) \in Int /\ BookedDays(b, S) \in Int
<1>1. IsFiniteSet(S)
  BY LeaveAssumption, FS_Subset
<1>2. \A r \in Requests : b.rows[r].days \in Int /\ b.rows[r].lop \in Int
  BY LeaveAssumption DEF Books, Rows
<1>3. [r \in S |-> b.rows[r].days - b.rows[r].lop] \in [S -> Int]
  BY <1>2
<1>4. [r \in S |-> b.rows[r].days] \in [S -> Int]
  BY <1>2
<1>5. PaidDays(b, S) \in Int /\ BookedDays(b, S) \in Int
  BY <1>1, <1>3, <1>4, SumInt DEF PaidDays, BookedDays
<1>6. Total(b, m) \in Int
  <2>1. b.adjusted[m] \in Adjustments
    BY DEF Books
  <2>2. b.adjusted[m] \in Int /\ Allowance \in Int
    <3>1. Adjustments \subseteq Int
      BY LeaveAssumption
    <3>2. Allowance \in Int
      BY LeaveAssumption
    <3>3. QED
      BY <2>1, <3>1, <3>2
  <2>3. QED
    BY <2>2 DEF Total
<1>7. QED
  BY <1>5, <1>6

\* What is left to pay for is never below zero.
LEMMA LeftIsNat ==
  ASSUME NEW b \in Books
  PROVE  /\ \A m \in Members : available(b, m) \in Nat
         /\ \A r \in Requests : left_for(b, r) \in Nat
<1>1. \A m \in Members : available(b, m) \in Nat
  <2> SUFFICES ASSUME NEW m \in Members PROVE available(b, m) \in Nat
    OBVIOUS
  <2>1. Booked(b, m) \in SUBSET Requests
    BY DEF Booked
  <2>2. Total(b, m) \in Int /\ PaidDays(b, Booked(b, m)) \in Int
    BY <2>1, TotalsAreNumbers
  <2>3. QED
    BY <2>2, MaxMin DEF available
<1>2. \A r \in Requests : left_for(b, r) \in Nat
  <2> SUFFICES ASSUME NEW r \in Requests PROVE left_for(b, r) \in Nat
    OBVIOUS
  <2>1. earlier(b, r) \in SUBSET Requests /\ Owner[r] \in Members
    BY LeaveAssumption DEF earlier, Booked
  <2>2. Total(b, Owner[r]) \in Int /\ BookedDays(b, earlier(b, r)) \in Int
    BY <2>1, TotalsAreNumbers
  <2>3. QED
    BY <2>2, MaxMin DEF left_for
<1>3. QED
  BY <1>1, <1>2

\* Two books that a member cannot tell apart.
AgreeOn(b, c, m) ==
    /\ b.adjusted[m] = c.adjusted[m]
    /\ \A r \in Requests : Owner[r] = m => b.rows[r] = c.rows[r]

\* What a member has and costs follows from the rows and the adjustment of that member.
LEMMA CostIsLocal ==
  ASSUME NEW b, NEW c, NEW m, AgreeOn(b, c, m)
  PROVE  /\ Booked(b, m) = Booked(c, m) /\ available(b, m) = available(c, m)
         /\ \A r \in Requests : Owner[r] = m => left_for(b, r) = left_for(c, r)
<1>1. Booked(b, m) = Booked(c, m)
  BY DEF AgreeOn, Booked
<1>2. \A r \in Booked(b, m) : b.rows[r] = c.rows[r]
  BY DEF AgreeOn, Booked
<1>3. Total(b, m) = Total(c, m)
  BY DEF AgreeOn, Total
<1>4. available(b, m) = available(c, m)
  <2>1. [r \in Booked(b, m) |-> b.rows[r].days - b.rows[r].lop]
          = [r \in Booked(c, m) |-> c.rows[r].days - c.rows[r].lop]
    BY <1>1, <1>2
  <2>2. QED
    BY <1>1, <1>3, <2>1 DEF available, PaidDays
<1>5. ASSUME NEW r \in Requests, Owner[r] = m PROVE left_for(b, r) = left_for(c, r)
  <2>1. earlier(b, r) = earlier(c, r) /\ earlier(b, r) \subseteq Booked(b, m)
    BY <1>1, <1>2, <1>5 DEF earlier, AgreeOn
  <2>2. [e \in earlier(b, r) |-> b.rows[e].days] = [e \in earlier(c, r) |-> c.rows[e].days]
    BY <1>2, <2>1
  <2>3. QED
    BY <1>3, <1>5, <2>1, <2>2 DEF left_for, BookedDays
<1>6. QED
  BY <1>1, <1>4, <1>5

-----------------------------------------------------------------------------
(* What an operation makes of a book.                                           *)

\* The parts of the assumption that the rules need.
LEMMA Bounds ==
  /\ LastDay \in Nat /\ Days = 1 .. LastDay /\ LastToday \in Days
  /\ HolidayDays \subseteq Days
  /\ IsFiniteSet(Requests) /\ \A r \in Requests : Owner[r] \in Members
<1>1. LastDay \in Nat /\ LastToday \in Days /\ HolidayDays \subseteq Days
  BY LeaveAssumption
<1>2. IsFiniteSet(Requests) /\ \A r \in Requests : Owner[r] \in Members
  BY LeaveAssumption
<1>3. QED
  BY <1>1, <1>2 DEF Days

\* Working days are counted within the span.
LEMMA CountBounds ==
  ASSUME NEW b, NEW from \in Int, NEW to \in Int
  PROVE  count_days(b, from, to) \in 0 .. (IF from <= to THEN to - from + 1 ELSE 0)
<1>1. IsFiniteSet(from .. to) /\ Cardinality(from .. to) = IF from > to THEN 0 ELSE to - from + 1
  BY FS_Interval
<1>2. (from .. to) \ b.holidays \in SUBSET (from .. to)
  OBVIOUS
<1>3. /\ IsFiniteSet((from .. to) \ b.holidays)
      /\ Cardinality((from .. to) \ b.holidays) <= Cardinality(from .. to)
  BY <1>1, <1>2, FS_Subset
<1>4. Cardinality((from .. to) \ b.holidays) \in Nat
  BY <1>3, FS_CardinalityType
<1>5. QED
  BY <1>1, <1>3, <1>4 DEF count_days

\* A row spans some days and counts at most those; it is sound when it pays for no less
\* than none of them.
LooseRow(row) == row \in Rows /\ row.start <= row.end /\ row.days <= row.end - row.start + 1
SoundRow(row) == LooseRow(row) /\ row.lop <= row.days

Sound(b) == b \in Books /\ \A r \in Requests : SoundRow(b.rows[r])

\* A book that is sound once the leave of some members is priced again.
SoundOncePriced(b, members) ==
    /\ b \in Books
    /\ \A r \in Requests : /\ LooseRow(b.rows[r])
                           /\ SoundRow(b.rows[r]) \/ (Owner[r] \in members /\ Active(b.rows[r]))

\* Rows that differ at most in what is paid of them.
Same(row, other) ==
    /\ row.status = other.status /\ row.start = other.start
    /\ row.end = other.end /\ row.days = other.days

\* One row is replaced.
Put(b, r, row) == [b EXCEPT !.rows[r] = row]

\* Replacing a row touches nothing else of a book.
LEMMA Replacing ==
  ASSUME NEW b, Sound(b), NEW r \in Requests, NEW row, SoundRow(row),
         NEW c, c = Put(b, r, row)
  PROVE  /\ Sound(c) /\ c.rows[r] = row /\ c.holidays = b.holidays /\ c.adjusted = b.adjusted
         /\ \A q \in Requests : q # r => c.rows[q] = b.rows[q]
<1>1. b \in Books /\ row \in Rows
  BY DEF Sound, SoundRow, LooseRow
<1>2. /\ c.rows = [b.rows EXCEPT ![r] = row] /\ c.holidays = b.holidays
      /\ c.adjusted = b.adjusted /\ c \in Books
  BY <1>1 DEF Books, Put
<1>3. c.rows[r] = row /\ \A q \in Requests : q # r => c.rows[q] = b.rows[q]
  BY <1>1, <1>2 DEF Books
<1>4. QED
  BY <1>2, <1>3 DEF Sound

\* The loss of pay of a row is priced again, whatever it was.
LEMMA Pricing ==
  ASSUME NEW row, LooseRow(row), NEW paid \in Nat
  PROVE  LET priced == [row EXCEPT !.lop = UnpaidOf(row.days, paid)]
         IN SoundRow(priced) /\ Same(priced, row)
<1>1. row.days \in 0 .. LastDay /\ LastDay \in Nat
  BY Bounds DEF SoundRow, LooseRow, Rows
<1>2. row.days \in Nat
  BY <1>1
<1>3. UnpaidOf(row.days, paid) \in 0 .. row.days
  BY <1>2, UnpaidBounds
<1>4. QED
  BY <1>1, <1>3 DEF SoundRow, LooseRow, Rows, Same

\* What a rebalance makes of the rows.
PricedRows(b, members) ==
    [r \in Requests |->
        IF Owner[r] \in members /\ Active(b.rows[r])
        THEN [b.rows[r] EXCEPT !.lop = UnpaidOf(b.rows[r].days, left_for(b, r))]
        ELSE b.rows[r]]

\* A rebalance prices the active rows of some members again, and touches nothing else.
LEMMA RebalancedRows ==
  ASSUME NEW b, NEW members, SoundOncePriced(b, members)
  PROVE  /\ rebalance(b, members) \in Books
         /\ rebalance(b, members).rows = PricedRows(b, members)
         /\ rebalance(b, members).holidays = b.holidays
         /\ rebalance(b, members).adjusted = b.adjusted
         /\ \A r \in Requests : /\ SoundRow(PricedRows(b, members)[r])
                                /\ Same(PricedRows(b, members)[r], b.rows[r])
<1> DEFINE rows == PricedRows(b, members)
<1>1. \A r \in Requests : SoundRow(rows[r]) /\ Same(rows[r], b.rows[r])
  <2> SUFFICES ASSUME NEW r \in Requests
               PROVE  SoundRow(rows[r]) /\ Same(rows[r], b.rows[r])
    OBVIOUS
  <2>1. LooseRow(b.rows[r]) /\ left_for(b, r) \in Nat
    BY LeftIsNat DEF SoundOncePriced
  <2>2. CASE Owner[r] \in members /\ Active(b.rows[r])
    BY <2>1, <2>2, Pricing DEF PricedRows
  <2>3. CASE ~ (Owner[r] \in members /\ Active(b.rows[r]))
    BY <2>3 DEF PricedRows, SoundOncePriced, Same
  <2>4. QED
    BY <2>2, <2>3
<1>2. rebalance(b, members) = [b EXCEPT !.rows = rows] /\ b \in Books
  BY DEF rebalance, SoundOncePriced, PricedRows
<1>3. rows \in [Requests -> Rows]
  BY <1>1 DEF SoundRow, LooseRow, PricedRows
<1> HIDE DEF rows
<1>4. QED
  BY <1>1, <1>2, <1>3 DEF Books, rows

\* So the book stays sound, and other members' rows are as they were.
LEMMA Rebalancing ==
  ASSUME NEW b, NEW members, SoundOncePriced(b, members)
  PROVE  /\ Sound(rebalance(b, members))
         /\ rebalance(b, members).holidays = b.holidays
         /\ rebalance(b, members).adjusted = b.adjusted
         /\ \A r \in Requests :
              /\ Same(rebalance(b, members).rows[r], b.rows[r])
              /\ Owner[r] \notin members => rebalance(b, members).rows[r] = b.rows[r]
<1>1. \A r \in Requests : Owner[r] \notin members => PricedRows(b, members)[r] = b.rows[r]
  BY DEF PricedRows
<1>2. QED
  BY <1>1, RebalancedRows DEF Sound

\* A sound book is sound, whoever is priced again.
LEMMA SoundIsSound ==
  ASSUME NEW b, Sound(b), NEW members
  PROVE  SoundOncePriced(b, members)
BY DEF Sound, SoundOncePriced, SoundRow

\* What a member sees after a rebalance follows from what it saw before.
LEMMA RebalanceIsLocal ==
  ASSUME NEW b, NEW c, NEW m, AgreeOn(b, c, m),
         NEW members, NEW others, m \in members <=> m \in others,
         SoundOncePriced(b, members), SoundOncePriced(c, others)
  PROVE  AgreeOn(rebalance(b, members), rebalance(c, others), m)
<1> DEFINE rb == rebalance(b, members)
           rc == rebalance(c, others)
<1>1. rb.adjusted = b.adjusted /\ rb.rows = PricedRows(b, members)
  BY RebalancedRows
<1>2. rc.adjusted = c.adjusted /\ rc.rows = PricedRows(c, others)
  BY RebalancedRows
<1> HIDE DEF rb, rc
<1>3. ASSUME NEW r \in Requests, Owner[r] = m PROVE rb.rows[r] = rc.rows[r]
  <2>1. b.rows[r] = c.rows[r] /\ left_for(b, r) = left_for(c, r)
    BY <1>3, CostIsLocal DEF AgreeOn
  <2>2. QED
    BY <1>1, <1>2, <1>3, <2>1 DEF PricedRows
<1>4. AgreeOn(rb, rc, m)
  BY <1>1, <1>2, <1>3 DEF AgreeOn
<1>5. QED
  BY <1>4 DEF rb, rc

\* The request's own paid days are released, and it is priced beside the others.
LEMMA Repricing ==
  ASSUME NEW b, Sound(b), NEW r \in Requests, NEW c, c = reprice(b, r)
  PROVE  /\ Sound(c) /\ c.holidays = b.holidays /\ c.adjusted = b.adjusted
         /\ Same(c.rows[r], b.rows[r])
         /\ \A q \in Requests : q # r => c.rows[q] = b.rows[q]
<1> DEFINE days == b.rows[r].days
           released == [b EXCEPT !.rows[r].lop = days]
           paid == available(released, Owner[r])
           row == [b.rows[r] EXCEPT !.lop = UnpaidOf(days, paid)]
<1>1. b \in Books /\ SoundRow(b.rows[r]) /\ LooseRow(b.rows[r])
  BY DEF Sound, SoundRow
<1>2. released = Put(b, r, [b.rows[r] EXCEPT !.lop = days])
  BY <1>1 DEF Books, Put
<1>3. SoundRow([b.rows[r] EXCEPT !.lop = days])
  BY <1>1, Bounds DEF SoundRow, LooseRow, Rows
<1> HIDE DEF released
<1>4. released \in Books
  BY <1>2, <1>3, Replacing DEF Sound
<1>5. paid \in Nat
  BY <1>4, LeftIsNat, Bounds
<1>6. SoundRow(row) /\ Same(row, b.rows[r])
  BY <1>1, <1>5, Pricing
<1>7. c = Put(b, r, row)
  BY <1>1 DEF reprice, released, Books, Put
<1> HIDE DEF row, paid, days
<1>8. /\ Sound(c) /\ c.rows[r] = row /\ c.holidays = b.holidays /\ c.adjusted = b.adjusted
      /\ \A q \in Requests : q # r => c.rows[q] = b.rows[q]
  BY <1>6, <1>7, Replacing
<1>9. QED
  BY <1>6, <1>8

\* What a member sees after a price follows from what it saw before.
LEMMA RepriceIsLocal ==
  ASSUME NEW b, Sound(b), NEW c, Sound(c), NEW r \in Requests, AgreeOn(b, c, Owner[r])
  PROVE  AgreeOn(reprice(b, r), reprice(c, r), Owner[r])
<1> DEFINE m == Owner[r]
           rb == [b EXCEPT !.rows[r].lop = b.rows[r].days]
           rc == [c EXCEPT !.rows[r].lop = c.rows[r].days]
<1>1. b \in Books /\ c \in Books /\ b.rows[r] = c.rows[r]
  BY DEF Sound, AgreeOn
<1>2. AgreeOn(rb, rc, m)
  BY <1>1 DEF AgreeOn, Books
<1>3. available(rb, m) = available(rc, m)
  BY <1>2, CostIsLocal
<1>4. /\ reprice(b, r) = [b EXCEPT !.rows[r].lop = UnpaidOf(b.rows[r].days, available(rb, m))]
      /\ reprice(c, r) = [c EXCEPT !.rows[r].lop = UnpaidOf(c.rows[r].days, available(rc, m))]
  BY DEF reprice
<1> HIDE DEF rb, rc
<1>5. QED
  BY <1>1, <1>3, <1>4 DEF AgreeOn, Books

\* What one operation may make of the row it is about.
Apart(b, r, from, to) ==
    \A q \in Requests :
        (q # r /\ Owner[q] = Owner[r] /\ Active(b.rows[q])) => ~ Overlap(b.rows[q], from, to)

Created(b, r, row) ==
    /\ b.rows[r].status = "none" /\ row.status \in {"pending", "approved"}
    /\ row.days = count_days(b, row.start, row.end) /\ Apart(b, r, row.start, row.end)

Approved(b, r, row) ==
    /\ b.rows[r].status = "pending" /\ row.status = "approved"
    /\ row.start = b.rows[r].start /\ row.end = b.rows[r].end /\ row.days = b.rows[r].days

Closed(b, r, row) == Active(b.rows[r]) /\ row.status \in {"rejected", "cancelled"}

Shortened(b, r, row, day) ==
    /\ NotOver(b.rows[r], day) /\ b.rows[r].start < day
    /\ row.status = "approved" /\ row.start = b.rows[r].start /\ row.end = day - 1

Moved(b, r, row, day) ==
    /\ NotOver(b.rows[r], day) /\ row.status = "approved"
    /\ IF b.rows[r].start >= day
       THEN /\ row.start >= day /\ row.days = count_days(b, row.start, row.end)
            /\ Apart(b, r, row.start, row.end)
       ELSE /\ row.start = b.rows[r].start
            /\ row.end <= b.rows[r].end \/ Apart(b, r, b.rows[r].end + 1, row.end)

\* It leaves the other rows as they are but for what is paid of them, and other
\* members' altogether.
Frame(b, c, m) ==
    c.holidays = b.holidays /\ \A n \in Members : n # m => AgreeOn(c, b, n)

Others(b, c, r) == \A q \in Requests : q # r => Same(c.rows[q], b.rows[q])

Touches(b, c, r) == Sound(c) /\ Frame(b, c, Owner[r]) /\ c.adjusted = b.adjusted /\ Others(b, c, r)

\* Replacing a row touches that.
LEMMA PutTouches ==
  ASSUME NEW b, Sound(b), NEW r \in Requests, NEW row, SoundRow(row)
  PROVE  Touches(b, Put(b, r, row), r) /\ Put(b, r, row).rows[r] = row
<1> DEFINE p == Put(b, r, row)
<1>1. /\ Sound(p) /\ p.rows[r] = row /\ p.holidays = b.holidays /\ p.adjusted = b.adjusted
      /\ \A q \in Requests : q # r => p.rows[q] = b.rows[q]
  BY Replacing
<1> HIDE DEF p
<1>2. Touches(b, p, r)
  BY <1>1 DEF Touches, Frame, Others, AgreeOn, Same
<1>3. QED
  BY <1>1, <1>2 DEF p

\* Pricing the member's leave again after that touches no more.
LEMMA RebalanceTouches ==
  ASSUME NEW b, NEW p, NEW r \in Requests, Touches(b, p, r)
  PROVE  /\ Touches(b, rebalance(p, {Owner[r]}), r)
         /\ Same(rebalance(p, {Owner[r]}).rows[r], p.rows[r])
<1> DEFINE mine == {Owner[r]}
           c == rebalance(p, mine)
<1> HIDE DEF mine
<1>1. /\ Sound(c) /\ c.holidays = p.holidays /\ c.adjusted = p.adjusted
      /\ \A q \in Requests : /\ Same(c.rows[q], p.rows[q])
                             /\ Owner[q] \notin mine => c.rows[q] = p.rows[q]
  BY Rebalancing, SoundIsSound DEF Touches
<1> HIDE DEF c
<1>2. \A n \in Members : n # Owner[r] => AgreeOn(c, b, n)
  BY <1>1 DEF AgreeOn, Touches, Frame, mine
<1>3. Touches(b, c, r)
  BY <1>1, <1>2 DEF Touches, Frame, Others, Same
<1>4. QED
  BY <1>1, <1>3 DEF c, mine

\* A submit adds a row that is apart from the member's others.
LEMMA Submitting ==
  ASSUME NEW b, Sound(b), NEW r \in Requests, NEW from \in Days, NEW to \in Days, from <= to,
         NEW day \in Days, NEW c \in submit(b, r, from, to, day)
  PROVE  Touches(b, c, r) /\ Created(b, r, c.rows[r])
<1> DEFINE days == count_days(b, from, to)
           lop == UnpaidOf(days, available(b, Owner[r]))
           row == [status |-> IF AutoApprove /\ lop = 0 THEN "approved" ELSE "pending",
                   start |-> from, end |-> to, days |-> days, lop |-> lop]
<1>1. /\ b.rows[r].status = "none" /\ Acceptable(b, Owner[r], from, to, day)
      /\ c = Put(b, r, row)
  BY DEF submit, Put
<1>2. days \in 0 .. to - from + 1 /\ from \in 1 .. LastDay /\ to \in 1 .. LastDay /\ LastDay \in Nat
  BY CountBounds, Bounds
<1>3. available(b, Owner[r]) \in Nat
  BY LeftIsNat, Bounds DEF Sound
<1>4. lop \in 0 .. days
  <2>1. days \in Nat
    BY <1>2
  <2> HIDE DEF days
  <2>2. QED
    BY <1>3, <2>1, UnpaidBounds
<1>5. /\ row.status \in {"approved", "pending"} /\ row.start = from /\ row.end = to
      /\ row.days = days /\ row.lop = lop
  OBVIOUS
<1> HIDE DEF days, lop
<1>6. SoundRow(row)
  BY <1>2, <1>4, Bounds DEF SoundRow, LooseRow, Rows, Status
<1>7. Apart(b, r, from, to)
  BY <1>1 DEF Acceptable, Apart, Booked
<1> HIDE DEF row
<1>8. Touches(b, c, r) /\ c.rows[r] = row
  <2>1. Touches(b, Put(b, r, row), r) /\ Put(b, r, row).rows[r] = row
    BY <1>6, PutTouches
  <2>2. QED
    BY <1>1, <2>1
<1>9. QED
  BY <1>1, <1>5, <1>7, <1>8 DEF Created, days

\* A decision, and the withdrawal of a request that waits.
LEMMA Deciding ==
  ASSUME NEW b, Sound(b), NEW r \in Requests, b.rows[r].status = "pending"
  PROVE  /\ \A c \in approve(b, r) : Touches(b, c, r) /\ Approved(b, r, c.rows[r])
         /\ \A status \in {"rejected", "cancelled"} :
              LET c == rebalance([b EXCEPT !.rows[r].status = status], {Owner[r]})
              IN Touches(b, c, r) /\ Closed(b, r, c.rows[r])
<1>1. b \in Books /\ SoundRow(b.rows[r])
  BY DEF Sound
<1>2. ASSUME NEW c \in approve(b, r)
      PROVE  Touches(b, c, r) /\ Approved(b, r, c.rows[r])
  <2> DEFINE p == reprice(b, r)
             row == [p.rows[r] EXCEPT !.status = "approved"]
  <2>1. /\ Sound(p) /\ p.holidays = b.holidays /\ p.adjusted = b.adjusted
        /\ Same(p.rows[r], b.rows[r])
        /\ \A q \in Requests : q # r => p.rows[q] = b.rows[q]
    BY Repricing
  <2>2. c = [p EXCEPT !.rows[r].status = "approved"]
    BY DEF approve
  <2> HIDE DEF p
  <2>3. SoundRow(row) /\ row.status = "approved" /\ row.start = p.rows[r].start
          /\ row.end = p.rows[r].end /\ row.days = p.rows[r].days
    BY <2>1 DEF Sound, SoundRow, LooseRow, Rows, Status
  <2>4. c = Put(p, r, row)
    BY <2>1, <2>2 DEF Put, Sound, Books
  <2> HIDE DEF row
  <2>5. Touches(p, c, r) /\ c.rows[r] = row
    <3>1. Touches(p, Put(p, r, row), r) /\ Put(p, r, row).rows[r] = row
      BY <2>1, <2>3, PutTouches
    <3>2. QED
      BY <2>4, <3>1
  <2>6. Touches(b, c, r)
    BY <2>1, <2>5 DEF Touches, Frame, AgreeOn, Others, Same
  <2>7. QED
    BY <2>1, <2>3, <2>5, <2>6 DEF Approved, Same
<1>3. ASSUME NEW status \in {"rejected", "cancelled"},
             NEW c, c = rebalance([b EXCEPT !.rows[r].status = status], {Owner[r]})
      PROVE  Touches(b, c, r) /\ Closed(b, r, c.rows[r])
  <2> DEFINE row == [b.rows[r] EXCEPT !.status = status]
  <2>1. SoundRow(row) /\ row.status = status
    BY <1>1 DEF SoundRow, LooseRow, Rows, Status
  <2>2. c = rebalance(Put(b, r, row), {Owner[r]})
    BY <1>1, <1>3 DEF Put, Books
  <2> HIDE DEF row
  <2>3. Touches(b, Put(b, r, row), r) /\ Put(b, r, row).rows[r] = row
    BY <2>1, PutTouches
  <2>4. Touches(b, c, r) /\ Same(c.rows[r], row)
    BY <2>2, <2>3, RebalanceTouches
  <2>5. QED
    BY <2>1, <2>4 DEF Closed, Same, Active
<1>4. QED
  BY <1>2, <1>3

\* The row that is left of leave that is ended before its time.
EndedRow(b, r, status, day) ==
    LET row   == b.rows[r]
        taken == IF row.start < day THEN count_days(b, row.start, day - 1) ELSE 0
        kept  == [row EXCEPT !.end = day - 1, !.days = taken,
                             !.lop = Max({0, row.lop - (row.days - taken)})]
    IN IF taken = 0 THEN [row EXCEPT !.status = status] ELSE kept

\* It keeps the days already taken, or is closed.
LEMMA RowsEnd ==
  ASSUME NEW b, Sound(b), NEW r \in Requests, NEW status \in {"rejected", "cancelled"},
         NEW day \in Days, NotOver(b.rows[r], day),
         NEW ended, ended = EndedRow(b, r, status, day)
  PROVE  SoundRow(ended) /\ (Closed(b, r, ended) \/ Shortened(b, r, ended, day))
<1> DEFINE row == b.rows[r]
           taken == IF row.start < day THEN count_days(b, row.start, day - 1) ELSE 0
           lop == Max({0, row.lop - (row.days - taken)})
           kept == [row EXCEPT !.end = day - 1, !.days = taken, !.lop = lop]
           closed == [row EXCEPT !.status = status]
<1>1. b \in Books /\ SoundRow(row)
  BY DEF Sound
<1>2. /\ row.start \in 1 .. LastDay /\ row.end \in 1 .. LastDay /\ LastDay \in Nat
      /\ row.days \in 0 .. LastDay /\ row.lop \in 0 .. LastDay /\ row.lop <= row.days
      /\ day \in 1 .. LastDay /\ row.end >= day /\ row.status = "approved"
  BY <1>1, Bounds DEF SoundRow, LooseRow, Rows, NotOver
<1>3. ended = IF taken = 0 THEN closed ELSE kept
  BY DEF EndedRow
<1> HIDE DEF row
<1>4. taken \in 0 .. (IF row.start < day THEN day - row.start ELSE 0)
  <2>1. CASE row.start < day
    <3>1. count_days(b, row.start, day - 1)
            \in 0 .. (IF row.start <= day - 1 THEN day - 1 - row.start + 1 ELSE 0)
      BY <1>2, CountBounds
    <3>2. QED
      BY <1>2, <2>1, <3>1
  <2>2. CASE ~ (row.start < day)
    BY <2>2
  <2>3. QED
    BY <2>1, <2>2
<1> HIDE DEF taken
<1>5. lop \in 0 .. taken
  <2>1. taken \in Nat /\ row.lop - (row.days - taken) \in Int
    BY <1>2, <1>4
  <2>2. lop = IF 0 >= row.lop - (row.days - taken) THEN 0 ELSE row.lop - (row.days - taken)
    BY <2>1, MaxMin
  <2> HIDE DEF lop
  <2>3. QED
    BY <1>2, <2>1, <2>2
<1> HIDE DEF lop
<1>6. closed.status = status /\ SoundRow(closed)
  BY <1>1 DEF SoundRow, LooseRow, Rows, Status
<1>7. CASE taken = 0
  BY <1>2, <1>3, <1>6, <1>7 DEF Closed, Active, row
<1>8. CASE taken # 0
  <2>1. ended = kept
    BY <1>3, <1>8
  <2>2. row.start < day /\ taken \in 1 .. day - row.start
    BY <1>2, <1>4, <1>8
  <2>3. row \in Rows
    BY <1>1 DEF SoundRow, LooseRow
  <2>4. /\ kept.status = row.status /\ kept.start = row.start /\ kept.end = day - 1
        /\ kept.days = taken /\ kept.lop = lop
    BY <2>3 DEF Rows
  <2>5. kept \in Rows
    <3>1. day - 1 \in Days /\ taken \in 0 .. LastDay /\ lop \in 0 .. LastDay
      BY <1>2, <1>5, <2>2, Bounds
    <3>2. QED
      BY <2>3, <3>1 DEF Rows
  <2>6. SoundRow(kept)
    BY <1>2, <1>5, <2>2, <2>4, <2>5 DEF SoundRow, LooseRow
  <2> HIDE DEF kept
  <2>7. QED
    BY <1>2, <2>1, <2>2, <2>4, <2>6, NotOver(b.rows[r], day) DEF Shortened, row
<1>9. QED
  BY <1>7, <1>8

\* So does the operation that ends it.
LEMMA Ending ==
  ASSUME NEW b, Sound(b), NEW r \in Requests, NEW status \in {"rejected", "cancelled"},
         NEW day \in Days, NotOver(b.rows[r], day),
         NEW c, c = EndedBy(b, r, status, day)
  PROVE  Touches(b, c, r) /\ (Closed(b, r, c.rows[r]) \/ Shortened(b, r, c.rows[r], day))
<1> DEFINE ended == EndedRow(b, r, status, day)
<1>1. c = rebalance(Put(b, r, ended), {Owner[r]})
  BY DEF EndedBy, EndedRow, Put
<1> HIDE DEF ended
<1>2. SoundRow(ended) /\ (Closed(b, r, ended) \/ Shortened(b, r, ended, day))
  BY RowsEnd DEF ended
<1>3. Touches(b, Put(b, r, ended), r) /\ Put(b, r, ended).rows[r] = ended
  BY <1>2, PutTouches
<1>4. Touches(b, c, r) /\ Same(c.rows[r], ended)
  BY <1>1, <1>3, RebalanceTouches
<1>5. QED
  BY <1>2, <1>4 DEF Closed, Shortened, Same

\* The dates that a move accepts are apart from the member's other leave.
LEMMA AcceptedMove ==
  ASSUME NEW b, Sound(b), NEW r \in Requests, NEW from \in Days, NEW to \in Days, from <= to,
         NEW day \in Days, MayMove(b, r, from, to, day)
  PROVE  LET days == DaysOfMove(b, r, from, to, day)
         IN /\ days \in 0 .. to - from + 1
            /\ IF b.rows[r].start >= day
               THEN from >= day /\ days = count_days(b, from, to) /\ Apart(b, r, from, to)
               ELSE /\ from = b.rows[r].start
                    /\ to <= b.rows[r].end \/ Apart(b, r, b.rows[r].end + 1, to)
<1> DEFINE row == b.rows[r]
           aside == [b EXCEPT !.rows[r].status = "cancelled"]
           days == DaysOfMove(b, r, from, to, day)
<1>1. /\ b \in Books /\ SoundRow(row) /\ days > 0
      /\ row.start \in 1 .. LastDay /\ row.end \in 1 .. LastDay /\ LastDay \in Nat
      /\ from \in 1 .. LastDay /\ to \in 1 .. LastDay /\ day \in 1 .. LastDay
      /\ row.days \in Nat /\ row.days <= row.end - row.start + 1
  BY Bounds DEF Sound, MayMove, SoundRow, LooseRow, Rows
<1>2. count_days(b, from, to) \in 0 .. to - from + 1
  BY <1>1, CountBounds
<1>3. CASE row.start >= day
  <2>1. from >= day /\ Acceptable(aside, Owner[r], from, to, day) /\ days = count_days(b, from, to)
    BY <1>1, <1>3 DEF DaysOfMove
  <2>2. \A q \in Requests : q # r => aside.rows[q] = b.rows[q]
    BY <1>1 DEF Books
  <2>3. Apart(b, r, from, to)
    BY <2>1, <2>2 DEF Acceptable, Apart, Booked
  <2>4. QED
    BY <1>2, <1>3, <2>1, <2>3
<1>4. CASE ~ (row.start >= day)
  <2>1. from = row.start
    BY <1>1, <1>4 DEF DaysOfMove
  <2>2. CASE to <= row.end
    <3>1. days = count_days(b, from, to)
      BY <1>1, <1>4, <2>2 DEF DaysOfMove
    <3>2. QED
      BY <1>2, <1>4, <2>1, <2>2, <3>1
  <2>3. CASE ~ (to <= row.end)
    <3>1. /\ Acceptable(b, Owner[r], row.end + 1, to, day)
          /\ days = row.days + count_days(b, row.end + 1, to)
      BY <1>1, <1>4, <2>3 DEF DaysOfMove
    <3>2. count_days(b, row.end + 1, to)
            \in 0 .. (IF row.end + 1 <= to THEN to - (row.end + 1) + 1 ELSE 0)
      BY <1>1, CountBounds
    <3>3. Apart(b, r, row.end + 1, to)
      BY <3>1 DEF Acceptable, Apart, Booked
    <3> HIDE DEF days
    <3>4. days \in 0 .. to - from + 1
      BY <1>1, <2>1, <2>3, <3>1, <3>2
    <3>5. QED
      BY <1>4, <2>1, <3>3, <3>4 DEF days
  <2>4. QED
    BY <2>2, <2>3
<1>5. QED
  BY <1>3, <1>4

\* The row that is moved, before it is priced again.
MovedRow(b, r, from, to, day) ==
    [b.rows[r] EXCEPT !.start = from, !.end = to, !.days = DaysOfMove(b, r, from, to, day)]

\* A move takes the dates it was accepted for.
LEMMA RowsMove ==
  ASSUME NEW b, Sound(b), NEW r \in Requests, NEW from \in Days, NEW to \in Days, from <= to,
         NEW day \in Days, MayMove(b, r, from, to, day), Storable(b, r, from, to, day),
         NEW row, row = MovedRow(b, r, from, to, day)
  PROVE  SoundRow(row) /\ Moved(b, r, row, day)
<1> DEFINE days == DaysOfMove(b, r, from, to, day)
<1>1. SoundRow(b.rows[r]) /\ b.rows[r] \in Rows /\ days >= b.rows[r].lop
  BY DEF Sound, SoundRow, LooseRow, Storable
<1>2. days \in 0 .. to - from + 1
  BY AcceptedMove
<1>3. IF b.rows[r].start >= day
      THEN from >= day /\ days = count_days(b, from, to) /\ Apart(b, r, from, to)
      ELSE /\ from = b.rows[r].start
           /\ to <= b.rows[r].end \/ Apart(b, r, b.rows[r].end + 1, to)
  BY AcceptedMove
<1>4. row = [b.rows[r] EXCEPT !.start = from, !.end = to, !.days = days]
  BY DEF MovedRow
<1> HIDE DEF days
<1>5. /\ row.status = b.rows[r].status /\ row.start = from /\ row.end = to /\ row.days = days
      /\ row.lop = b.rows[r].lop
  BY <1>1, <1>4 DEF Rows
<1>6. row \in Rows
  <2>1. days \in 0 .. LastDay
    BY <1>2, Bounds
  <2>2. QED
    BY <1>1, <1>4, <2>1 DEF Rows
<1>7. SoundRow(row)
  BY <1>1, <1>2, <1>5, <1>6 DEF SoundRow, LooseRow
<1>8. row.status = "approved"
  BY <1>5 DEF MayMove, NotOver
<1>9. Moved(b, r, row, day)
  BY <1>3, <1>5, <1>8 DEF Moved, MayMove
<1>10. QED
  BY <1>7, <1>9

\* So does the operation that moves it.
LEMMA Moving ==
  ASSUME NEW b, Sound(b), NEW r \in Requests, NEW from \in Days, NEW to \in Days, from <= to,
         NEW day \in Days, NEW c \in reschedule(b, r, from, to, day)
  PROVE  Touches(b, c, r) /\ Moved(b, r, c.rows[r], day)
<1> DEFINE row == MovedRow(b, r, from, to, day)
           put == Put(b, r, row)
<1>1. b \in Books /\ MayMove(b, r, from, to, day) /\ Storable(b, r, from, to, day)
  BY DEF Sound, reschedule
<1>2. c = rebalance(reprice(put, r), {Owner[r]})
  BY <1>1 DEF reschedule, MovedRow, Put, Books
<1> HIDE DEF row
<1>3. SoundRow(row) /\ Moved(b, r, row, day)
  BY <1>1, RowsMove DEF row
<1>4. Touches(b, put, r) /\ put.rows[r] = row
  BY <1>3, PutTouches
<1> HIDE DEF put
<1> DEFINE p == reprice(put, r)
<1>5. /\ Sound(p) /\ p.holidays = put.holidays /\ p.adjusted = put.adjusted
      /\ Same(p.rows[r], put.rows[r])
      /\ \A q \in Requests : q # r => p.rows[q] = put.rows[q]
  BY <1>4, Repricing DEF Touches
<1> HIDE DEF p
<1>6. Touches(b, p, r)
  BY <1>4, <1>5 DEF Touches, Frame, AgreeOn, Others, Same
<1>7. Touches(b, c, r) /\ Same(c.rows[r], p.rows[r])
  BY <1>2, <1>6, RebalanceTouches DEF p
<1>8. Same(c.rows[r], row)
  BY <1>4, <1>5, <1>7 DEF Same
<1>9. QED
  BY <1>3, <1>7, <1>8 DEF Moved, Same

\* What an operation of one member's leave may make of a book.
OneMembers(o, b, c, day) ==
    /\ Sound(c) /\ Frame(b, c, MemberOf(o))
    /\ o.kind # "adjust" => c.adjusted = b.adjusted
    /\ o.kind = "adjust" => \A q \in Requests : Same(c.rows[q], b.rows[q])
    /\ o.kind # "adjust" => Others(b, c, o.req)
    /\ o.kind = "submit" => Created(b, o.req, c.rows[o.req])
    /\ o.kind = "approve" => Approved(b, o.req, c.rows[o.req])
    /\ o.kind = "reject" => Closed(b, o.req, c.rows[o.req])
    /\ o.kind \in {"cancel", "withdraw"} =>
          Closed(b, o.req, c.rows[o.req]) \/ Shortened(b, o.req, c.rows[o.req], day)
    /\ o.kind = "reschedule" => Moved(b, o.req, c.rows[o.req], day)

\* The fields of an operation, by its kind.
LEMMA OpFields ==
  ASSUME NEW o \in Ops
  PROVE  /\ o.kind \in {"submit", "reschedule", "approve", "reject", "cancel", "withdraw"} =>
              o.req \in Requests /\ MemberOf(o) = Owner[o.req]
         /\ o.kind \in {"submit", "reschedule"} =>
              o.span[1] \in Days /\ o.span[2] \in Days /\ o.span[1] <= o.span[2]
         /\ o.kind = "adjust" => o.member \in Members /\ o.by \in Int /\ MemberOf(o) = o.member
         /\ o.kind = "calendar" =>
              /\ o.drop \in Singles \cup {{}} /\ o.add \in Singles \cup {{}} /\ o.drop # o.add
         /\ o.kind \in {"submit", "reschedule", "approve", "reject", "cancel", "withdraw",
                        "adjust", "calendar"}
<1>1. CASE o \in [kind : {"submit", "reschedule"}, req : Requests, span : Spans]
  BY <1>1 DEF MemberOf, Spans
<1>2. CASE o \in [kind : {"approve", "reject", "cancel", "withdraw"}, req : Requests]
  BY <1>2 DEF MemberOf
<1>3. CASE o \in [kind : {"adjust"}, member : Members, by : {a - c : a, c \in Adjustments} \ {0}]
  <2>1. \A a, c \in Adjustments : a - c \in Int
    <3>1. Adjustments \subseteq Int
      BY LeaveAssumption
    <3>2. QED
      BY <3>1
  <2>2. QED
    BY <1>3, <2>1 DEF MemberOf
<1>4. CASE o \in {p \in [kind : {"calendar"}, drop : Singles \cup {{}}, add : Singles \cup {{}}] :
                    p.drop # p.add}
  BY <1>4
<1>5. QED
  BY <1>1, <1>2, <1>3, <1>4 DEF Ops

\* An adjustment prices the member's leave again.
LEMMA Adjusting ==
  ASSUME NEW b, Sound(b), NEW m \in Members, NEW by \in Int, NEW c \in adjust(b, m, by)
  PROVE  /\ Sound(c) /\ Frame(b, c, m)
         /\ \A q \in Requests : Same(c.rows[q], b.rows[q])
<1> DEFINE p == [b EXCEPT !.adjusted[m] = @ + by]
           mine == {m}
<1>1. c = rebalance(p, mine) /\ b.adjusted[m] + by \in Adjustments /\ b \in Books
  BY DEF adjust, Sound
<1>2. /\ p \in Books /\ p.rows = b.rows /\ p.holidays = b.holidays
      /\ \A n \in Members : n # m => p.adjusted[n] = b.adjusted[n]
  BY <1>1 DEF Books
<1> HIDE DEF p, mine
<1>3. Sound(p)
  BY <1>2 DEF Sound
<1>4. /\ Sound(c) /\ c.holidays = p.holidays /\ c.adjusted = p.adjusted
      /\ \A q \in Requests : /\ Same(c.rows[q], p.rows[q])
                             /\ Owner[q] \notin mine => c.rows[q] = p.rows[q]
  BY <1>1, <1>3, Rebalancing, SoundIsSound
<1>5. Frame(b, c, m)
  BY <1>2, <1>4 DEF Frame, AgreeOn, mine
<1>6. QED
  BY <1>2, <1>4, <1>5

\* So it is for every operation but a change of the calendar.
LEMMA OperatingOnOne ==
  ASSUME NEW b, Sound(b), NEW o \in Ops, o.kind # "calendar", NEW day \in Days,
         NEW c \in Effect(o, b, day)
  PROVE  OneMembers(o, b, c, day)
<1> DEFINE r == o.req
<1>1. CASE o.kind = "submit"
  <2>1. c \in submit(b, r, o.span[1], o.span[2], day)
    BY <1>1 DEF Effect
  <2>2. Touches(b, c, r) /\ Created(b, r, c.rows[r])
    BY <1>1, <2>1, OpFields, Submitting
  <2>3. QED
    BY <1>1, <2>2, OpFields DEF OneMembers, Touches
<1>2. CASE o.kind = "approve"
  <2>1. c \in approve(b, r)
    BY <1>2 DEF Effect
  <2>2. b.rows[r].status = "pending"
    BY <2>1 DEF approve
  <2>3. Touches(b, c, r) /\ Approved(b, r, c.rows[r])
    BY <1>2, <2>1, <2>2, OpFields, Deciding
  <2>4. QED
    BY <1>2, <2>3, OpFields DEF OneMembers, Touches
<1>3. CASE o.kind = "reject"
  <2>1. b.rows[r].status = "pending"
          /\ c = rebalance([b EXCEPT !.rows[r].status = "rejected"], {Owner[r]})
    BY <1>3 DEF Effect, reject
  <2>2. Touches(b, c, r) /\ Closed(b, r, c.rows[r])
    BY <1>3, <2>1, OpFields, Deciding
  <2>3. QED
    BY <1>3, <2>2, OpFields DEF OneMembers, Touches
<1>4. CASE o.kind = "cancel"
  <2>1. c \in cancel(b, r, day)
    BY <1>4 DEF Effect
  <2>2. CASE b.rows[r].status = "pending"
    <3>1. c = rebalance([b EXCEPT !.rows[r].status = "cancelled"], {Owner[r]})
      BY <2>1, <2>2 DEF cancel
    <3>2. Touches(b, c, r) /\ Closed(b, r, c.rows[r])
      BY <1>4, <2>2, <3>1, OpFields, Deciding
    <3>3. QED
      BY <1>4, <3>2, OpFields DEF OneMembers, Touches
  <2>3. CASE b.rows[r].status # "pending"
    <3>1. NotOver(b.rows[r], day) /\ c = EndedBy(b, r, "cancelled", day)
      BY <2>1, <2>3 DEF cancel
    <3>2. Touches(b, c, r) /\ (Closed(b, r, c.rows[r]) \/ Shortened(b, r, c.rows[r], day))
      BY <1>4, <3>1, OpFields, Ending
    <3>3. QED
      BY <1>4, <3>2, OpFields DEF OneMembers, Touches
  <2>4. QED
    BY <2>2, <2>3
<1>5. CASE o.kind = "withdraw"
  <2>1. NotOver(b.rows[r], day) /\ c = EndedBy(b, r, "rejected", day)
    BY <1>5 DEF Effect, withdraw
  <2>2. Touches(b, c, r) /\ (Closed(b, r, c.rows[r]) \/ Shortened(b, r, c.rows[r], day))
    BY <1>5, <2>1, OpFields, Ending
  <2>3. QED
    BY <1>5, <2>2, OpFields DEF OneMembers, Touches
<1>6. CASE o.kind = "reschedule"
  <2>1. c \in reschedule(b, r, o.span[1], o.span[2], day)
    BY <1>6 DEF Effect
  <2>2. Touches(b, c, r) /\ Moved(b, r, c.rows[r], day)
    BY <1>6, <2>1, OpFields, Moving
  <2>3. QED
    BY <1>6, <2>2, OpFields DEF OneMembers, Touches
<1>7. CASE o.kind = "adjust"
  <2>1. c \in adjust(b, o.member, o.by)
    BY <1>7 DEF Effect
  <2>2. Sound(c) /\ Frame(b, c, o.member) /\ \A q \in Requests : Same(c.rows[q], b.rows[q])
    BY <1>7, <2>1, OpFields, Adjusting
  <2>3. QED
    BY <1>7, <2>2, OpFields DEF OneMembers
<1>8. QED
  BY <1>1, <1>2, <1>3, <1>4, <1>5, <1>6, <1>7, OpFields

\* A change of the calendar counts the open requests again, under the new holidays, and
\* prices the leave of their owners again.
Recounted(b, c, o, day) ==
    /\ MayChange(b, o.drop, o.add) /\ Sound(c)
    /\ c.holidays = (b.holidays \ o.drop) \cup o.add /\ c.adjusted = b.adjusted
    /\ \A r \in Requests :
          /\ c.rows[r].status = b.rows[r].status
          /\ c.rows[r].start = b.rows[r].start /\ c.rows[r].end = b.rows[r].end
          /\ c.rows[r].days =
                IF r \in open_for_policy_from(b, Min(o.drop \cup o.add), day)
                THEN count_days(c, b.rows[r].start, b.rows[r].end) ELSE b.rows[r].days
          /\ Owner[r] \notin Affected(b, o.drop, o.add, day) => c.rows[r] = b.rows[r]

\* The book that a change of the calendar prices.
Counted(b, o, day) ==
    LET after == Changed(b, o.drop, o.add)
    IN [after EXCEPT !.rows = [r \in Requests |->
          IF r \in open_for_policy_from(b, Min(o.drop \cup o.add), day)
          THEN [after.rows[r] EXCEPT
                  !.days = count_days(after, after.rows[r].start, after.rows[r].end)]
          ELSE after.rows[r]]]

\* Its rows are as they should be, but for what is paid of the open ones.
LEMMA Counting ==
  ASSUME NEW b, Sound(b), NEW o \in Ops, o.kind = "calendar", NEW day \in Days,
         NEW k, k = Counted(b, o, day)
  PROVE  /\ SoundOncePriced(k, Affected(b, o.drop, o.add, day))
         /\ k.holidays = (b.holidays \ o.drop) \cup o.add /\ k.adjusted = b.adjusted
         /\ \A r \in Requests :
              IF r \in open_for_policy_from(b, Min(o.drop \cup o.add), day)
              THEN k.rows[r] = [b.rows[r] EXCEPT
                                  !.days = count_days(k, b.rows[r].start, b.rows[r].end)]
              ELSE k.rows[r] = b.rows[r]
<1> DEFINE after == Changed(b, o.drop, o.add)
           open == open_for_policy_from(b, Min(o.drop \cup o.add), day)
           rows == [r \in Requests |->
                      IF r \in open
                      THEN [after.rows[r] EXCEPT
                              !.days = count_days(after, after.rows[r].start, after.rows[r].end)]
                      ELSE after.rows[r]]
<1>1. b \in Books /\ \A r \in Requests : SoundRow(b.rows[r]) /\ LooseRow(b.rows[r])
  BY DEF Sound, SoundRow
<1>2. /\ after.rows = b.rows /\ after.holidays = (b.holidays \ o.drop) \cup o.add
      /\ after.adjusted = b.adjusted /\ after \in Books
  <2>1. o.add \subseteq HolidayDays
    BY OpFields DEF Singles
  <2>2. QED
    BY <1>1, <2>1 DEF Changed, Books
<1>3. k = [after EXCEPT !.rows = rows]
  BY DEF Counted
<1>4. open \subseteq Requests /\ \A r \in open : Active(b.rows[r]) /\ Owner[r] \in Affected(b, o.drop, o.add, day)
  BY DEF open_for_policy_from, Active, Affected
<1> HIDE DEF after, open
<1>5. ASSUME NEW r \in Requests
      PROVE  /\ LooseRow(rows[r])
             /\ r \in open => rows[r].status = b.rows[r].status
             /\ r \notin open => rows[r] = b.rows[r]
  <2> DEFINE days == count_days(after, b.rows[r].start, b.rows[r].end)
  <2>1. /\ LooseRow(b.rows[r]) /\ b.rows[r] \in Rows /\ b.rows[r].start \in 1 .. LastDay
        /\ b.rows[r].end \in 1 .. LastDay /\ b.rows[r].start <= b.rows[r].end /\ LastDay \in Nat
    BY <1>1, Bounds DEF LooseRow, Rows
  <2>2. days \in 0 .. b.rows[r].end - b.rows[r].start + 1
    BY <2>1, CountBounds
  <2>3. days \in 0 .. LastDay
    BY <2>1, <2>2
  <2> HIDE DEF days
  <2>4. LooseRow([b.rows[r] EXCEPT !.days = days])
    BY <2>1, <2>2, <2>3 DEF LooseRow, Rows
  <2>5. [b.rows[r] EXCEPT !.days = days].status = b.rows[r].status
    BY <2>1 DEF Rows
  <2>6. rows[r] = IF r \in open THEN [b.rows[r] EXCEPT !.days = days] ELSE b.rows[r]
    BY <1>2 DEF days
  <2>7. QED
    BY <2>1, <2>4, <2>5, <2>6
<1>6. rows \in [Requests -> Rows]
  BY <1>5 DEF LooseRow
<1>7. \A r \in open : rows[r] = [b.rows[r] EXCEPT
                                   !.days = count_days(after, b.rows[r].start, b.rows[r].end)]
  BY <1>2, <1>4
<1> HIDE DEF rows
<1>8. k.rows = rows /\ k.holidays = after.holidays /\ k.adjusted = after.adjusted /\ k \in Books
  BY <1>2, <1>3, <1>6 DEF Books
<1>9. \A r \in open : k.rows[r] = [b.rows[r] EXCEPT
                                     !.days = count_days(k, b.rows[r].start, b.rows[r].end)]
  BY <1>7, <1>8 DEF count_days
<1>10. \A r \in Requests : SoundRow(k.rows[r])
                             \/ (Owner[r] \in Affected(b, o.drop, o.add, day) /\ Active(k.rows[r]))
  BY <1>1, <1>4, <1>5, <1>8 DEF Active
<1>11. SoundOncePriced(k, Affected(b, o.drop, o.add, day))
  BY <1>5, <1>8, <1>10 DEF SoundOncePriced
<1>12. QED
  BY <1>2, <1>5, <1>8, <1>9, <1>11 DEF open

\* A change of the calendar does what it should.
LEMMA Recounting ==
  ASSUME NEW b, Sound(b), NEW o \in Ops, o.kind = "calendar", NEW day \in Days,
         NEW c \in Effect(o, b, day)
  PROVE  Recounted(b, c, o, day)
<1> DEFINE k == Counted(b, o, day)
           members == Affected(b, o.drop, o.add, day)
           open == open_for_policy_from(b, Min(o.drop \cup o.add), day)
<1>1. c \in recount_requests(b, o.drop, o.add, day)
  BY DEF Effect
<1>2. MayChange(b, o.drop, o.add) /\ c = rebalance(k, members)
  BY <1>1 DEF recount_requests, Counted, Affected
<1>3. /\ SoundOncePriced(k, members)
      /\ k.holidays = (b.holidays \ o.drop) \cup o.add /\ k.adjusted = b.adjusted
      /\ \A r \in Requests :
           IF r \in open
           THEN k.rows[r] = [b.rows[r] EXCEPT
                               !.days = count_days(k, b.rows[r].start, b.rows[r].end)]
           ELSE k.rows[r] = b.rows[r]
  BY Counting
<1>4. \A r \in open : Owner[r] \in members
  BY DEF Affected
<1> HIDE DEF k, members
<1>5. /\ Sound(c) /\ c.holidays = k.holidays /\ c.adjusted = k.adjusted
      /\ \A r \in Requests : /\ Same(c.rows[r], k.rows[r])
                             /\ Owner[r] \notin members => c.rows[r] = k.rows[r]
  BY <1>2, <1>3, Rebalancing
<1>6. ASSUME NEW r \in Requests
      PROVE  /\ c.rows[r].status = b.rows[r].status
             /\ c.rows[r].start = b.rows[r].start /\ c.rows[r].end = b.rows[r].end
             /\ c.rows[r].days = IF r \in open
                                 THEN count_days(c, b.rows[r].start, b.rows[r].end)
                                 ELSE b.rows[r].days
             /\ Owner[r] \notin members => c.rows[r] = b.rows[r]
  <2>1. b.rows[r] \in Rows
    BY DEF Sound, SoundRow, LooseRow
  <2>2. CASE r \in open
    <3>1. count_days(k, b.rows[r].start, b.rows[r].end) = count_days(c, b.rows[r].start, b.rows[r].end)
      BY <1>5 DEF count_days
    <3>2. QED
      BY <1>3, <1>4, <1>5, <2>1, <2>2, <3>1 DEF Same, Rows
  <2>3. CASE r \notin open
    BY <1>3, <1>5, <2>3 DEF Same
  <2>4. QED
    BY <2>2, <2>3
<1>7. QED
  BY <1>2, <1>3, <1>5, <1>6 DEF Recounted, members

-----------------------------------------------------------------------------
(* What every operation keeps of a book.                                        *)

Disjoint(b) ==
    \A r, s \in Requests :
        (r # s /\ Owner[r] = Owner[s] /\ Active(b.rows[r]) /\ Active(b.rows[s]))
            => ~ Overlap(b.rows[r], b.rows[s].start, b.rows[s].end)

CountOn(holidays, from, to) == Cardinality((from .. to) \ holidays)

\* The days of the rows that wait or have not begun, counted on some holidays.
Follows(rows, holidays, now) ==
    \A r \in Requests :
        rows[r].status = "pending" \/ (rows[r].status = "approved" /\ rows[r].start >= now)
            => rows[r].days = CountOn(holidays, rows[r].start, rows[r].end)

\* The dates of a sound book are numbers.
LEMMA Dates ==
  ASSUME NEW b, Sound(b), NEW r \in Requests
  PROVE  b.rows[r].start \in Int /\ b.rows[r].end \in Int /\ b.rows[r].start <= b.rows[r].end
<1>1. b.rows[r] \in Rows /\ b.rows[r].start <= b.rows[r].end
  BY DEF Sound, SoundRow, LooseRow
<1>2. Days \subseteq Int
  BY Bounds
<1>3. QED
  BY <1>1, <1>2 DEF Rows

\* A book stays without double bookings when one row changes to dates apart from the
\* member's others.
LEMMA ApartIsDisjoint ==
  ASSUME NEW b, Sound(b), Disjoint(b), NEW c, Sound(c), NEW r \in Requests, Others(b, c, r),
         Active(c.rows[r]) => Apart(b, r, c.rows[r].start, c.rows[r].end)
  PROVE  Disjoint(c)
<1>1. \A q \in Requests : /\ c.rows[q].start \in Int /\ c.rows[q].end \in Int
                          /\ b.rows[q].start \in Int /\ b.rows[q].end \in Int
  BY Dates
<1> SUFFICES ASSUME NEW q \in Requests, NEW s \in Requests, q # s, Owner[q] = Owner[s],
                    Active(c.rows[q]), Active(c.rows[s])
             PROVE  ~ Overlap(c.rows[q], c.rows[s].start, c.rows[s].end)
  BY DEF Disjoint
<1>2. CASE q = r
  BY <1>1, <1>2 DEF Others, Apart, Same, Active, Overlap
<1>3. CASE s = r
  BY <1>1, <1>3 DEF Others, Apart, Same, Active, Overlap
<1>4. CASE q # r /\ s # r
  BY <1>1, <1>4 DEF Others, Disjoint, Same, Active, Overlap
<1>5. QED
  BY <1>2, <1>3, <1>4

\* No operation books a day of a member twice.
LEMMA StaysDisjoint ==
  ASSUME NEW b, Sound(b), Disjoint(b), NEW o \in Ops, NEW day \in Days, NEW c,
         (o.kind # "calendar" /\ OneMembers(o, b, c, day))
           \/ (o.kind = "calendar" /\ Recounted(b, c, o, day))
  PROVE  Disjoint(c)
<1> DEFINE r == o.req
<1>1. \A q \in Requests : /\ b.rows[q].start \in Int /\ b.rows[q].end \in Int
                          /\ b.rows[q].start <= b.rows[q].end
  BY Bounds DEF Sound, SoundRow, LooseRow, Rows
<1>2. day \in Int
  BY Bounds
<1>3. CASE o.kind = "calendar"
  BY <1>3 DEF Recounted, Disjoint, Active, Overlap
<1>4. CASE o.kind = "adjust"
  BY <1>4 DEF OneMembers, Disjoint, Active, Overlap, Same
<1>5. CASE o.kind \in {"submit", "approve", "reject", "cancel", "withdraw", "reschedule"}
  <2>1. r \in Requests /\ Sound(c) /\ Others(b, c, r)
    BY <1>5, OpFields DEF OneMembers
  <2>2. c.rows[r].start \in Int /\ c.rows[r].end \in Int /\ c.rows[r].start <= c.rows[r].end
    BY <2>1, Bounds DEF Sound, SoundRow, LooseRow, Rows
  <2>3. Active(b.rows[r]) => Apart(b, r, b.rows[r].start, b.rows[r].end)
    BY <2>1 DEF Disjoint, Apart
  <2>4. Active(c.rows[r]) => Apart(b, r, c.rows[r].start, c.rows[r].end)
    <3>1. CASE o.kind = "submit"
      BY <3>1 DEF OneMembers, Created
    <3>2. CASE o.kind = "approve"
      BY <2>3, <3>2 DEF OneMembers, Approved, Active
    <3>3. CASE Closed(b, r, c.rows[r])
      BY <3>3 DEF Closed, Active
    <3>4. CASE Shortened(b, r, c.rows[r], day)
      <4>1. /\ Active(b.rows[r]) /\ c.rows[r].start = b.rows[r].start
            /\ c.rows[r].end <= b.rows[r].end
        BY <1>1, <1>2, <2>1, <3>4 DEF Shortened, NotOver, Active
      <4>2. QED
        BY <1>1, <2>1, <2>2, <2>3, <4>1 DEF Apart, Overlap
    <3>5. CASE Moved(b, r, c.rows[r], day)
      <4>1. Active(b.rows[r])
        BY <3>5 DEF Moved, NotOver, Active
      <4>2. CASE b.rows[r].start >= day
        BY <3>5, <4>2 DEF Moved
      <4>3. CASE ~ (b.rows[r].start >= day)
        <5>1. /\ c.rows[r].start = b.rows[r].start
              /\ \/ c.rows[r].end <= b.rows[r].end
                 \/ Apart(b, r, b.rows[r].end + 1, c.rows[r].end)
          BY <3>5, <4>3 DEF Moved
        <5>2. QED
          BY <1>1, <2>1, <2>2, <2>3, <4>1, <5>1 DEF Apart, Overlap
      <4>4. QED
        BY <4>2, <4>3
    <3>6. QED
      BY <1>5, <3>1, <3>2, <3>3, <3>4, <3>5 DEF OneMembers
  <2>5. QED
    BY <2>1, <2>4, ApartIsDisjoint
<1>6. QED
  BY <1>3, <1>4, <1>5, OpFields

\* An operation of one member's leave keeps the days of what is still to come counted;
\* those that count days must have read the holidays as they are.
LEMMA OneFollows ==
  ASSUME NEW b, Sound(b), NEW o \in Ops, o.kind # "calendar", NEW day \in Days, NEW c,
         OneMembers(o, b, c, day), NEW holidays, NEW now \in Days, day <= now,
         o.kind \in {"submit", "reschedule"} => holidays = b.holidays,
         Follows(b.rows, holidays, now)
  PROVE  Follows(c.rows, holidays, now)
<1> DEFINE r == o.req
<1>1. day \in Int /\ now \in Int
  BY Bounds
<1>2. \A q \in Requests : Same(c.rows[q], b.rows[q]) =>
        (c.rows[q].status = "pending" \/ (c.rows[q].status = "approved" /\ c.rows[q].start >= now)
           => c.rows[q].days = CountOn(holidays, c.rows[q].start, c.rows[q].end))
  BY DEF Follows, Same
<1>3. CASE o.kind = "adjust"
  BY <1>2, <1>3 DEF OneMembers, Follows
<1>4. CASE o.kind \in {"submit", "approve", "reject", "cancel", "withdraw", "reschedule"}
  <2>1. r \in Requests /\ Others(b, c, r)
    BY <1>4, OpFields DEF OneMembers
  <2>2. b.rows[r].start \in Int
    BY <2>1, Bounds DEF Sound, SoundRow, LooseRow, Rows
  <2>3. c.rows[r].status = "pending" \/ (c.rows[r].status = "approved" /\ c.rows[r].start >= now)
           => c.rows[r].days = CountOn(holidays, c.rows[r].start, c.rows[r].end)
    <3>1. CASE o.kind = "submit"
      BY <3>1 DEF OneMembers, Created, count_days, CountOn
    <3>2. CASE o.kind = "approve"
      BY <2>1, <3>2 DEF OneMembers, Approved, Follows
    <3>3. CASE Closed(b, r, c.rows[r])
      BY <3>3 DEF Closed
    <3>4. CASE Shortened(b, r, c.rows[r], day)
      BY <1>1, <2>2, <3>4 DEF Shortened
    <3>5. CASE o.kind = "reschedule" /\ Moved(b, r, c.rows[r], day)
      BY <1>1, <2>2, <3>5 DEF Moved, count_days, CountOn
    <3>6. QED
      BY <1>4, <3>1, <3>2, <3>3, <3>4, <3>5 DEF OneMembers
  <2>4. QED
    BY <1>2, <2>1, <2>3 DEF Follows, Others
<1>5. QED
  BY <1>3, <1>4, OpFields

\* The first day that a change of the calendar touches.
LEMMA FirstDay ==
  ASSUME NEW o \in Ops, o.kind = "calendar"
  PROVE  /\ Min(o.drop \cup o.add) \in Int
         /\ \A d \in o.drop \cup o.add : d \in Int /\ Min(o.drop \cup o.add) <= d
<1>1. PICK x, y \in Int : o.drop \cup o.add = {x, y}
  <2>1. HolidayDays \subseteq Int
    BY Bounds
  <2>2. o.drop \in Singles \cup {{}} /\ o.add \in Singles \cup {{}} /\ o.drop # o.add
    BY OpFields
  <2>3. \A s \in Singles : \E x \in Int : s = {x}
    BY <2>1 DEF Singles
  <2>4. CASE o.drop = {}
    <3>1. PICK x \in Int : o.add = {x}
      BY <2>2, <2>3, <2>4
    <3>2. o.drop \cup o.add = {x, x}
      BY <2>4, <3>1
    <3>3. QED
      BY <3>2
  <2>5. CASE o.add = {}
    <3>1. PICK x \in Int : o.drop = {x}
      BY <2>2, <2>3, <2>5
    <3>2. o.drop \cup o.add = {x, x}
      BY <2>5, <3>1
    <3>3. QED
      BY <3>2
  <2>6. CASE o.drop # {} /\ o.add # {}
    <3>1. PICK x \in Int : o.drop = {x}
      BY <2>2, <2>3, <2>6
    <3>2. PICK y \in Int : o.add = {y}
      BY <2>2, <2>3, <2>6
    <3>3. o.drop \cup o.add = {x, y}
      BY <3>1, <3>2
    <3>4. QED
      BY <3>3
  <2>7. QED
    BY <2>4, <2>5, <2>6
<1>2. Min({x, y}) = IF x <= y THEN x ELSE y
  BY MaxMin
<1>3. QED
  BY <1>1, <1>2

\* What a change of the calendar does not count again ends before the days it changes,
\* or has begun.
LEMMA AllFollow ==
  ASSUME NEW b, Sound(b), NEW o \in Ops, o.kind = "calendar", NEW day \in Days, NEW c,
         Recounted(b, c, o, day), NEW now \in Days, day <= now,
         Follows(b.rows, b.holidays, now)
  PROVE  Follows(c.rows, c.holidays, now)
<1> DEFINE first == Min(o.drop \cup o.add)
<1>1. \A d \in o.drop \cup o.add : first <= d /\ d \in Int
  BY FirstDay
<1>2. first \in Int
  BY FirstDay
<1> SUFFICES ASSUME NEW r \in Requests,
                    c.rows[r].status = "pending"
                      \/ (c.rows[r].status = "approved" /\ c.rows[r].start >= now)
             PROVE  c.rows[r].days = CountOn(c.holidays, c.rows[r].start, c.rows[r].end)
  BY DEF Follows
<1> HIDE DEF first
<1>3. /\ c.rows[r].status = b.rows[r].status /\ c.rows[r].start = b.rows[r].start
      /\ c.rows[r].end = b.rows[r].end
      /\ c.rows[r].days = IF r \in open_for_policy_from(b, first, day)
                          THEN count_days(c, b.rows[r].start, b.rows[r].end)
                          ELSE b.rows[r].days
      /\ c.holidays = (b.holidays \ o.drop) \cup o.add
  BY DEF Recounted, first
<1>4. b.rows[r].start \in Int /\ b.rows[r].end \in Int /\ day \in Int /\ now \in Int
  BY Bounds DEF Sound, SoundRow, LooseRow, Rows
<1>5. CASE r \in open_for_policy_from(b, first, day)
  BY <1>3, <1>5 DEF count_days, CountOn
<1>6. CASE r \notin open_for_policy_from(b, first, day)
  <2>1. b.rows[r].end < first
    BY <1>2, <1>3, <1>4, <1>6 DEF open_for_policy_from
  <2>2. ASSUME NEW d \in o.drop \cup o.add PROVE d \notin b.rows[r].start .. b.rows[r].end
    <3>1. first <= d /\ d \in Int
      BY <1>1
    <3>2. QED
      BY <1>2, <1>4, <2>1, <3>1
  <2>3. (b.rows[r].start .. b.rows[r].end) \ b.holidays
          = (b.rows[r].start .. b.rows[r].end) \ c.holidays
    BY <1>3, <2>2
  <2>4. b.rows[r].days = CountOn(b.holidays, b.rows[r].start, b.rows[r].end)
    BY <1>3 DEF Follows
  <2>5. QED
    BY <1>3, <1>6, <2>3, <2>4 DEF CountOn
<1>7. QED
  BY <1>5, <1>6

-----------------------------------------------------------------------------
(* An operation of one member's leave reads and writes nothing of the others'.   *)

\* Two books that agree on a member agree after the same row of it is replaced.
LEMMA PutIsLocal ==
  ASSUME NEW b, Sound(b), NEW c, Sound(c), NEW r \in Requests, AgreeOn(b, c, Owner[r]), NEW row
  PROVE  AgreeOn(Put(b, r, row), Put(c, r, row), Owner[r])
<1>1. b \in Books /\ c \in Books
  BY DEF Sound
<1>2. QED
  BY <1>1 DEF AgreeOn, Put, Books

\* The rules accept the same dates.
LEMMA AcceptableIsLocal ==
  ASSUME NEW b, NEW c, NEW m, AgreeOn(b, c, m), b.holidays = c.holidays, NEW from, NEW to, NEW day
  PROVE  Acceptable(b, m, from, to, day) <=> Acceptable(c, m, from, to, day)
<1>1. count_days(b, from, to) = count_days(c, from, to)
  BY DEF count_days
<1>2. Booked(b, m) = Booked(c, m) /\ available(b, m) = available(c, m)
  BY CostIsLocal
<1>3. \A r \in Booked(b, m) : b.rows[r] = c.rows[r]
  BY DEF Booked, AgreeOn
<1>4. QED
  BY <1>1, <1>2, <1>3 DEF Acceptable

\* And the same moves.
LEMMA MoveIsLocal ==
  ASSUME NEW b, Sound(b), NEW c, Sound(c), NEW r \in Requests, AgreeOn(b, c, Owner[r]),
         b.holidays = c.holidays, NEW from, NEW to, NEW day
  PROVE  /\ DaysOfMove(b, r, from, to, day) = DaysOfMove(c, r, from, to, day)
         /\ MayMove(b, r, from, to, day) <=> MayMove(c, r, from, to, day)
         /\ Storable(b, r, from, to, day) <=> Storable(c, r, from, to, day)
<1> DEFINE m == Owner[r]
           row == [b.rows[r] EXCEPT !.status = "cancelled"]
<1>1. b \in Books /\ c \in Books /\ b.rows[r] = c.rows[r]
  BY DEF Sound, AgreeOn
<1>2. /\ [b EXCEPT !.rows[r].status = "cancelled"] = Put(b, r, row)
      /\ [c EXCEPT !.rows[r].status = "cancelled"] = Put(c, r, row)
  BY <1>1 DEF Put, Books
<1> HIDE DEF row
<1>3. /\ AgreeOn(Put(b, r, row), Put(c, r, row), m)
      /\ Put(b, r, row).holidays = Put(c, r, row).holidays
  BY <1>1, PutIsLocal DEF Put, Books
<1>4. Acceptable(Put(b, r, row), m, from, to, day) <=> Acceptable(Put(c, r, row), m, from, to, day)
  BY <1>3, AcceptableIsLocal
<1>5. Acceptable(b, m, b.rows[r].end + 1, to, day) <=> Acceptable(c, m, b.rows[r].end + 1, to, day)
  BY AcceptableIsLocal
<1>6. \A f \in {from, b.rows[r].end + 1} : count_days(b, f, to) = count_days(c, f, to)
  BY DEF count_days
<1>7. DaysOfMove(b, r, from, to, day) = DaysOfMove(c, r, from, to, day)
  BY <1>1, <1>2, <1>4, <1>5, <1>6 DEF DaysOfMove
<1>8. QED
  BY <1>1, <1>7 DEF MayMove, Storable

\* A row replaced in both and the member's leave priced again.
LEMMA PutRebalanced ==
  ASSUME NEW b, Sound(b), NEW c, Sound(c), NEW r \in Requests, AgreeOn(b, c, Owner[r]),
         NEW row, SoundRow(row)
  PROVE  AgreeOn(rebalance(Put(b, r, row), {Owner[r]}), rebalance(Put(c, r, row), {Owner[r]}),
                 Owner[r])
<1> DEFINE pb == Put(b, r, row)
           pc == Put(c, r, row)
           mine == {Owner[r]}
<1>1. Sound(pb) /\ Sound(pc)
  BY PutTouches DEF Touches
<1>2. AgreeOn(pb, pc, Owner[r])
  BY PutIsLocal
<1> HIDE DEF pb, pc, mine
<1>3. SoundOncePriced(pb, mine) /\ SoundOncePriced(pc, mine)
  BY <1>1, SoundIsSound
<1>4. AgreeOn(rebalance(pb, mine), rebalance(pc, mine), Owner[r])
  BY <1>2, <1>3, RebalanceIsLocal
<1>5. QED
  BY <1>4 DEF pb, pc, mine

\* So a submit leaves a member what it leaves of any book the member cannot tell apart.
LEMMA SubmitIsLocal ==
  ASSUME NEW b, Sound(b), NEW c, Sound(c), NEW r \in Requests, AgreeOn(b, c, Owner[r]),
         b.holidays = c.holidays, NEW from, NEW to, NEW day,
         NEW x \in submit(b, r, from, to, day)
  PROVE  \E y \in submit(c, r, from, to, day) : AgreeOn(x, y, Owner[r])
<1> DEFINE m == Owner[r]
           days(k) == count_days(k, from, to)
           lop(k) == UnpaidOf(days(k), available(k, m))
           row(k) == [status |-> IF AutoApprove /\ lop(k) = 0 THEN "approved" ELSE "pending",
                      start |-> from, end |-> to, days |-> days(k), lop |-> lop(k)]
<1>1. b.rows[r] = c.rows[r] /\ available(b, m) = available(c, m)
  BY CostIsLocal DEF AgreeOn
<1>2. days(b) = days(c)
  BY DEF count_days
<1>3. row(b) = row(c)
  BY <1>1, <1>2
<1>4. Acceptable(b, m, from, to, day) <=> Acceptable(c, m, from, to, day)
  BY AcceptableIsLocal
<1>5. x = Put(b, r, row(b)) /\ b.rows[r].status = "none" /\ Acceptable(b, m, from, to, day)
  BY DEF submit, Put
<1>6. Put(c, r, row(c)) \in submit(c, r, from, to, day)
  BY <1>1, <1>4, <1>5 DEF submit, Put
<1> HIDE DEF row
<1>7. AgreeOn(x, Put(c, r, row(c)), m)
  BY <1>3, <1>5, PutIsLocal
<1>8. QED
  BY <1>6, <1>7

\* A decision, which does not look at the calendar.
LEMMA DecisionIsLocal ==
  ASSUME NEW b, Sound(b), NEW c, Sound(c), NEW r \in Requests, AgreeOn(b, c, Owner[r])
  PROVE  /\ \A x \in approve(b, r) : \E y \in approve(c, r) : AgreeOn(x, y, Owner[r])
         /\ \A status \in {"rejected", "cancelled"} :
              AgreeOn(rebalance([b EXCEPT !.rows[r].status = status], {Owner[r]}),
                      rebalance([c EXCEPT !.rows[r].status = status], {Owner[r]}), Owner[r])
<1>1. b \in Books /\ c \in Books /\ b.rows[r] = c.rows[r] /\ SoundRow(b.rows[r])
  BY DEF Sound, AgreeOn
<1>2. ASSUME NEW x \in approve(b, r)
      PROVE  \E y \in approve(c, r) : AgreeOn(x, y, Owner[r])
  <2> DEFINE pb == reprice(b, r)
             pc == reprice(c, r)
             row == [pb.rows[r] EXCEPT !.status = "approved"]
  <2>1. Sound(pb) /\ Sound(pc) /\ AgreeOn(pb, pc, Owner[r])
    BY Repricing, RepriceIsLocal
  <2>2. pb.rows[r] = pc.rows[r] /\ pb \in Books /\ pc \in Books
    BY <2>1 DEF AgreeOn, Sound
  <2>3. /\ b.rows[r].status = "pending" /\ x = [pb EXCEPT !.rows[r].status = "approved"]
        /\ StopsAtBalance => pb.rows[r].lop = 0
    BY DEF approve
  <2>4. [pc EXCEPT !.rows[r].status = "approved"] \in approve(c, r)
    BY <1>1, <2>2, <2>3 DEF approve
  <2> HIDE DEF pb, pc
  <2>5. /\ x = Put(pb, r, row)
        /\ [pc EXCEPT !.rows[r].status = "approved"] = Put(pc, r, row)
    BY <2>2, <2>3 DEF Put, Books
  <2> HIDE DEF row
  <2>6. AgreeOn(Put(pb, r, row), Put(pc, r, row), Owner[r])
    BY <2>1, PutIsLocal
  <2>7. QED
    BY <2>4, <2>5, <2>6
<1>3. ASSUME NEW status \in {"rejected", "cancelled"}
      PROVE  AgreeOn(rebalance([b EXCEPT !.rows[r].status = status], {Owner[r]}),
                     rebalance([c EXCEPT !.rows[r].status = status], {Owner[r]}), Owner[r])
  <2> DEFINE row == [b.rows[r] EXCEPT !.status = status]
  <2>1. SoundRow(row)
    BY <1>1 DEF SoundRow, LooseRow, Rows, Status
  <2>2. /\ [b EXCEPT !.rows[r].status = status] = Put(b, r, row)
        /\ [c EXCEPT !.rows[r].status = status] = Put(c, r, row)
    BY <1>1 DEF Put, Books
  <2> HIDE DEF row
  <2>3. QED
    BY <2>1, <2>2, PutRebalanced
<1>4. QED
  BY <1>2, <1>3

\* Ending leave, which counts the days taken.
LEMMA EndingIsLocal ==
  ASSUME NEW b, Sound(b), NEW c, Sound(c), NEW r \in Requests, AgreeOn(b, c, Owner[r]),
         b.holidays = c.holidays, NEW status \in {"rejected", "cancelled"}, NEW day \in Days,
         NotOver(b.rows[r], day)
  PROVE  AgreeOn(EndedBy(b, r, status, day), EndedBy(c, r, status, day), Owner[r])
<1> DEFINE ended == EndedRow(b, r, status, day)
<1>1. b.rows[r] = c.rows[r]
  BY DEF AgreeOn
<1>2. count_days(b, b.rows[r].start, day - 1) = count_days(c, b.rows[r].start, day - 1)
  BY DEF count_days
<1>3. ended = EndedRow(c, r, status, day)
  BY <1>1, <1>2 DEF EndedRow
<1>4. /\ EndedBy(b, r, status, day) = rebalance(Put(b, r, EndedRow(b, r, status, day)), {Owner[r]})
      /\ EndedBy(c, r, status, day) = rebalance(Put(c, r, EndedRow(c, r, status, day)), {Owner[r]})
  BY DEF EndedBy, EndedRow, Put
<1>5. SoundRow(ended)
  BY RowsEnd
<1> HIDE DEF ended
<1>6. AgreeOn(rebalance(Put(b, r, ended), {Owner[r]}), rebalance(Put(c, r, ended), {Owner[r]}),
              Owner[r])
  BY <1>5, PutRebalanced
<1>7. QED
  BY <1>3, <1>4, <1>6 DEF ended

\* A move.
LEMMA RescheduleIsLocal ==
  ASSUME NEW b, Sound(b), NEW c, Sound(c), NEW r \in Requests, AgreeOn(b, c, Owner[r]),
         b.holidays = c.holidays, NEW from \in Days, NEW to \in Days, from <= to,
         NEW day \in Days, NEW x \in reschedule(b, r, from, to, day)
  PROVE  \E y \in reschedule(c, r, from, to, day) : AgreeOn(x, y, Owner[r])
<1> DEFINE mine == {Owner[r]}
           row == MovedRow(b, r, from, to, day)
           mb == Put(b, r, row)
           mc == Put(c, r, row)
<1>1. b \in Books /\ c \in Books /\ b.rows[r] = c.rows[r]
  BY DEF Sound, AgreeOn
<1>2. MayMove(b, r, from, to, day) /\ Storable(b, r, from, to, day)
  BY DEF reschedule
<1>3. MayMove(c, r, from, to, day) /\ Storable(c, r, from, to, day)
  BY <1>2, MoveIsLocal
<1>4. row = MovedRow(c, r, from, to, day)
  <2>1. DaysOfMove(b, r, from, to, day) = DaysOfMove(c, r, from, to, day)
    BY MoveIsLocal
  <2>2. QED
    BY <1>1, <2>1 DEF MovedRow
<1>5. x = rebalance(reprice(mb, r), mine)
  BY <1>1, <1>2 DEF reschedule, MovedRow, Put, Books
<1>6. rebalance(reprice(Put(c, r, MovedRow(c, r, from, to, day)), r), mine)
        \in reschedule(c, r, from, to, day)
  <2>1. Put(c, r, MovedRow(c, r, from, to, day))
          = [c EXCEPT !.rows[r].start = from, !.rows[r].end = to,
                      !.rows[r].days = DaysOfMove(c, r, from, to, day)]
    BY <1>1 DEF MovedRow, Put, Books
  <2>2. QED BY <1>3, <2>1 DEF reschedule
<1>7. SoundRow(row)
  BY <1>2, RowsMove
<1> HIDE DEF row
<1>8. Sound(mb) /\ Sound(mc) /\ AgreeOn(mb, mc, Owner[r])
  BY <1>7, PutTouches, PutIsLocal DEF Touches
<1> HIDE DEF mb, mc
<1> DEFINE pb == reprice(mb, r)
           pc == reprice(mc, r)
<1>9. Sound(pb) /\ Sound(pc) /\ AgreeOn(pb, pc, Owner[r])
  BY <1>8, Repricing, RepriceIsLocal
<1> HIDE DEF pb, pc, mine
<1>10. SoundOncePriced(pb, mine) /\ SoundOncePriced(pc, mine)
  BY <1>9, SoundIsSound
<1>11. AgreeOn(rebalance(pb, mine), rebalance(pc, mine), Owner[r])
  BY <1>9, <1>10, RebalanceIsLocal
<1>12. rebalance(pc, mine) \in reschedule(c, r, from, to, day)
  BY <1>4, <1>6 DEF pc, mc, row
<1>13. QED
  BY <1>5, <1>11, <1>12 DEF pb

\* An adjustment.
LEMMA AdjustIsLocal ==
  ASSUME NEW b, Sound(b), NEW c, Sound(c), NEW m \in Members, AgreeOn(b, c, m), NEW by \in Int,
         NEW x \in adjust(b, m, by)
  PROVE  \E y \in adjust(c, m, by) : AgreeOn(x, y, m)
<1> DEFINE pb == [b EXCEPT !.adjusted[m] = @ + by]
           pc == [c EXCEPT !.adjusted[m] = @ + by]
           mine == {m}
<1>1. /\ x = rebalance(pb, mine) /\ b.adjusted[m] + by \in Adjustments
      /\ b \in Books /\ c \in Books /\ b.adjusted[m] = c.adjusted[m]
  BY DEF adjust, Sound, AgreeOn
<1>2. rebalance(pc, mine) \in adjust(c, m, by)
  BY <1>1 DEF adjust
<1>3. /\ pb \in Books /\ pb.rows = b.rows /\ pb.adjusted[m] = b.adjusted[m] + by
      /\ pc \in Books /\ pc.rows = c.rows /\ pc.adjusted[m] = c.adjusted[m] + by
  BY <1>1 DEF Books
<1> HIDE DEF pb, pc, mine
<1>4. Sound(pb) /\ Sound(pc)
  BY <1>3 DEF Sound
<1>5. AgreeOn(pb, pc, m)
  BY <1>1, <1>3 DEF AgreeOn
<1>6. SoundOncePriced(pb, mine) /\ SoundOncePriced(pc, mine)
  BY <1>4, SoundIsSound
<1>7. AgreeOn(rebalance(pb, mine), rebalance(pc, mine), m)
  BY <1>5, <1>6, RebalanceIsLocal
<1>8. QED
  BY <1>1, <1>2, <1>7

\* The operations that do not look at the calendar.
Timeless == {"approve", "reject", "adjust"}

\* What an operation of one member's leave makes of that member follows from what the
\* member has, and from the calendar if it looks at it.
LEMMA OneIsLocal ==
  ASSUME NEW b, Sound(b), NEW c, Sound(c), NEW o \in Ops, o.kind # "calendar",
         AgreeOn(b, c, MemberOf(o)), o.kind \notin Timeless => b.holidays = c.holidays,
         NEW day \in Days, NEW x \in Effect(o, b, day)
  PROVE  \E y \in Effect(o, c, day) : AgreeOn(x, y, MemberOf(o))
<1> DEFINE r == o.req
<1>1. CASE o.kind = "submit"
  <2>1. r \in Requests /\ MemberOf(o) = Owner[r] /\ b.holidays = c.holidays
    BY <1>1, OpFields DEF Timeless
  <2>2. \A k : Effect(o, k, day) = submit(k, r, o.span[1], o.span[2], day)
    BY <1>1 DEF Effect
  <2>3. QED
    BY <2>1, <2>2, SubmitIsLocal
<1>2. CASE o.kind = "approve"
  <2>1. r \in Requests /\ MemberOf(o) = Owner[r]
    BY <1>2, OpFields
  <2>2. \A k : Effect(o, k, day) = approve(k, r)
    BY <1>2 DEF Effect
  <2>3. QED
    BY <2>1, <2>2, DecisionIsLocal
<1>3. CASE o.kind = "reject"
  <2>1. r \in Requests /\ MemberOf(o) = Owner[r] /\ b.rows[r] = c.rows[r]
    BY <1>3, OpFields DEF AgreeOn
  <2>2. \A k : Effect(o, k, day) = reject(k, r)
    BY <1>3 DEF Effect
  <2> DEFINE closed(k) == rebalance([k EXCEPT !.rows[r].status = "rejected"], {Owner[r]})
  <2>3. b.rows[r].status = "pending" /\ x = closed(b)
    BY <2>2 DEF reject
  <2>4. closed(c) \in Effect(o, c, day)
    BY <2>1, <2>2, <2>3 DEF reject
  <2>5. AgreeOn(closed(b), closed(c), Owner[r])
    BY <1>3, <2>1, DecisionIsLocal
  <2> HIDE DEF closed
  <2>6. QED
    BY <2>1, <2>3, <2>4, <2>5
<1>4. CASE o.kind = "cancel"
  <2>1. /\ r \in Requests /\ MemberOf(o) = Owner[r] /\ b.rows[r] = c.rows[r]
        /\ b.holidays = c.holidays
    BY <1>4, OpFields DEF AgreeOn, Timeless
  <2>2. \A k : Effect(o, k, day) = cancel(k, r, day)
    BY <1>4 DEF Effect
  <2>3. CASE b.rows[r].status = "pending"
    <3> DEFINE closed(k) == rebalance([k EXCEPT !.rows[r].status = "cancelled"], {Owner[r]})
    <3>1. x = closed(b)
      BY <2>2, <2>3 DEF cancel
    <3>2. closed(c) \in Effect(o, c, day)
      BY <2>1, <2>2, <2>3 DEF cancel
    <3>3. AgreeOn(closed(b), closed(c), Owner[r])
      BY <1>4, <2>1, DecisionIsLocal
    <3> HIDE DEF closed
    <3>4. QED
      BY <2>1, <3>1, <3>2, <3>3
  <2>4. CASE b.rows[r].status # "pending"
    <3>1. x = EndedBy(b, r, "cancelled", day) /\ NotOver(b.rows[r], day)
      <4>1. x \in cancel(b, r, day)
        BY <2>2
      <4>2. QED
        BY <2>4, <4>1 DEF cancel
    <3>2. EndedBy(c, r, "cancelled", day) \in Effect(o, c, day)
      BY <2>1, <2>2, <2>4, <3>1 DEF cancel
    <3>3. AgreeOn(EndedBy(b, r, "cancelled", day), EndedBy(c, r, "cancelled", day), Owner[r])
      BY <1>4, <2>1, <3>1, EndingIsLocal
    <3>4. QED
      BY <2>1, <3>1, <3>2, <3>3
  <2>5. QED
    BY <2>3, <2>4
<1>5. CASE o.kind = "withdraw"
  <2>1. /\ r \in Requests /\ MemberOf(o) = Owner[r] /\ b.rows[r] = c.rows[r]
        /\ b.holidays = c.holidays
    BY <1>5, OpFields DEF AgreeOn, Timeless
  <2>2. \A k : Effect(o, k, day) = withdraw(k, r, day)
    BY <1>5 DEF Effect
  <2>3. /\ x = EndedBy(b, r, "rejected", day) /\ NotOver(b.rows[r], day)
        /\ EndedBy(c, r, "rejected", day) \in withdraw(c, r, day)
    BY <2>1, <2>2 DEF withdraw
  <2>4. QED
    BY <2>1, <2>2, <2>3, EndingIsLocal
<1>6. CASE o.kind = "reschedule"
  <2>1. /\ r \in Requests /\ MemberOf(o) = Owner[r] /\ b.holidays = c.holidays
        /\ o.span[1] \in Days /\ o.span[2] \in Days /\ o.span[1] <= o.span[2]
    BY <1>6, OpFields DEF Timeless
  <2>2. \A k : Effect(o, k, day) = reschedule(k, r, o.span[1], o.span[2], day)
    BY <1>6 DEF Effect
  <2>3. QED
    BY <2>1, <2>2, RescheduleIsLocal
<1>7. CASE o.kind = "adjust"
  <2>1. o.member \in Members /\ o.by \in Int /\ MemberOf(o) = o.member
    BY <1>7, OpFields
  <2>2. \A k : Effect(o, k, day) = adjust(k, o.member, o.by)
    BY <1>7 DEF Effect
  <2>3. QED
    BY <2>1, <2>2, AdjustIsLocal
<1>8. QED
  BY <1>1, <1>2, <1>3, <1>4, <1>5, <1>6, <1>7, OpFields

\* A book is its rows, its holidays and its adjustments.
LEMMA SameBook ==
  ASSUME NEW b \in Books, NEW rows, NEW holidays, NEW adjusted,
         b.rows = rows, b.holidays = holidays, b.adjusted = adjusted
  PROVE  b = [rows |-> rows, holidays |-> holidays, adjusted |-> adjusted]
BY DEF Books

\* What an operation of one member's leave makes of a book is what it writes at its
\* commit: the member's rows, and the member's adjustment.
LEMMA OneIsWritten ==
  ASSUME NEW b, Sound(b), NEW o \in Ops, o.kind # "calendar", NEW day, NEW x,
         OneMembers(o, b, x, day), NEW w,
         \A r \in Requests : Owner[r] = MemberOf(o) => x.rows[r] = w.rows[r],
         o.kind = "adjust" => x.adjusted[o.member] = w.adjusted[o.member]
  PROVE  x = Written(b, o, {MemberOf(o)}, w)
<1> DEFINE mine == {MemberOf(o)}
<1>1. /\ x \in Books /\ b \in Books /\ x.holidays = b.holidays
      /\ \A n \in Members : n # MemberOf(o) => AgreeOn(x, b, n)
      /\ o.kind # "adjust" => x.adjusted = b.adjusted
  BY DEF OneMembers, Sound, Frame
<1>2. x.rows = [r \in Requests |-> IF Owner[r] \in mine THEN w.rows[r] ELSE b.rows[r]]
  <2>1. \A r \in Requests : x.rows[r] = IF Owner[r] \in mine THEN w.rows[r] ELSE b.rows[r]
    BY <1>1, Bounds DEF AgreeOn
  <2>2. QED
    BY <1>1, <2>1 DEF Books
<1>3. x.adjusted = IF o.kind = "adjust"
                   THEN [b.adjusted EXCEPT ![o.member] = w.adjusted[o.member]]
                   ELSE b.adjusted
  <2>1. CASE o.kind # "adjust"
    BY <1>1, <2>1
  <2>2. CASE o.kind = "adjust"
    <3>1. MemberOf(o) = o.member /\ o.member \in Members
      BY <2>2, OpFields
    <3>2. \A n \in Members : x.adjusted[n] = IF n = o.member THEN w.adjusted[n] ELSE b.adjusted[n]
      BY <1>1, <2>2, <3>1 DEF AgreeOn
    <3>3. x.adjusted \in [Members -> Adjustments] /\ b.adjusted \in [Members -> Adjustments]
      BY <1>1 DEF Books
    <3>4. QED
      BY <2>2, <3>1, <3>2, <3>3
  <2>3. QED
    BY <2>1, <2>2
<1> HIDE DEF mine
<1>4. x = [rows |-> [r \in Requests |-> IF Owner[r] \in mine THEN w.rows[r] ELSE b.rows[r]],
           holidays |-> b.holidays,
           adjusted |-> IF o.kind = "adjust"
                        THEN [b.adjusted EXCEPT ![o.member] = w.adjusted[o.member]]
                        ELSE b.adjusted]
  BY <1>1, <1>2, <1>3, SameBook
<1>5. QED
  BY <1>4 DEF Written, mine

\* So what it read of the member under the lock still stands at its commit, whatever
\* became of the others' leave.
LEMMA OneStands ==
  ASSUME NEW b, Sound(b), NEW c, Sound(c), NEW o \in Ops, o.kind # "calendar",
         AgreeOn(b, c, MemberOf(o)), o.kind \notin Timeless => b.holidays = c.holidays,
         NEW day \in Days, NEW w, Written(b, o, {MemberOf(o)}, w) \in Effect(o, b, day)
  PROVE  Written(c, o, {MemberOf(o)}, w) \in Effect(o, c, day)
<1> DEFINE m == MemberOf(o)
           x == Written(b, o, {m}, w)
<1>1. PICK y \in Effect(o, c, day) : AgreeOn(x, y, m)
  BY OneIsLocal
<1>2. OneMembers(o, c, y, day)
  BY OperatingOnOne
<1>3. \A r \in Requests : Owner[r] = m => y.rows[r] = w.rows[r]
  BY <1>1 DEF AgreeOn, Written
<1>4. o.kind = "adjust" => y.adjusted[o.member] = w.adjusted[o.member]
  <2> SUFFICES ASSUME o.kind = "adjust" PROVE y.adjusted[o.member] = w.adjusted[o.member]
    OBVIOUS
  <2>1. m = o.member /\ m \in Members
    BY OpFields
  <2>2. b.adjusted \in [Members -> Adjustments]
    BY DEF Sound, Books
  <2>3. x.adjusted = [b.adjusted EXCEPT ![o.member] = w.adjusted[o.member]]
    BY DEF Written
  <2> HIDE DEF x, m
  <2>4. QED
    BY <1>1, <2>1, <2>2, <2>3 DEF AgreeOn
<1>5. y = Written(c, o, {m}, w)
  BY <1>2, <1>3, <1>4, OneIsWritten
<1>6. QED
  BY <1>5

\* A change of the calendar, of which other transactions have left the days, and the
\* requests that it looks at, as they were.
LEMMA CalendarStands ==
  ASSUME NEW b, Sound(b), NEW c, Sound(c), NEW o \in Ops, o.kind = "calendar",
         b.holidays = c.holidays, NEW members, \A m \in members : AgreeOn(b, c, m),
         NEW day \in Days, Affected(b, o.drop, o.add, day) \subseteq members,
         Affected(c, o.drop, o.add, day) \subseteq members,
         NEW w, Written(b, o, members, w) \in Effect(o, b, day)
  PROVE  Written(c, o, members, w) \in Effect(o, c, day)
<1> DEFINE x == Written(b, o, members, w)
           first == Min(o.drop \cup o.add)
           ab == Affected(b, o.drop, o.add, day)
           ac == Affected(c, o.drop, o.add, day)
           kb == Counted(b, o, day)
           kc == Counted(c, o, day)
           y == rebalance(kc, ac)
<1>1. /\ MayChange(b, o.drop, o.add) /\ x = rebalance(kb, ab)
  BY DEF Effect, recount_requests, Counted, Affected
<1>2. y \in Effect(o, c, day)
  BY <1>1 DEF Effect, recount_requests, Counted, Affected, MayChange
<1>3. \A r \in Requests : Owner[r] \in members =>
        (r \in open_for_policy_from(b, first, day) <=> r \in open_for_policy_from(c, first, day))
  BY DEF AgreeOn, open_for_policy_from
<1>4. \A m \in members : m \in ab <=> m \in ac
  BY <1>3 DEF Affected, open_for_policy_from
<1>5. SoundOncePriced(kb, ab) /\ SoundOncePriced(kc, ac)
  BY Counting
<1>6. /\ kb.holidays = (b.holidays \ o.drop) \cup o.add /\ kb.adjusted = b.adjusted
      /\ \A r \in Requests :
           IF r \in open_for_policy_from(b, first, day)
           THEN kb.rows[r] = [b.rows[r] EXCEPT
                                !.days = count_days(kb, b.rows[r].start, b.rows[r].end)]
           ELSE kb.rows[r] = b.rows[r]
  BY Counting
<1>7. /\ kc.holidays = (c.holidays \ o.drop) \cup o.add /\ kc.adjusted = c.adjusted
      /\ \A r \in Requests :
           IF r \in open_for_policy_from(c, first, day)
           THEN kc.rows[r] = [c.rows[r] EXCEPT
                                !.days = count_days(kc, c.rows[r].start, c.rows[r].end)]
           ELSE kc.rows[r] = c.rows[r]
  BY Counting
<1>8. Recounted(c, y, o, day)
  BY <1>2, Recounting
<1> HIDE DEF kb, kc, first, ab, ac
<1>9. \A from, to : count_days(kb, from, to) = count_days(kc, from, to)
  BY <1>6, <1>7 DEF count_days
<1>10. \A m \in members : AgreeOn(kb, kc, m)
  <2>1. ASSUME NEW r \in Requests, Owner[r] \in members PROVE kb.rows[r] = kc.rows[r]
    <3>1. b.rows[r] = c.rows[r]
      BY <2>1 DEF AgreeOn
    <3>2. count_days(kb, b.rows[r].start, b.rows[r].end) = count_days(kc, c.rows[r].start, c.rows[r].end)
      BY <1>9, <3>1
    <3>3. CASE r \in open_for_policy_from(b, first, day)
      <4>1. kb.rows[r] = [b.rows[r] EXCEPT !.days = count_days(kb, b.rows[r].start, b.rows[r].end)]
        BY <1>6, <3>3
      <4>2. kc.rows[r] = [c.rows[r] EXCEPT !.days = count_days(kc, c.rows[r].start, c.rows[r].end)]
        BY <1>3, <1>7, <2>1, <3>3
      <4>3. QED
        BY <3>1, <3>2, <4>1, <4>2
    <3>4. CASE r \notin open_for_policy_from(b, first, day)
      BY <1>3, <1>6, <1>7, <2>1, <3>1, <3>4
    <3>5. QED
      BY <3>3, <3>4
  <2>2. QED
    BY <1>6, <1>7, <2>1 DEF AgreeOn
<1>11. \A m \in members : AgreeOn(x, y, m)
  BY <1>1, <1>4, <1>5, <1>10, RebalanceIsLocal
<1>12. /\ y \in Books /\ c \in Books /\ y.holidays = (c.holidays \ o.drop) \cup o.add
       /\ y.adjusted = c.adjusted
       /\ \A r \in Requests : Owner[r] \notin members => y.rows[r] = c.rows[r]
  BY <1>8 DEF Recounted, Sound
<1>13. \A r \in Requests : Owner[r] \in members => y.rows[r] = w.rows[r]
  BY <1>11 DEF AgreeOn, Written
<1> HIDE DEF y
<1>14. y.rows = [r \in Requests |-> IF Owner[r] \in members THEN w.rows[r] ELSE c.rows[r]]
  BY <1>12, <1>13 DEF Books
<1>15. y = [rows |-> [r \in Requests |-> IF Owner[r] \in members THEN w.rows[r] ELSE c.rows[r]],
            holidays |-> (c.holidays \ o.drop) \cup o.add, adjusted |-> c.adjusted]
  BY <1>12, <1>14, SameBook
<1>16. QED
  BY <1>2, <1>15 DEF Written

-----------------------------------------------------------------------------
(* What a transaction may commit.                                               *)

\* The same book under other holidays.
On(b, h) == [b EXCEPT !.holidays = h]

\* What it has written is what its operation makes of the book as it stands, under a
\* day that has been; a cancellation's may be so under other holidays.
CanWrite(b, now, o, members, wrote) ==
    \E day \in 1 .. now, h \in SUBSET HolidayDays :
        /\ o.kind # "cancel" => h = b.holidays
        /\ o.kind = "calendar" => Affected(b, o.drop, o.add, day) \subseteq members
        /\ Written(On(b, h), o, members, wrote) \in Effect(o, On(b, h), day)

\* The book under other holidays is as sound.
LEMMA OtherHolidays ==
  ASSUME NEW b, Sound(b), NEW h \in SUBSET HolidayDays
  PROVE  /\ Sound(On(b, h)) /\ On(b, h).rows = b.rows /\ On(b, h).adjusted = b.adjusted
         /\ On(b, h).holidays = h /\ On(b, b.holidays) = b
<1>1. b \in Books
  BY DEF Sound
<1>2. /\ On(b, h) \in Books /\ On(b, h).rows = b.rows /\ On(b, h).adjusted = b.adjusted
      /\ On(b, h).holidays = h /\ On(b, b.holidays) = b
  BY <1>1 DEF On, Books
<1>3. QED
  BY <1>2 DEF Sound

\* Nobody wakes up to more days than there were.
LEMMA PastDays ==
  ASSUME NEW now \in 1 .. LastToday, NEW day \in 1 .. now
  PROVE  now \in Days /\ day \in Days /\ day <= now /\ day \in Int /\ now \in Int
BY Bounds

\* A commit is one operation on the book, though its day may be over.
LEMMA Committing ==
  ASSUME NEW b, Sound(b), NEW now \in 1 .. LastToday, NEW o \in Ops, NEW members, NEW wrote,
         CanWrite(b, now, o, members, wrote),
         o.kind # "calendar" => members = {MemberOf(o)},
         NEW c, c = Written(b, o, members, wrote)
  PROVE  \E day \in 1 .. now :
            /\ o.kind # "calendar" => OneMembers(o, b, c, day)
            /\ o.kind = "calendar" =>
                  Recounted(b, c, o, day) /\ Affected(b, o.drop, o.add, day) \subseteq members
<1>1. PICK day \in 1 .. now, h \in SUBSET HolidayDays :
        /\ o.kind # "cancel" => h = b.holidays
        /\ o.kind = "calendar" => Affected(b, o.drop, o.add, day) \subseteq members
        /\ Written(On(b, h), o, members, wrote) \in Effect(o, On(b, h), day)
  BY DEF CanWrite
<1> DEFINE x == Written(On(b, h), o, members, wrote)
<1>2. day \in Days
  BY PastDays
<1>3. /\ Sound(On(b, h)) /\ On(b, h).rows = b.rows /\ On(b, h).adjusted = b.adjusted
      /\ On(b, h).holidays = h /\ On(b, b.holidays) = b
  BY OtherHolidays
<1>4. CASE o.kind = "calendar"
  <2>1. c \in Effect(o, b, day)
    BY <1>1, <1>3, <1>4
  <2>2. Recounted(b, c, o, day)
    BY <1>2, <1>4, <2>1, Recounting
  <2>3. QED
    BY <1>1, <1>4, <2>2
<1>5. CASE o.kind \notin {"calendar", "cancel"}
  <2>1. c \in Effect(o, b, day)
    BY <1>1, <1>3, <1>5
  <2>2. OneMembers(o, b, c, day)
    BY <1>2, <1>5, <2>1, OperatingOnOne
  <2>3. QED
    BY <1>5, <2>2
<1>6. CASE o.kind = "cancel"
  <2>1. OneMembers(o, On(b, h), x, day)
    BY <1>1, <1>2, <1>3, <1>6, OperatingOnOne
  <2>2. c.rows = x.rows /\ c.adjusted = x.adjusted /\ c.holidays = b.holidays
    BY <1>3, <1>6 DEF Written
  <2>3. c \in Books
    <3>1. x \in Books /\ b \in Books
      BY <2>1 DEF OneMembers, Sound
    <3>2. x.rows \in [Requests -> Rows] /\ x.adjusted \in [Members -> Adjustments]
            /\ b.holidays \in SUBSET HolidayDays
      BY <3>1 DEF Books
    <3> HIDE DEF x
    <3>3. c = [rows |-> c.rows, holidays |-> c.holidays, adjusted |-> c.adjusted]
      BY DEF Written
    <3>4. QED
      BY <2>2, <3>2, <3>3 DEF Books
  <2> HIDE DEF x
  <2>4. Sound(c) /\ Frame(b, c, MemberOf(o))
    BY <1>3, <2>1, <2>2, <2>3 DEF OneMembers, Sound, Frame, AgreeOn
  <2>5. c.adjusted = b.adjusted /\ Others(b, c, o.req)
    BY <1>3, <1>6, <2>1, <2>2 DEF OneMembers, Others
  <2>6. Closed(b, o.req, c.rows[o.req]) \/ Shortened(b, o.req, c.rows[o.req], day)
    BY <1>3, <1>6, <2>1, <2>2 DEF OneMembers, Closed, Shortened
  <2>7. OneMembers(o, b, c, day)
    BY <1>6, <2>4, <2>5, <2>6 DEF OneMembers
  <2>8. QED
    BY <1>6, <2>7
<1>7. QED
  BY <1>4, <1>5, <1>6

\* What has been written may still be committed when the days and requests that it looks
\* at are as they were.
LEMMA StillWrites ==
  ASSUME NEW b, Sound(b), NEW c, Sound(c), NEW now \in 1 .. LastToday, NEW o \in Ops,
         NEW members, NEW wrote, CanWrite(b, now, o, members, wrote),
         o.kind # "calendar" => members = {MemberOf(o)},
         \A m \in members : AgreeOn(b, c, m),
         o.kind \notin Timeless \cup {"cancel"} => b.holidays = c.holidays,
         o.kind = "calendar" => \A day \in 1 .. now :
            Affected(c, o.drop, o.add, day) \subseteq Affected(b, o.drop, o.add, day)
  PROVE  CanWrite(c, now, o, members, wrote)
<1>1. PICK day \in 1 .. now, h \in SUBSET HolidayDays :
        /\ o.kind # "cancel" => h = b.holidays
        /\ o.kind = "calendar" => Affected(b, o.drop, o.add, day) \subseteq members
        /\ Written(On(b, h), o, members, wrote) \in Effect(o, On(b, h), day)
  BY DEF CanWrite
<1> DEFINE g == IF o.kind = "cancel" THEN h ELSE c.holidays
<1>2. day \in Days /\ c.holidays \in SUBSET HolidayDays /\ b.holidays \in SUBSET HolidayDays
  BY PastDays DEF Sound, Books
<1>3. g \in SUBSET HolidayDays /\ (o.kind \notin Timeless => g = h)
  BY <1>1, <1>2 DEF Timeless
<1> HIDE DEF g
<1>4. /\ Sound(On(b, h)) /\ On(b, h).rows = b.rows /\ On(b, h).adjusted = b.adjusted
      /\ On(b, h).holidays = h /\ On(b, b.holidays) = b
  BY OtherHolidays
<1>5. /\ Sound(On(c, g)) /\ On(c, g).rows = c.rows /\ On(c, g).adjusted = c.adjusted
      /\ On(c, g).holidays = g /\ On(c, c.holidays) = c
  BY <1>3, OtherHolidays
<1>6. \A m \in members : AgreeOn(On(b, h), On(c, g), m)
  BY <1>4, <1>5 DEF AgreeOn
<1>7. Written(On(c, g), o, members, wrote) \in Effect(o, On(c, g), day)
  <2>1. CASE o.kind # "calendar"
    <3>1. members = {MemberOf(o)}
      BY <2>1
    <3>2. AgreeOn(On(b, h), On(c, g), MemberOf(o))
      BY <1>6, <3>1
    <3>3. o.kind \notin Timeless => On(b, h).holidays = On(c, g).holidays
      BY <1>3, <1>4, <1>5
    <3>4. QED
      BY <1>1, <1>2, <1>4, <1>5, <2>1, <3>1, <3>2, <3>3, OneStands
  <2>2. CASE o.kind = "calendar"
    <3>1. h = b.holidays /\ g = c.holidays /\ On(b, h) = b /\ On(c, g) = c /\ b.holidays = c.holidays
      BY <1>1, <1>4, <1>5, <2>2 DEF g, Timeless
    <3>2. \A m \in members : AgreeOn(b, c, m)
      OBVIOUS
    <3>3. /\ Affected(b, o.drop, o.add, day) \subseteq members
          /\ Affected(c, o.drop, o.add, day) \subseteq members
      BY <1>1, <2>2
    <3>4. Written(b, o, members, wrote) \in Effect(o, b, day)
      BY <1>1, <3>1
    <3>5. Written(c, o, members, wrote) \in Effect(o, c, day)
      BY <1>2, <2>2, <3>1, <3>2, <3>3, <3>4, CalendarStands
    <3>6. QED
      BY <3>1, <3>5
  <2>3. QED
    BY <2>1, <2>2
<1>8. o.kind # "cancel" => g = c.holidays
  BY DEF g
<1>9. o.kind = "calendar" => Affected(c, o.drop, o.add, day) \subseteq members
  BY <1>1
<1>10. QED
  BY <1>3, <1>7, <1>8, <1>9 DEF CanWrite

\* Decisions, cancellations and adjustments put no request before a change of the
\* calendar that it has not seen.
LEMMA NoNewOpen ==
  ASSUME NEW b, Sound(b), NEW o \in Ops, o.kind \in {"approve", "reject", "cancel", "adjust"},
         NEW taken \in Int, NEW c, OneMembers(o, b, c, taken), NEW first \in Int, NEW day \in Int
  PROVE  open_for_policy_from(c, first, day) \subseteq open_for_policy_from(b, first, day)
<1> SUFFICES ASSUME NEW q \in Requests, q \in open_for_policy_from(c, first, day)
             PROVE  q \in open_for_policy_from(b, first, day)
  BY DEF open_for_policy_from
<1>1. CASE Same(c.rows[q], b.rows[q])
  BY <1>1 DEF Same, open_for_policy_from
<1>2. CASE ~ Same(c.rows[q], b.rows[q])
  <2>1. q = o.req /\ o.kind # "adjust"
    BY <1>2 DEF OneMembers, Others
  <2>2. CASE o.kind = "approve"
    BY <2>1, <2>2 DEF OneMembers, Approved, open_for_policy_from
  <2>3. CASE Closed(b, q, c.rows[q])
    BY <2>3 DEF Closed, open_for_policy_from
  <2>4. CASE Shortened(b, q, c.rows[q], taken)
    <3>1. b.rows[q].end \in Int /\ b.rows[q].start \in Int
      BY Dates
    <3>2. QED
      BY <2>4, <3>1 DEF Shortened, NotOver, open_for_policy_from
  <2>5. QED
    BY <2>1, <2>2, <2>3, <2>4 DEF OneMembers
<1>3. QED
  BY <1>1, <1>2

\* A change of the calendar that finds nobody to price writes its holidays and no more.
LEMMA NobodyAffected ==
  ASSUME NEW b, Sound(b), NEW o \in Ops, o.kind = "calendar", NEW day \in Days,
         MayChange(b, o.drop, o.add), Affected(b, o.drop, o.add, day) = {}
  PROVE  /\ Changed(b, o.drop, o.add) \in Books
         /\ Written(b, o, {}, Changed(b, o.drop, o.add)) \in Effect(o, b, day)
<1> DEFINE k == Counted(b, o, day)
           w == Changed(b, o.drop, o.add)
           y == rebalance(k, {})
<1>1. b \in Books
  BY DEF Sound
<1>2. o.add \subseteq HolidayDays
  BY OpFields DEF Singles
<1>3. w \in Books
  BY <1>1, <1>2 DEF Changed, Books
<1>4. Effect(o, b, day) = {y}
  BY DEF Effect, recount_requests, Affected, Counted
<1>5. Recounted(b, y, o, day)
  BY <1>4, Recounting
<1>6. /\ y \in Books /\ y.holidays = (b.holidays \ o.drop) \cup o.add /\ y.adjusted = b.adjusted
      /\ \A r \in Requests : y.rows[r] = b.rows[r]
  BY <1>5 DEF Recounted, Sound
<1> HIDE DEF y, w
<1>7. y.rows = [r \in Requests |-> IF Owner[r] \in {} THEN w.rows[r] ELSE b.rows[r]]
  BY <1>6 DEF Books
<1>8. y = [rows |-> [r \in Requests |-> IF Owner[r] \in {} THEN w.rows[r] ELSE b.rows[r]],
           holidays |-> (b.holidays \ o.drop) \cup o.add, adjusted |-> b.adjusted]
  BY <1>6, <1>7, SameBook
<1>9. y = Written(b, o, {}, w)
  BY <1>8 DEF Written
<1>10. QED
  BY <1>3, <1>4, <1>9 DEF w

-----------------------------------------------------------------------------
(* The transactions, by what they hold and what they have read.                 *)

Waiting == [op : Ops, phase : {"policy", "find", "member"}, members : SUBSET Members,
            day : 0 .. LastToday]
Writing == [op : Ops, phase : {"commit"}, members : SUBSET Members, wrote : Books]

OneMemberKinds == {"approve", "reject", "cancel", "adjust"}
PolicyKinds == {"submit", "withdraw", "reschedule"}

\* What one transaction x may rely on of the book b: the days that a change of the
\* calendar stages stay free for it, the members whose locks it asks for are those it
\* must price, and what it has written is what its operation makes of b.
Fits(x, b, now) ==
    /\ x.op.kind = "calendar" => MayChange(b, x.op.drop, x.op.add)
    /\ x.op.kind \in OneMemberKinds => x.phase \in {"member", "commit"}
    /\ x.op.kind # "calendar" => x.phase # "find" /\ x.members = {MemberOf(x.op)}
    /\ (x.op.kind = "calendar" /\ x.phase = "member") =>
          x.day \in 1 .. now /\ Affected(b, x.op.drop, x.op.add, x.day) \subseteq x.members
    /\ x.phase = "commit" => CanWrite(b, now, x.op, x.members, x.wrote)

\* Two transactions at work do not hold the same lock.
Compatible(x, y) ==
    /\ (x.phase = "commit" /\ y.phase = "commit") => x.members \cap y.members = {}
    /\ (x.op.kind = "calendar" /\ y.op.kind = "calendar") =>
          (x.op.drop \cup x.op.add) \cap (y.op.drop \cup y.op.add) = {}
    /\ (x.op.kind = "calendar" /\ x.phase # "policy") =>
          (y.op.kind \in PolicyKinds \cup {"calendar"} => y.phase = "policy")

BookInv ==
    /\ Sound(book)
    /\ Disjoint(book)
    /\ Follows(book.rows, book.holidays, today)
    /\ today \in 1 .. LastToday
    /\ begun \in 0 .. MaxTxs

TxInv ==
    /\ tx \in [Txs -> {Idle} \cup Waiting \cup Writing]
    /\ \A t \in Txs : Working(t) => Fits(tx[t], book, today)
    /\ \A t, u \in Txs : (t # u /\ Working(t) /\ Working(u)) => Compatible(tx[t], tx[u])

\* The inductive invariant: the book is sound, no day of a member is booked twice, and
\* what the locks protect still stands.
IInv == BookInv /\ TxInv

\* A transaction at work.
LEMMA AtWork ==
  ASSUME TxInv, NEW t \in Txs, Working(t)
  PROVE  /\ tx[t] \in Waiting \cup Writing /\ tx[t].op \in Ops /\ tx[t].members \in SUBSET Members
         /\ tx[t].phase = "commit" => tx[t] \in Writing
         /\ tx[t].phase # "commit" => tx[t] \in Waiting
BY DEF TxInv, Working, Idle, Waiting, Writing

\* One transaction takes a step, and the book stays as it is.
LEMMA OneMoves ==
  ASSUME IInv, NEW t \in Txs, NEW v \in {Idle} \cup Waiting \cup Writing,
         tx' = [tx EXCEPT ![t] = v], UNCHANGED <<book, today>>, begun' \in 0 .. MaxTxs,
         v.phase # "idle" => /\ Fits(v, book, today)
                             /\ \A u \in Txs \ {t} : Working(u) =>
                                   Compatible(v, tx[u]) /\ Compatible(tx[u], v)
  PROVE  IInv'
<1>1. BookInv'
  BY DEF IInv, BookInv
<1>2. tx' \in [Txs -> {Idle} \cup Waiting \cup Writing]
  BY DEF IInv, TxInv
<1>3. tx'[t] = v /\ \A u \in Txs \ {t} : tx'[u] = tx[u]
  BY DEF IInv, TxInv
<1>4. ASSUME NEW u \in Txs, Working(u)' PROVE Fits(tx'[u], book', today')
  <2>1. CASE u = t
    BY <1>3, <1>4, <2>1 DEF Working
  <2>2. CASE u # t
    <3>1. Fits(tx[u], book, today)
      BY <1>3, <1>4, <2>2 DEF Working, IInv, TxInv
    <3>2. QED
      BY <1>3, <2>2, <3>1
  <2>3. QED
    BY <2>1, <2>2
<1>5. ASSUME NEW u \in Txs, NEW w \in Txs, u # w, Working(u)', Working(w)'
      PROVE  Compatible(tx'[u], tx'[w])
  <2>1. CASE u = t
    BY <1>3, <1>5, <2>1 DEF Working
  <2>2. CASE w = t
    BY <1>3, <1>5, <2>2 DEF Working
  <2>3. CASE u # t /\ w # t
    <3>1. Compatible(tx[u], tx[w])
      BY <1>3, <1>5, <2>3 DEF Working, IInv, TxInv
    <3>2. QED
      BY <1>3, <2>3, <3>1
  <2>4. QED
    BY <2>1, <2>2, <2>3
<1>6. TxInv'
  BY <1>2, <1>4, <1>5 DEF TxInv
<1>7. QED
  BY <1>1, <1>6 DEF IInv

\* The first book holds nothing.
LEMMA InitIInv ==
  ASSUME Init
  PROVE  IInv
<1>1. 1 \in Days /\ 1 \in 1 .. LastToday
  BY Bounds
<1>2. NoRow \in Rows
  <2>1. 0 \in 0 .. LastDay
    BY Bounds
  <2>2. QED
    BY <1>1, <2>1 DEF NoRow, Rows, Status
<1>3. SoundRow(NoRow)
  BY <1>2 DEF SoundRow, LooseRow, NoRow
<1>4. 0 \in Adjustments
  BY LeaveAssumption
<1>5. book \in Books
  BY <1>2, <1>4 DEF Init, NewBook, Books
<1>6. \A r \in Requests : book.rows[r] = NoRow
  BY DEF Init, NewBook
<1>7. Sound(book)
  BY <1>3, <1>5, <1>6 DEF Sound
<1>8. Disjoint(book) /\ Follows(book.rows, book.holidays, today)
  BY <1>6 DEF Disjoint, Follows, NoRow, Active
<1>9. begun \in 0 .. MaxTxs
  BY BookingAssumption DEF Init
<1>10. BookInv
  BY <1>1, <1>7, <1>8, <1>9 DEF BookInv, Init
<1>11. TxInv
  BY DEF Init, TxInv, Working, Idle
<1>12. QED
  BY <1>10, <1>11 DEF IInv

\* A transaction begins with no lock but its staged days.
LEMMA BeginStep ==
  ASSUME IInv, NEW t \in Txs, NEW o \in Ops, Begin(t, o)
  PROVE  IInv'
<1> DEFINE v == [op |-> o,
                 phase |-> IF o.kind \in OneMemberKinds THEN "member" ELSE "policy",
                 members |-> IF o.kind = "calendar" THEN {} ELSE {MemberOf(o)},
                 day |-> 0]
<1>1. tx' = [tx EXCEPT ![t] = v] /\ UNCHANGED <<book, today>>
  BY DEF Begin, OneMemberKinds
<1>2. begun' \in 0 .. MaxTxs
  BY BookingAssumption DEF Begin, IInv, BookInv
<1>3. v \in Waiting
  <2>1. o.kind # "calendar" => MemberOf(o) \in Members
    BY OpFields, Bounds
  <2>2. 0 \in 0 .. LastToday
    BY Bounds
  <2>3. QED
    BY <2>1, <2>2 DEF Waiting
<1>4. Fits(v, book, today)
  BY DEF Fits, Begin, Sensible, OneMemberKinds
<1>5. ASSUME NEW u \in Txs \ {t}, Working(u)
      PROVE  Compatible(v, tx[u]) /\ Compatible(tx[u], v)
  <2>1. (o.kind = "calendar" /\ tx[u].op.kind = "calendar") =>
          (tx[u].op.drop \cup tx[u].op.add) \cap (o.drop \cup o.add) = {}
    BY <1>5 DEF Begin, Sensible, IsCalendar
  <2>2. v.phase # "commit" /\ v.op = o
    OBVIOUS
  <2>3. o.kind \in PolicyKinds \cup {"calendar"} => v.phase = "policy"
    BY DEF PolicyKinds, OneMemberKinds
  <2> HIDE DEF v
  <2>4. QED
    BY <2>1, <2>2, <2>3 DEF Compatible
<1> HIDE DEF v
<1>6. QED
  BY <1>1, <1>2, <1>3, <1>4, <1>5, OneMoves

\* The policy's row is granted when nobody stands in the way.
LEMMA LockPolicyStep ==
  ASSUME IInv, NEW t \in Txs, LockPolicy(t)
  PROVE  IInv'
<1> DEFINE x == tx[t]
           v == [x EXCEPT !.phase = IF IsCalendar(t) THEN "find" ELSE "member"]
<1>1. tx' = [tx EXCEPT ![t] = v] /\ UNCHANGED <<book, today, begun>> /\ x.phase = "policy"
  BY DEF LockPolicy, Becomes
<1>2. /\ Working(t) /\ x \in Waiting /\ x.op \in Ops /\ Fits(x, book, today)
  <2>1. Working(t)
    BY <1>1 DEF Working
  <2>2. QED
    BY <1>1, <2>1, AtWork DEF IInv, TxInv
<1>3. /\ v \in Waiting /\ v.op = x.op /\ v.members = x.members
      /\ v.phase = IF x.op.kind = "calendar" THEN "find" ELSE "member"
  BY <1>2 DEF Waiting, IsCalendar
<1> HIDE DEF v
<1>4. Fits(v, book, today)
  BY <1>1, <1>2, <1>3 DEF Fits, OneMemberKinds
<1>5. ASSUME NEW u \in Txs \ {t}, Working(u)
      PROVE  Compatible(v, tx[u]) /\ Compatible(tx[u], v)
  <2>1. Compatible(x, tx[u]) /\ Compatible(tx[u], x)
    BY <1>2, <1>5 DEF IInv, TxInv
  <2>2. u \notin Blockers(t)
    BY DEF LockPolicy
  <2>3. ~ OwnsPolicy(u) /\ (x.op.kind = "calendar" => ~ SharesPolicy(u))
    BY <1>1, <1>2, <2>2 DEF Blockers, IsCalendar
  <2>4. ~ (tx[u].op.kind = "calendar" /\ tx[u].phase # "policy")
    BY <1>5, <2>3 DEF OwnsPolicy, IsCalendar
  <2>5. x.op.kind = "calendar" => (tx[u].op.kind \in PolicyKinds => tx[u].phase = "policy")
    BY <1>5, <2>3 DEF SharesPolicy, PolicyKinds
  <2>6. QED
    BY <1>3, <2>1, <2>4, <2>5 DEF Compatible
<1>6. begun' \in 0 .. MaxTxs
  BY <1>1 DEF IInv, BookInv
<1>7. QED
  BY <1>1, <1>3, <1>4, <1>5, <1>6, OneMoves

\* A change of the calendar finds whom it must lock.
LEMMA FindStep ==
  ASSUME IInv, NEW t \in Txs, Find(t)
  PROVE  IInv'
<1> DEFINE x == tx[t]
           o == x.op
           found == Affected(book, o.drop, o.add, today)
           w == Changed(book, o.drop, o.add)
           written == [op |-> o, phase |-> "commit", members |-> {}, wrote |-> w]
           waits == [x EXCEPT !.phase = "member", !.members = found, !.day = today]
           v == IF found = {} THEN written ELSE waits
<1>1. tx' = [tx EXCEPT ![t] = v] /\ UNCHANGED <<book, today, begun>> /\ x.phase = "find"
  BY DEF Find
<1>2. Working(t) /\ x \in Waiting /\ o \in Ops /\ Fits(x, book, today)
  <2>1. Working(t)
    BY <1>1 DEF Working
  <2>2. QED
    BY <1>1, <2>1, AtWork DEF IInv, TxInv
<1>3. o.kind = "calendar" /\ MayChange(book, o.drop, o.add)
  BY <1>1, <1>2 DEF Fits
<1>4. Sound(book) /\ today \in 1 .. LastToday /\ today \in Days /\ today \in 1 .. today
  <2>1. Sound(book) /\ today \in 1 .. LastToday
    BY DEF IInv, BookInv
  <2>2. QED
    BY <2>1, Bounds
<1>5. found \in SUBSET Members
  BY Bounds DEF Affected, open_for_policy_from
<1> HIDE DEF found
<1>6. /\ v.op = o /\ v.phase \in {"member", "commit"} /\ v \in Waiting \cup Writing
      /\ Fits(v, book, today) /\ (v.phase = "commit" => v.members = {})
  <2>1. CASE found = {}
    <3>1. /\ w \in Books /\ Written(book, o, {}, w) \in Effect(o, book, today)
      BY <1>2, <1>3, <1>4, <2>1, NobodyAffected DEF found
    <3>2. book.holidays \in SUBSET HolidayDays /\ On(book, book.holidays) = book
      <4>1. book.holidays \in SUBSET HolidayDays
        BY <1>4 DEF Sound, Books
      <4>2. QED
        BY <1>4, <4>1, OtherHolidays
    <3> HIDE DEF w
    <3>3. CanWrite(book, today, o, {}, w)
      BY <1>4, <2>1, <3>1, <3>2 DEF CanWrite, found
    <3>4. /\ v = written /\ written.op = o /\ written.phase = "commit"
          /\ written.members = {} /\ written.wrote = w
      BY <2>1
    <3>5. written \in Writing
      BY <1>2, <3>1 DEF Writing
    <3> HIDE DEF written
    <3>6. Fits(written, book, today)
      BY <1>3, <3>3, <3>4 DEF Fits, OneMemberKinds
    <3>7. QED
      BY <3>4, <3>5, <3>6
  <2>2. CASE found # {}
    <3>1. /\ waits.op = o /\ waits.phase = "member" /\ waits.members = found
          /\ waits.day = today /\ waits \in Waiting
      <4>1. today \in 0 .. LastToday
        BY <1>4, Bounds
      <4>2. QED
        BY <1>2, <1>5, <4>1 DEF Waiting
    <3>2. v = waits
      BY <2>2
    <3> HIDE DEF waits
    <3>3. Fits(waits, book, today)
      BY <1>3, <1>4, <3>1 DEF Fits, OneMemberKinds, found
    <3>4. QED
      BY <3>1, <3>2, <3>3
  <2>3. QED
    BY <2>1, <2>2
<1> HIDE DEF v
<1>7. ASSUME NEW u \in Txs \ {t}, Working(u)
      PROVE  Compatible(v, tx[u]) /\ Compatible(tx[u], v)
  <2>1. Compatible(x, tx[u]) /\ Compatible(tx[u], x)
    BY <1>2, <1>7 DEF IInv, TxInv
  <2>2. QED
    BY <1>1, <1>3, <1>6, <2>1 DEF Compatible
<1>8. begun' \in 0 .. MaxTxs
  BY <1>1 DEF IInv, BookInv
<1>9. QED
  BY <1>1, <1>6, <1>7, <1>8, OneMoves

\* An operation reads and writes under the members' locks.
LEMMA OperateStep ==
  ASSUME IInv, NEW t \in Txs, Operate(t)
  PROVE  IInv'
<1> DEFINE x == tx[t]
           o == x.op
           day == IF IsCalendar(t) THEN x.day ELSE today
<1>1. UNCHANGED <<book, today, begun>> /\ x.phase = "member"
  BY DEF Operate
<1>2. Working(t) /\ x \in Waiting /\ o \in Ops /\ Fits(x, book, today) /\ x.members \in SUBSET Members
  <2>1. Working(t)
    BY <1>1 DEF Working
  <2>2. QED
    BY <1>1, <2>1, AtWork DEF IInv, TxInv
<1>3. Sound(book) /\ today \in 1 .. LastToday
  BY DEF IInv, BookInv
<1>4. day \in 1 .. today /\ day \in Days /\ (o.kind = "calendar" => day = x.day)
  <2>1. day \in 1 .. today
    BY <1>1, <1>2, <1>3, Bounds DEF Fits, IsCalendar
  <2>2. QED
    BY <1>2, <1>3, <2>1, PastDays DEF IsCalendar
<1>5. begun' \in 0 .. MaxTxs
  BY <1>1 DEF IInv, BookInv
<1>6. CASE tx' = [tx EXCEPT ![t] = Idle]
  BY <1>1, <1>5, <1>6, OneMoves DEF Idle
<1>7. ASSUME NEW b \in Effect(o, book, day),
             tx' = [tx EXCEPT ![t] = [op |-> o, phase |-> "commit", members |-> x.members,
                                      wrote |-> b]]
      PROVE  IInv'
  <2> DEFINE v == [op |-> o, phase |-> "commit", members |-> x.members, wrote |-> b]
  <2>1. v.op = o /\ v.phase = "commit" /\ v.members = x.members /\ v.wrote = b
    OBVIOUS
  <2>2. /\ b \in Books /\ b = Written(book, o, x.members, b)
    <3>1. CASE o.kind # "calendar"
      <4>1. OneMembers(o, book, b, day)
        BY <1>2, <1>3, <1>4, <1>7, <3>1, OperatingOnOne
      <4>2. x.members = {MemberOf(o)}
        BY <1>2, <3>1 DEF Fits
      <4>3. b = Written(book, o, {MemberOf(o)}, b)
        BY <1>2, <1>3, <3>1, <4>1, OneIsWritten
      <4>4. QED
        BY <4>1, <4>2, <4>3 DEF OneMembers, Sound
    <3>2. CASE o.kind = "calendar"
      <4>1. Recounted(book, b, o, day)
        BY <1>2, <1>3, <1>4, <1>7, <3>2, Recounting
      <4>2. Affected(book, o.drop, o.add, day) \subseteq x.members
        BY <1>1, <1>2, <1>4, <3>2 DEF Fits
      <4>3. /\ b \in Books /\ b.holidays = (book.holidays \ o.drop) \cup o.add
            /\ b.adjusted = book.adjusted
            /\ \A r \in Requests : Owner[r] \notin x.members => b.rows[r] = book.rows[r]
        BY <4>1, <4>2 DEF Recounted, Sound
      <4>4. b.rows = [r \in Requests |-> IF Owner[r] \in x.members THEN b.rows[r] ELSE book.rows[r]]
        BY <4>3 DEF Books
      <4>5. b = [rows |-> [r \in Requests |-> IF Owner[r] \in x.members THEN b.rows[r] ELSE book.rows[r]],
                 holidays |-> (book.holidays \ o.drop) \cup o.add, adjusted |-> book.adjusted]
        BY <4>3, <4>4, SameBook
      <4>6. QED
        BY <3>2, <4>3, <4>5 DEF Written
    <3>3. QED
      BY <3>1, <3>2
  <2>3. v \in Writing
    BY <1>2, <2>2 DEF Writing
  <2>4. CanWrite(book, today, o, x.members, b)
    <3>1. book.holidays \in SUBSET HolidayDays
      BY <1>3 DEF Sound, Books
    <3>2. On(book, book.holidays) = book
      BY <1>3, <3>1, OtherHolidays
    <3>3. Written(book, o, x.members, b) \in Effect(o, book, day)
      BY <1>7, <2>2
    <3>4. o.kind = "calendar" => Affected(book, o.drop, o.add, day) \subseteq x.members
      BY <1>1, <1>2, <1>4 DEF Fits
    <3> HIDE DEF day
    <3>5. QED
      BY <1>4, <3>1, <3>2, <3>3, <3>4 DEF CanWrite
  <2>5. tx' = [tx EXCEPT ![t] = v]
    BY <1>7
  <2> HIDE DEF v
  <2>6. Fits(v, book, today)
    BY <1>1, <1>2, <2>1, <2>4 DEF Fits
  <2>7. ASSUME NEW u \in Txs \ {t}, Working(u)
        PROVE  Compatible(v, tx[u]) /\ Compatible(tx[u], v)
    <3>1. Compatible(x, tx[u]) /\ Compatible(tx[u], x)
      BY <1>2, <2>7 DEF IInv, TxInv
    <3>2. \A m \in x.members : ~ OwnsMember(u, m)
      BY <1>1 DEF Operate, Blockers
    <3>3. tx[u].phase = "commit" => x.members \cap tx[u].members = {}
      BY <3>2 DEF OwnsMember
    <3>4. QED
      BY <1>1, <2>1, <3>1, <3>3 DEF Compatible
  <2>8. QED
    BY <1>1, <1>5, <2>3, <2>5, <2>6, <2>7, OneMoves
<1>8. QED
  BY <1>6, <1>7 DEF Operate

\* A transaction that is rolled back gives its locks and its staged days up.
LEMMA RollBackStep ==
  ASSUME IInv, NEW t \in Txs, RollBack(t)
  PROVE  IInv'
<1>1. tx' = [tx EXCEPT ![t] = Idle] /\ UNCHANGED <<book, today, begun>>
  BY DEF RollBack
<1>2. begun' \in 0 .. MaxTxs
  BY <1>1 DEF IInv, BookInv
<1>3. QED
  BY <1>1, <1>2, OneMoves DEF Idle

\* A commit leaves a sound book, without double bookings, whose days follow the calendar.
LEMMA CommitKeepsBook ==
  ASSUME NEW b, Sound(b), Disjoint(b), NEW now \in 1 .. LastToday,
         Follows(b.rows, b.holidays, now), NEW o \in Ops, NEW day \in 1 .. now, NEW c,
         o.kind # "calendar" => OneMembers(o, b, c, day),
         o.kind = "calendar" => Recounted(b, c, o, day)
  PROVE  Sound(c) /\ Disjoint(c) /\ Follows(c.rows, c.holidays, now)
<1>1. day \in Days /\ now \in Days /\ day <= now
  BY PastDays
<1>2. Sound(c)
  BY DEF OneMembers, Recounted
<1>3. Disjoint(c)
  BY <1>1, StaysDisjoint
<1>4. CASE o.kind # "calendar"
  <2>1. Follows(c.rows, b.holidays, now)
    BY <1>1, <1>4, OneFollows
  <2>2. c.holidays = b.holidays
    BY <1>4 DEF OneMembers, Frame
  <2>3. QED
    BY <1>2, <1>3, <2>1, <2>2
<1>5. CASE o.kind = "calendar"
  BY <1>1, <1>2, <1>3, <1>5, AllFollow
<1>6. QED
  BY <1>4, <1>5

\* What another transaction relies on is none of what a commit changes.
LEMMA CommitKeepsOthers ==
  ASSUME NEW b, Sound(b), NEW c, Sound(c), NEW now \in 1 .. LastToday, NEW day \in 1 .. now,
         NEW x \in Writing, x.op.kind # "calendar" => OneMembers(x.op, b, c, day),
         x.op.kind = "calendar" =>
            Recounted(b, c, x.op, day) /\ Affected(b, x.op.drop, x.op.add, day) \subseteq x.members,
         x.op.kind # "calendar" => x.members = {MemberOf(x.op)},
         NEW y \in Waiting \cup Writing, Fits(y, b, now), Compatible(x, y), Compatible(y, x)
  PROVE  Fits(y, c, now)
<1> DEFINE o == x.op
           p == y.op
<1>1. o \in Ops /\ x.phase = "commit" /\ x.members \in SUBSET Members
  BY DEF Writing
<1>2. p \in Ops /\ y.members \in SUBSET Members
  BY DEF Waiting, Writing
<1>3. o.kind # "calendar" => c.holidays = b.holidays
  BY DEF OneMembers, Frame
<1>4. \A m \in Members \ x.members : AgreeOn(b, c, m)
  <2>1. CASE o.kind # "calendar"
    BY <2>1 DEF OneMembers, Frame, AgreeOn
  <2>2. CASE o.kind = "calendar"
    BY <2>2 DEF Recounted, AgreeOn
  <2>3. QED
    BY <2>1, <2>2
<1>5. p.kind = "calendar" => MayChange(c, p.drop, p.add)
  <2>1. CASE o.kind # "calendar"
    BY <1>3, <2>1 DEF Fits, MayChange
  <2>2. CASE o.kind = "calendar"
    BY <2>2 DEF Fits, MayChange, Recounted, Compatible
  <2>3. QED
    BY <2>1, <2>2
<1>6. (p.kind = "calendar" /\ y.phase # "policy") =>
        \A d \in 1 .. now : Affected(c, p.drop, p.add, d) \subseteq Affected(b, p.drop, p.add, d)
  <2> SUFFICES ASSUME p.kind = "calendar", y.phase # "policy", NEW d \in 1 .. now
               PROVE  Affected(c, p.drop, p.add, d) \subseteq Affected(b, p.drop, p.add, d)
    OBVIOUS
  <2>1. o.kind \in OneMemberKinds
    BY <1>1, OpFields DEF Compatible, PolicyKinds, OneMemberKinds
  <2>2. OneMembers(o, b, c, day)
    BY <2>1 DEF OneMemberKinds
  <2>3. Min(p.drop \cup p.add) \in Int /\ d \in Int /\ day \in Int
    BY <1>2, FirstDay, PastDays
  <2>4. open_for_policy_from(c, Min(p.drop \cup p.add), d)
          \subseteq open_for_policy_from(b, Min(p.drop \cup p.add), d)
    BY <1>1, <2>1, <2>2, <2>3, NoNewOpen DEF OneMemberKinds
  <2>5. QED
    BY <2>4 DEF Affected
<1>7. (p.kind = "calendar" /\ y.phase = "member") =>
        y.day \in 1 .. now /\ Affected(c, p.drop, p.add, y.day) \subseteq y.members
  BY <1>6 DEF Fits
<1>8. y.phase = "commit" => CanWrite(c, now, p, y.members, y.wrote)
  <2> SUFFICES ASSUME y.phase = "commit" PROVE CanWrite(c, now, p, y.members, y.wrote)
    OBVIOUS
  <2>1. CanWrite(b, now, p, y.members, y.wrote) /\ (p.kind # "calendar" => y.members = {MemberOf(p)})
    BY DEF Fits
  <2>2. \A m \in y.members : AgreeOn(b, c, m)
    BY <1>1, <1>2, <1>4 DEF Compatible
  <2>3. p.kind \notin Timeless \cup {"cancel"} => b.holidays = c.holidays
    <3>1. p.kind \notin Timeless \cup {"cancel"} => p.kind \in PolicyKinds \cup {"calendar"}
      BY <1>2, OpFields DEF Timeless, PolicyKinds
    <3>2. QED
      BY <1>1, <1>3, <3>1 DEF Compatible
  <2>4. p.kind = "calendar" =>
          \A d \in 1 .. now : Affected(c, p.drop, p.add, d) \subseteq Affected(b, p.drop, p.add, d)
    BY <1>6
  <2>5. QED
    BY <1>2, <2>1, <2>2, <2>3, <2>4, StillWrites
<1>9. QED
  BY <1>5, <1>7, <1>8 DEF Fits

\* A commit keeps the invariant.
LEMMA CommitStep ==
  ASSUME IInv, NEW t \in Txs, Commit(t)
  PROVE  IInv'
<1> DEFINE x == tx[t]
           o == x.op
<1>1. /\ book' = Written(book, o, x.members, x.wrote) /\ x.phase = "commit"
      /\ tx' = [tx EXCEPT ![t] = Idle] /\ UNCHANGED <<today, begun>>
  BY DEF Commit
<1>2. Working(t) /\ x \in Writing /\ o \in Ops /\ Fits(x, book, today)
  <2>1. Working(t)
    BY <1>1 DEF Working
  <2>2. QED
    BY <1>1, <2>1, AtWork DEF IInv, TxInv
<1>3. /\ Sound(book) /\ Disjoint(book) /\ Follows(book.rows, book.holidays, today)
      /\ today \in 1 .. LastToday /\ begun \in 0 .. MaxTxs
  BY DEF IInv, BookInv
<1>4. CanWrite(book, today, o, x.members, x.wrote) /\ (o.kind # "calendar" => x.members = {MemberOf(o)})
  BY <1>1, <1>2 DEF Fits
<1>5. PICK day \in 1 .. today :
        /\ o.kind # "calendar" => OneMembers(o, book, book', day)
        /\ o.kind = "calendar" =>
             Recounted(book, book', o, day) /\ Affected(book, o.drop, o.add, day) \subseteq x.members
  BY <1>1, <1>2, <1>3, <1>4, Committing
<1>6. Sound(book') /\ Disjoint(book') /\ Follows(book'.rows, book'.holidays, today)
  BY <1>2, <1>3, <1>5, CommitKeepsBook
<1>7. BookInv'
  BY <1>1, <1>3, <1>6 DEF BookInv
<1>8. tx' \in [Txs -> {Idle} \cup Waiting \cup Writing]
  BY <1>1 DEF IInv, TxInv
<1>9. ~ Working(t)' /\ \A u \in Txs \ {t} : tx'[u] = tx[u]
  BY <1>1 DEF IInv, TxInv, Working, Idle
<1>10. ASSUME NEW u \in Txs, Working(u)' PROVE Fits(tx'[u], book', today')
  <2>1. u # t /\ tx'[u] = tx[u] /\ Working(u) /\ today' = today
    BY <1>1, <1>9, <1>10 DEF Working
  <2>2. tx[u] \in Waiting \cup Writing /\ Fits(tx[u], book, today)
    BY <2>1, AtWork DEF IInv, TxInv
  <2>3. Compatible(x, tx[u]) /\ Compatible(tx[u], x)
    BY <1>2, <2>1 DEF IInv, TxInv
  <2>4. Fits(tx[u], book', today)
    BY <1>2, <1>3, <1>4, <1>5, <1>6, <2>2, <2>3, CommitKeepsOthers
  <2>5. QED
    BY <2>1, <2>4
<1>11. ASSUME NEW u \in Txs, NEW w \in Txs, u # w, Working(u)', Working(w)'
       PROVE  Compatible(tx'[u], tx'[w])
  <2>1. u # t /\ w # t /\ tx'[u] = tx[u] /\ tx'[w] = tx[w] /\ Working(u) /\ Working(w)
    BY <1>9, <1>11 DEF Working
  <2>2. Compatible(tx[u], tx[w])
    BY <1>11, <2>1 DEF IInv, TxInv
  <2>3. QED
    BY <2>1, <2>2
<1>12. TxInv'
  BY <1>8, <1>10, <1>11 DEF TxInv
<1>13. QED
  BY <1>7, <1>12 DEF IInv

\* The next day fewer rows are to come, and the days that have been still have.
LEMMA NextDayStep ==
  ASSUME IInv, NextDay
  PROVE  IInv'
<1>1. today' = today + 1 /\ today < LastToday /\ UNCHANGED <<book, tx, begun>>
  BY DEF NextDay
<1>2. Sound(book) /\ today \in 1 .. LastToday /\ Follows(book.rows, book.holidays, today)
  BY DEF IInv, BookInv
<1>3. today' \in 1 .. LastToday /\ 1 .. today \subseteq 1 .. today'
  BY <1>1, <1>2, Bounds
<1>4. Follows(book.rows, book.holidays, today')
  <2> SUFFICES ASSUME NEW r \in Requests,
                      book.rows[r].status = "pending"
                        \/ (book.rows[r].status = "approved" /\ book.rows[r].start >= today')
               PROVE  book.rows[r].days = CountOn(book.holidays, book.rows[r].start, book.rows[r].end)
    BY DEF Follows
  <2>1. book.rows[r].start \in Int
    BY <1>2, Dates
  <2>2. QED
    BY <1>1, <1>2, <2>1 DEF Follows
<1>5. BookInv'
  BY <1>1, <1>3, <1>4 DEF IInv, BookInv
<1>6. ASSUME NEW t \in Txs, Working(t) PROVE Fits(tx[t], book, today')
  <2>1. Fits(tx[t], book, today)
    BY <1>6 DEF IInv, TxInv
  <2>2. tx[t].phase = "commit" => CanWrite(book, today', tx[t].op, tx[t].members, tx[t].wrote)
    BY <1>3, <2>1 DEF Fits, CanWrite
  <2>3. QED
    BY <1>3, <2>1, <2>2 DEF Fits
<1>7. TxInv'
  BY <1>1, <1>6 DEF IInv, TxInv, Working
<1>8. QED
  BY <1>5, <1>7 DEF IInv

\* The invariant is inductive.
LEMMA StepIInv ==
  ASSUME IInv, [Next]_vars
  PROVE  IInv'
<1>1. CASE UNCHANGED vars
  <2>1. book' = book /\ today' = today /\ tx' = tx /\ begun' = begun
    BY <1>1 DEF vars
  <2>2. QED
    BY <2>1 DEF IInv, BookInv, TxInv, Working
<1>2. ASSUME NEW t \in Txs, Step(t) PROVE IInv'
  BY <1>2, LockPolicyStep, FindStep, OperateStep, CommitStep, RollBackStep DEF Step
<1>3. ASSUME NEW t \in Txs, NEW o \in Ops, Begin(t, o) PROVE IInv'
  BY <1>3, BeginStep
<1>4. CASE NextDay
  BY <1>4, NextDayStep
<1>5. QED
  BY <1>1, <1>2, <1>3, <1>4 DEF Next

\* So it always holds.
THEOREM IInvAlways == Spec => []IInv
<1>1. Init => IInv
  BY InitIInv
<1>2. IInv /\ [Next]_vars => IInv'
  BY StepIInv
<1>3. QED
  BY <1>1, <1>2, PTL DEF Spec

-----------------------------------------------------------------------------
(* What follows for the system.                                                 *)

\* LeaveTypeOK: every committed row is one that the table's CHECKs accept, with no more
\* loss of pay than days, whatever operations ran at the same time.
THEOREM LeaveTypeCorrect == Spec => []LeaveTypeOK
<1>1. IInv => LeaveTypeOK
  <2> SUFFICES ASSUME IInv PROVE LeaveTypeOK
    OBVIOUS
  <2>1. book \in Books /\ \A r \in Requests : book.rows[r].lop <= book.rows[r].days
    BY DEF IInv, BookInv, Sound, SoundRow
  <2>2. today \in Days /\ begun \in 0 .. MaxTxs
    BY Bounds DEF IInv, BookInv
  <2>3. \A t \in Txs : tx[t].phase \in Phases
    BY DEF IInv, TxInv, Idle, Waiting, Writing, Phases
  <2>4. QED
    BY <2>1, <2>2, <2>3 DEF LeaveTypeOK
<1>2. QED
  BY <1>1, IInvAlways, PTL

\* NoDoubleBooking: the member's row lock and the overlap check keep every two booked
\* requests of a member apart, for any number of transactions at a time.
THEOREM NoDayBookedTwice == Spec => []NoDoubleBooking
<1>1. IInv => NoDoubleBooking
  BY DEF IInv, BookInv, Disjoint, NoDoubleBooking
<1>2. QED
  BY <1>1, IInvAlways, PTL

\* DaysFollowCalendar: the policy's row lock lets no request slip past a change of the
\* holidays; what waits or has not begun is counted on the holidays as they stand.
THEOREM DaysAreCounted == Spec => []DaysFollowCalendar
<1>1. IInv => DaysFollowCalendar
  BY DEF IInv, BookInv, Follows, CountOn, DaysFollowCalendar, count_days
<1>2. QED
  BY <1>1, IInvAlways, PTL

\* OnlyCalendarsDeadlock: policy before member is an order; the transactions that wait
\* for each other are changes of the calendar, which share the policy before they own it.
THEOREM LocksAreOrdered == Spec => []OnlyCalendarsDeadlock
<1>1. OnlyCalendarsDeadlock
  BY DEF OnlyCalendarsDeadlock, Deadlocked, Blockers, OwnsPolicy, SharesPolicy,
         ReferencesPolicy, OwnsMember, IsCalendar, Working
<1>2. QED
  BY <1>1, PTL

\* A commit takes one step of the abstract book, or none.
LEMMA CommitIsAtomic ==
  ASSUME IInv, NEW t \in Txs, Commit(t)
  PROVE  [Atomic!Next]_<<book, today>>
<1> DEFINE x == tx[t]
           o == x.op
<1>1. /\ book' = Written(book, o, x.members, x.wrote) /\ x.phase = "commit"
      /\ UNCHANGED today
  BY DEF Commit
<1>2. o \in Ops /\ CanWrite(book, today, o, x.members, x.wrote) /\ Sound(book)
  <2>1. Working(t)
    BY <1>1 DEF Working
  <2>2. QED
    BY <1>1, <2>1, AtWork DEF IInv, TxInv, BookInv, Fits
<1>3. PICK day \in 1 .. today, h \in SUBSET HolidayDays :
        /\ o.kind # "cancel" => h = book.holidays
        /\ Written(On(book, h), o, x.members, x.wrote) \in Effect(o, On(book, h), day)
  BY <1>2 DEF CanWrite
<1>4. /\ On(book, h).rows = book.rows /\ On(book, h).adjusted = book.adjusted
      /\ On(book, h).holidays = h /\ On(book, book.holidays) = book
  BY <1>2, OtherHolidays
<1>5. CASE o.kind # "cancel"
  <2>1. book' \in Effect(o, book, day)
    BY <1>1, <1>3, <1>4, <1>5
  <2>2. Atomic!Operation(o)
    BY <1>1, <2>1 DEF Atomic!Operation
  <2>3. QED
    BY <1>1, <1>2, <2>2 DEF Atomic!Next
<1>6. CASE o.kind = "cancel"
  <2>1. book'.holidays = book.holidays
    BY <1>1, <1>6 DEF Written
  <2>2. [book' EXCEPT !.holidays = h] = Written(On(book, h), o, x.members, x.wrote)
    BY <1>1, <1>4, <1>6 DEF Written
  <2>3. [book' EXCEPT !.holidays = h] \in Effect(o, [book EXCEPT !.holidays = h], day)
    BY <1>3, <2>2 DEF On
  <2>4. Atomic!Operation(o)
    BY <1>1, <1>6, <2>1, <2>3 DEF Atomic!Operation
  <2>5. QED
    BY <1>1, <1>2, <2>4 DEF Atomic!Next
<1>7. QED
  BY <1>5, <1>6

\* ImplementsBook: the locks make every operation atomic.  Whatever transactions
\* interleave, roll back or read before others commit, the book changes as if each
\* operation were one step on it.
THEOREM TransactionsAreAtomic == Spec => ImplementsBook
<1>1. Init => Atomic!Init
  BY DEF Init, Atomic!Init
<1>2. IInv /\ [Next]_vars => [Atomic!Next]_<<book, today>>
  <2> SUFFICES ASSUME IInv, [Next]_vars PROVE [Atomic!Next]_<<book, today>>
    OBVIOUS
  <2>1. CASE UNCHANGED vars
    BY <2>1 DEF vars
  <2>2. ASSUME NEW t \in Txs, Step(t) PROVE [Atomic!Next]_<<book, today>>
    <3>1. CASE Commit(t)
      BY <3>1, CommitIsAtomic
    <3>2. CASE LockPolicy(t) \/ Find(t) \/ Operate(t) \/ RollBack(t)
      BY <3>2 DEF LockPolicy, Find, Operate, RollBack
    <3>3. QED
      BY <2>2, <3>1, <3>2 DEF Step
  <2>3. ASSUME NEW t \in Txs, NEW o \in Ops, Begin(t, o) PROVE [Atomic!Next]_<<book, today>>
    BY <2>3 DEF Begin
  <2>4. CASE NextDay
    BY <2>4 DEF NextDay, Atomic!Next, Atomic!NextDay
  <2>5. QED
    BY <2>1, <2>2, <2>3, <2>4 DEF Next
<1>3. QED
  BY <1>1, <1>2, IInvAlways, PTL DEF Spec, ImplementsBook, Atomic!Spec

-----------------------------------------------------------------------------
(* What is paid.  First, a finite sum does not depend on the order it is taken in. *)

SumOver(f, U) == SumFunction([u \in U |-> f[u]])

\* The sums over the subsets are those that the sum over the whole goes through.
LEMMA SumWithin ==
  ASSUME NEW S, IsFiniteSet(S), NEW f, NEW g, IsSum(g, f, S), NEW V \in SUBSET S
  PROVE  SumOver(f, V) = g[V]
<1> DEFINE fV == [u \in V |-> f[u]]
           gV == [s \in SUBSET V |-> g[s]]
<1>1. IsFiniteSet(V)
  BY FS_Subset
<1>2. PICK k : IsSum(k, fV, V) /\ SumFunctionOnSet(fV, V) = k[V]
  BY <1>1, SumIs
<1>3. \A s \in SUBSET V : gV[s] = IF s = {} THEN 0 ELSE fV[Pick(s)] + gV[s \ {Pick(s)}]
  <2> SUFFICES ASSUME NEW s \in SUBSET V
               PROVE  gV[s] = IF s = {} THEN 0 ELSE fV[Pick(s)] + gV[s \ {Pick(s)}]
    OBVIOUS
  <2>1. g[s] = IF s = {} THEN 0 ELSE f[Pick(s)] + g[s \ {Pick(s)}]
    BY DEF IsSum
  <2>2. s # {} => Pick(s) \in V /\ s \ {Pick(s)} \in SUBSET V
    BY PickIn
  <2>3. QED
    BY <2>1, <2>2
<1>4. IsSum(gV, fV, V)
  BY <1>3 DEF IsSum
<1> HIDE DEF gV, fV
<1>5. k[V] = gV[V]
  BY <1>1, <1>2, <1>4, SumUnique
<1>6. SumOver(f, V) = SumFunctionOnSet(fV, V)
  BY DEF SumOver, SumFunction, fV
<1>7. QED
  BY <1>2, <1>5, <1>6 DEF gV

\* A sum of integers is what any one of them adds to the sum of the others.
LEMMA SumTakes ==
  ASSUME NEW S, IsFiniteSet(S), NEW f \in [S -> Int]
  PROVE  /\ SumOver(f, {}) = 0
         /\ \A U \in SUBSET S : SumOver(f, U) \in Int
         /\ \A U \in SUBSET S : \A x \in U : SumOver(f, U) = f[x] + SumOver(f, U \ {x})
<1>1. PICK g : IsSum(g, f, S)
  BY SumExists
<1>2. \A U \in SUBSET S : SumOver(f, U) = g[U]
  BY <1>1, SumWithin
<1>3. SumOver(f, {}) = 0
  BY <1>1, <1>2 DEF IsSum
<1>4. ASSUME NEW U \in SUBSET S PROVE SumOver(f, U) \in Int
  <2>1. IsFiniteSet(U) /\ [u \in U |-> f[u]] \in [U -> Int]
    BY FS_Subset
  <2>2. QED
    BY <2>1, SumInt DEF SumOver
<1> DEFINE Bad == {U \in SUBSET S : \E x \in U : g[U] # f[x] + g[U \ {x}]}
<1>5. Bad = {}
  <2> SUFFICES ASSUME Bad # {} PROVE FALSE
    OBVIOUS
  <2>1. PICK U \in Bad : \A W \in Bad : W \subseteq U => W = U
    <3>1. Bad \in SUBSET (SUBSET S) /\ Bad # {}
      OBVIOUS
    <3> HIDE DEF Bad
    <3>2. QED
      BY <3>1, LeastSubset
  <2>2. PICK x \in U : g[U] # f[x] + g[U \ {x}]
    OBVIOUS
  <2> DEFINE p == Pick(U)
  <2>3. p \in U /\ g[U] = f[p] + g[U \ {p}]
    BY <1>1, <2>2, PickIn DEF IsSum
  <2>4. x # p
    BY <2>2, <2>3
  <2> HIDE DEF p
  <2>5. U \ {p} \in SUBSET S /\ U \ {p} \notin Bad /\ x \in U \ {p}
    BY <2>1, <2>3, <2>4
  <2>6. U \ {x} \in SUBSET S /\ U \ {x} \notin Bad /\ p \in U \ {x}
    BY <2>1, <2>3, <2>4
  <2>7. g[U \ {p}] = f[x] + g[(U \ {p}) \ {x}]
    BY <2>5
  <2>8. g[U \ {x}] = f[p] + g[(U \ {x}) \ {p}]
    BY <2>6
  <2>9. (U \ {p}) \ {x} = (U \ {x}) \ {p} /\ (U \ {p}) \ {x} \in SUBSET S
    OBVIOUS
  <2>10. g[(U \ {p}) \ {x}] \in Int /\ f[x] \in Int /\ f[p] \in Int
    <3>1. g[(U \ {p}) \ {x}] \in Int
      BY <1>2, <1>4, <2>9
    <3>2. QED
      BY <2>3, <3>1
  <2>11. g[U \ {x}] = f[p] + g[(U \ {p}) \ {x}]
    BY <2>8, <2>9
  <2>12. g[U] = f[p] + (f[x] + g[(U \ {p}) \ {x}])
    BY <2>3, <2>7
  <2>13. \A i, j, k \in Int : i + (j + k) = j + (i + k)
    OBVIOUS
  <2>14. g[U] = f[x] + g[U \ {x}]
    BY <2>10, <2>11, <2>12, <2>13
  <2>15. QED
    BY <2>2, <2>14
<1>6. \A U \in SUBSET S : \A x \in U : SumOver(f, U) = f[x] + SumOver(f, U \ {x})
  BY <1>2, <1>5
<1>7. QED
  BY <1>3, <1>4, <1>6

\* Smaller numbers, none below zero, have a smaller sum.
LEMMA SumGrows ==
  ASSUME NEW S, IsFiniteSet(S), NEW f \in [S -> Int], NEW h \in [S -> Int],
         \A x \in S : 0 <= f[x] /\ f[x] <= h[x], NEW U \in SUBSET S
  PROVE  0 <= SumOver(f, U) /\ SumOver(f, U) <= SumOver(h, U)
<1> DEFINE Ok(V) == 0 <= SumOver(f, V) /\ SumOver(f, V) <= SumOver(h, V)
           Bad == {V \in SUBSET S : ~ Ok(V)}
<1> SUFFICES ASSUME Bad # {} PROVE FALSE
  OBVIOUS
<1>1. PICK V \in Bad : \A W \in Bad : W \subseteq V => W = V
  <2>1. Bad \in SUBSET (SUBSET S) /\ Bad # {}
    OBVIOUS
  <2> HIDE DEF Bad
  <2>2. QED
    BY <2>1, LeastSubset
<1>2. SumOver(f, {}) = 0 /\ SumOver(h, {}) = 0 /\ Ok({})
  <2>1. SumOver(f, {}) = 0 /\ SumOver(h, {}) = 0
    BY SumTakes
  <2>2. QED
    BY <2>1
<1>3. V # {}
  <2>1. ~ Ok(V)
    BY <1>1
  <2> HIDE DEF Ok
  <2>2. QED
    BY <1>2, <2>1
<1>4. PICK x \in V : TRUE
  BY <1>3
<1>5. V \ {x} \notin Bad /\ V \ {x} \in SUBSET S
  BY <1>1
<1>6. Ok(V \ {x})
  BY <1>5
<1>7. SumOver(f, V) = f[x] + SumOver(f, V \ {x}) /\ SumOver(h, V) = h[x] + SumOver(h, V \ {x})
  BY SumTakes
<1>8. SumOver(f, V \ {x}) \in Int /\ SumOver(h, V \ {x}) \in Int /\ f[x] \in Int /\ h[x] \in Int
  BY <1>5, SumTakes
<1>9. 0 <= f[x] /\ f[x] <= h[x]
  OBVIOUS
<1>10. Ok(V)
  BY <1>6, <1>7, <1>8, <1>9
<1>11. QED
  BY <1>1, <1>10

\* What the balance covers of some days, and then of some more.
LEMMA PayInTurn ==
  ASSUME NEW before \in Nat, NEW days \in Nat, NEW total \in Int
  PROVE  Min({before, Max({0, total})}) + Min({days, Max({0, total - before})})
           = Min({days + before, Max({0, total})})
<1>1. Max({0, total}) = IF 0 >= total THEN 0 ELSE total
  BY MaxMin
<1>2. Max({0, total - before}) = IF 0 >= total - before THEN 0 ELSE total - before
  <2>1. total - before \in Int
    OBVIOUS
  <2> DEFINE left == total - before
  <2> HIDE DEF left
  <2>2. Max({0, left}) = IF 0 >= left THEN 0 ELSE left
    BY <2>1, MaxMin DEF left
  <2>3. QED
    BY <2>2 DEF left
<1> DEFINE all == Max({0, total})
           rest == Max({0, total - before})
           sum == days + before
<1>3. all \in Int /\ rest \in Int /\ sum \in Int
  BY <1>1, <1>2
<1> HIDE DEF all, rest, sum
<1>4. Min({before, all}) = IF before <= all THEN before ELSE all
  BY <1>3, MaxMin
<1>5. Min({days, rest}) = IF days <= rest THEN days ELSE rest
  BY <1>3, MaxMin
<1>6. Min({sum, all}) = IF sum <= all THEN sum ELSE all
  BY <1>3, MaxMin
<1>7. all = (IF 0 >= total THEN 0 ELSE total) /\ sum = days + before
        /\ rest = (IF 0 >= total - before THEN 0 ELSE total - before)
  BY <1>1, <1>2 DEF all, rest, sum
<1>8. Min({before, all}) + Min({days, rest}) = Min({sum, all})
  BY <1>4, <1>5, <1>6, <1>7
<1>9. QED
  BY <1>8 DEF all, rest, sum

\* The paid days of each request, and all of its days.
Paid(b) == [r \in Requests |-> b.rows[r].days - b.rows[r].lop]
Took(b) == [r \in Requests |-> b.rows[r].days]

\* What PaidIsWhatBalanceCovers says of one member.
Covered(b, m) ==
    PaidDays(b, Booked(b, m))
      = Min({BookedDays(b, Booked(b, m)), Max({0, Total(b, m)})})

\* The sums of the rules are sums of those.
LEMMA RulesSum ==
  ASSUME NEW b \in Books, NEW S \in SUBSET Requests
  PROVE  /\ Paid(b) \in [Requests -> Int] /\ Took(b) \in [Requests -> Nat]
         /\ PaidDays(b, S) = SumOver(Paid(b), S) /\ BookedDays(b, S) = SumOver(Took(b), S)
<1>1. \A r \in Requests : b.rows[r].days \in Nat /\ b.rows[r].lop \in Nat
  BY Bounds DEF Books, Rows
<1>2. Paid(b) \in [Requests -> Int] /\ Took(b) \in [Requests -> Nat]
  BY <1>1 DEF Paid, Took
<1>3. [r \in S |-> b.rows[r].days - b.rows[r].lop] = [u \in S |-> Paid(b)[u]]
  BY DEF Paid
<1>4. [r \in S |-> b.rows[r].days] = [u \in S |-> Took(b)[u]]
  BY DEF Took
<1>5. QED
  BY <1>2, <1>3, <1>4 DEF PaidDays, BookedDays, SumOver

\* Of some requests that start on different days one is the last.
LEMMA LastOne ==
  ASSUME NEW S \in SUBSET Requests, S # {}, NEW start \in [Requests -> Int]
  PROVE  \E l \in S : \A q \in S : start[q] <= start[l]
<1> DEFINE Later(e) == {q \in S : start[q] > start[e]}
           T == {Later(e) : e \in S}
<1>1. IsFiniteSet(S)
  BY Bounds, FS_Subset
<1>2. T \in SUBSET (SUBSET S) /\ T # {}
  <2>1. ASSUME NEW e \in S PROVE Later(e) \in SUBSET S
    BY Zenon
  <2> HIDE DEF Later
  <2>2. QED
    BY ONLY <2>1, S # {}
<1> HIDE DEF T
<1>3. PICK x \in T : \A y \in T : y \subseteq x => y = x
  BY <1>1, <1>2, LeastSubset
<1>4. PICK l \in S : x = Later(l)
  BY <1>3 DEF T
<1>5. ASSUME NEW q \in S, start[q] > start[l] PROVE FALSE
  <2>1. start[q] \in Int /\ start[l] \in Int /\ \A e \in S : start[e] \in Int
    OBVIOUS
  <2>2. Later(q) \subseteq Later(l)
    BY <1>5, <2>1
  <2>3. Later(q) \in T
    BY DEF T
  <2>4. Later(q) = Later(l)
    BY <1>3, <1>4, <2>2, <2>3
  <2>5. q \in Later(l) /\ q \notin Later(q)
    BY <1>5, <2>1
  <2>6. QED
    BY <2>4, <2>5
<1>6. \A q \in S : start[q] <= start[l]
  <2>1. \A q \in S : start[q] \in Int /\ start[l] \in Int
    OBVIOUS
  <2>2. QED
    BY <1>5, <2>1
<1>7. QED
  BY <1>6

\* What a rebalance pays of each request.
InTurn(p) == [r \in Requests |-> Min({p.rows[r].days, left_for(p, r)})]

\* Leave that is priced in the order of its start, each after what starts before it,
\* is paid for together as far as the balance goes.
LEMMA PricedTogether ==
  ASSUME NEW p \in Books, \A r \in Requests : LooseRow(p.rows[r]), Disjoint(p),
         NEW m \in Members
  PROVE  SumOver(InTurn(p), Booked(p, m))
           = Min({BookedDays(p, Booked(p, m)), Max({0, Total(p, m)})})
<1> DEFINE paid == InTurn(p)
           mine == Booked(p, m)
           start == [r \in Requests |-> p.rows[r].start]
           D(S) == SumOver(Took(p), S)
           total == Total(p, m)
           Claim(S) == SumOver(paid, S) = Min({D(S), Max({0, total})})
           Initial(S) == \A q \in S, e \in mine : start[e] < start[q] => e \in S
           Bad == {S \in SUBSET mine : Initial(S) /\ ~ Claim(S)}
<1>1. IsFiniteSet(Requests) /\ mine \in SUBSET Requests /\ IsFiniteSet(mine)
  BY Bounds, FS_Subset DEF Booked
<1>2. total \in Int
  BY <1>1, TotalsAreNumbers
<1>3. Took(p) \in [Requests -> Nat] /\ \A S \in SUBSET Requests : BookedDays(p, S) = D(S)
  BY RulesSum
<1>4. \A r \in Requests : p.rows[r].days \in Nat /\ left_for(p, r) \in Nat
  BY <1>3, LeftIsNat DEF Took
<1>5. paid \in [Requests -> Int]
  <2>1. \A i, j \in Nat : Min({i, j}) \in Int
    <3> SUFFICES ASSUME NEW i \in Nat, NEW j \in Nat PROVE Min({i, j}) \in Int
      OBVIOUS
    <3>1. Min({i, j}) = IF i <= j THEN i ELSE j
      BY MaxMin
    <3>2. QED
      BY <3>1
  <2>2. QED
    BY <1>4, <2>1 DEF InTurn
<1>6. start \in [Requests -> Int]
  <2>1. Days \subseteq Int
    BY Bounds
  <2>2. QED
    BY <2>1 DEF Books, Rows
<1>7. \A q, e \in mine : q # e => start[q] # start[e]
  <2> SUFFICES ASSUME NEW q \in mine, NEW e \in mine, q # e PROVE start[q] # start[e]
    OBVIOUS
  <2>1. /\ q \in Requests /\ e \in Requests /\ Owner[q] = Owner[e]
        /\ Active(p.rows[q]) /\ Active(p.rows[e])
    BY DEF Booked
  <2>2. ~ Overlap(p.rows[q], p.rows[e].start, p.rows[e].end)
    BY <2>1 DEF Disjoint
  <2>3. p.rows[q].start <= p.rows[q].end /\ p.rows[e].start <= p.rows[e].end
    BY <2>1 DEF LooseRow
  <2>4. QED
    BY <1>6, <2>1, <2>2, <2>3 DEF Overlap
<1>8. \A S \in SUBSET mine : D(S) \in Nat
  <2>1. SumOver([r \in Requests |-> 0], {}) = 0
    BY <1>1, SumTakes
  <2>2. \A S \in SUBSET mine : 0 <= D(S) /\ D(S) <= D(S)
    <3>1. Took(p) \in [Requests -> Int] /\ \A x \in Requests : 0 <= Took(p)[x] /\ Took(p)[x] <= Took(p)[x]
      BY <1>3
    <3>2. QED
      BY <1>1, <3>1, SumGrows
  <2>3. \A S \in SUBSET mine : D(S) \in Int
    BY <1>1, <1>3, SumTakes
  <2> HIDE DEF D
  <2>4. QED
    BY <2>2, <2>3
<1> HIDE DEF paid, mine, start, D, total
<1>9. Bad = {}
  <2> SUFFICES ASSUME Bad # {} PROVE FALSE
    OBVIOUS
  <2>1. PICK S \in Bad : \A W \in Bad : W \subseteq S => W = S
    <3>1. Bad \in SUBSET (SUBSET mine) /\ Bad # {}
      OBVIOUS
    <3> HIDE DEF Bad
    <3>2. QED
      BY <1>1, <3>1, LeastSubset
  <2>2. S \in SUBSET mine /\ Initial(S) /\ ~ Claim(S)
    BY <2>1
  <2>3. S # {}
    <3>1. SumOver(paid, {}) = 0 /\ D({}) = 0
      <4>1. Took(p) \in [Requests -> Int]
        BY <1>3
      <4>2. QED
        BY <1>1, <1>5, <4>1, SumTakes DEF D
    <3>2. Max({0, total}) \in Nat
      BY <1>2, MaxMin
    <3> DEFINE all == Max({0, total})
    <3>3. all \in Nat /\ all \in Int
      BY <3>2
    <3> HIDE DEF all
    <3>4. Min({0, all}) = IF 0 <= all THEN 0 ELSE all
      BY <3>3, MaxMin
    <3>5. Min({0, all}) = 0
      BY <3>3, <3>4
    <3>6. Claim({})
      BY <3>1, <3>5 DEF all
    <3>7. QED
      BY <2>2, <3>6
  <2>4. PICK l \in S : \A q \in S : start[q] <= start[l]
    BY <1>1, <1>6, <2>2, <2>3, LastOne
  <2> DEFINE R == S \ {l}
  <2>5. R \in SUBSET mine /\ R # S /\ R \subseteq S /\ l \in Requests /\ l \in mine
    BY <1>1, <2>2
  <2>6. \A q \in R : start[q] < start[l]
    <3>1. \A q \in R : start[q] <= start[l] /\ start[q] # start[l] /\ start[q] \in Int /\ start[l] \in Int
      BY <1>1, <1>6, <1>7, <2>2, <2>4
    <3>2. QED
      BY <3>1
  <2>7. Initial(R)
    <3> SUFFICES ASSUME NEW q \in R, NEW e \in mine, start[e] < start[q] PROVE e \in R
      OBVIOUS
    <3>1. e \in S
      BY <2>2
    <3>2. start[e] \in Int /\ start[q] \in Int /\ start[l] \in Int /\ start[q] < start[l]
      BY <1>1, <1>6, <2>2, <2>6
    <3>3. QED
      BY <3>1, <3>2
  <2>8. Claim(R)
    BY <2>1, <2>5, <2>7
  <2>9. earlier(p, l) = R
    <3>1. earlier(p, l) = {e \in mine : start[e] < start[l]}
      <4>1. Owner[l] = m
        BY <2>5 DEF Booked, mine
      <4>2. \A e \in mine : start[e] = p.rows[e].start /\ start[l] = p.rows[l].start
        BY <1>1, <2>5 DEF start
      <4>3. earlier(p, l) = {e \in mine : p.rows[e].start < p.rows[l].start}
        BY <4>1 DEF earlier, mine
      <4>4. QED
        BY <4>2, <4>3
    <3>2. \A e \in mine : start[e] < start[l] => e \in R
      <4>1. start[l] \in Int
        BY <1>6, <2>5
      <4>2. QED
        BY <2>2, <2>4, <4>1
    <3>3. QED
      BY <2>5, <2>6, <3>1, <3>2
  <2>10. left_for(p, l) = Max({0, total - D(R)})
    <3>1. Owner[l] = m
      BY <2>5 DEF Booked, mine
    <3>2. BookedDays(p, R) = D(R)
      BY <1>1, <1>3, <2>5
    <3>3. QED
      BY <2>9, <3>1, <3>2 DEF left_for, total
  <2>11. SumOver(paid, S) = paid[l] + SumOver(paid, R) /\ D(S) = Took(p)[l] + D(R)
    <3>1. S \in SUBSET Requests /\ l \in S /\ Took(p) \in [Requests -> Int]
      BY <1>1, <1>3, <2>2
    <3>2. SumOver(paid, S) = paid[l] + SumOver(paid, S \ {l})
      BY <1>1, <1>5, <3>1, SumTakes
    <3>3. SumOver(Took(p), S) = Took(p)[l] + SumOver(Took(p), S \ {l})
      BY <1>1, <3>1, SumTakes
    <3>4. QED
      BY <3>2, <3>3 DEF D
  <2>12. Took(p)[l] = p.rows[l].days /\ Took(p)[l] \in Nat
    BY <1>3, <2>5 DEF Took
  <2>13. paid[l] = Min({Took(p)[l], Max({0, total - D(R)})})
    BY <2>5, <2>10, <2>12 DEF paid, InTurn
  <2>14. D(R) \in Nat
    BY <1>8, <2>5
  <2> HIDE DEF R
  <2>15. Min({D(R), Max({0, total})}) + Min({Took(p)[l], Max({0, total - D(R)})})
           = Min({Took(p)[l] + D(R), Max({0, total})})
    BY <1>2, <2>12, <2>14, PayInTurn
  <2>16. SumOver(paid, R) + paid[l] = Min({D(S), Max({0, total})})
    BY <2>8, <2>11, <2>13, <2>15
  <2>17. SumOver(paid, R) \in Int /\ paid[l] \in Int
    BY <1>1, <1>5, <2>5, SumTakes
  <2>18. QED
    BY <2>2, <2>11, <2>16, <2>17
<1>10. Initial(mine)
  OBVIOUS
<1>11. Claim(mine)
  BY <1>9, <1>10
<1>12. QED
  BY <1>1, <1>3, <1>11 DEF paid, mine, D, total

\* What a balance covers of some days.
Covers(days, total) == Min({days, Max({0, total})})

\* What it covers of some days beside others that it pays for already.
LEMMA PayBesides ==
  ASSUME NEW others \in Nat, NEW days \in Nat, NEW total \in Int, NEW paid \in Nat,
         paid <= others, NEW own \in Int, 0 <= own, own <= days,
         paid + own = Covers(days + others, total) \/ paid = Covers(others, total)
  PROVE  paid + Covers(days, total - paid) = Covers(days + others, total)
<1> DEFINE all == Max({0, total})
           left == total - paid
           rest == Max({0, left})
           sum == days + others
<1>1. all = (IF 0 >= total THEN 0 ELSE total) /\ all \in Int
  BY MaxMin
<1>2. left \in Int /\ sum \in Int
  OBVIOUS
<1>3. left = total - paid /\ sum = days + others
  OBVIOUS
<1> HIDE DEF left, sum
<1>4. rest = (IF 0 >= left THEN 0 ELSE left) /\ rest \in Int
  BY <1>2, MaxMin
<1> HIDE DEF all, rest
<1>5. Min({days, rest}) = IF days <= rest THEN days ELSE rest
  <2>1. days \in Int /\ rest \in Int
    BY <1>4
  <2>2. QED
    BY ONLY <2>1, MaxMin
<1>6. Min({sum, all}) = IF sum <= all THEN sum ELSE all
  <2>1. sum \in Int /\ all \in Int
    BY <1>1, <1>2
  <2>2. QED
    BY ONLY <2>1, MaxMin
<1>7. Min({others, all}) = IF others <= all THEN others ELSE all
  <2>1. others \in Int /\ all \in Int
    BY <1>1
  <2>2. QED
    BY ONLY <2>1, MaxMin
<1>8. \/ paid + own = Min({sum, all})
      \/ paid = Min({others, all})
  BY DEF sum, all, Covers
<1>9. paid + Min({days, rest}) = Min({sum, all})
  BY <1>1, <1>3, <1>4, <1>5, <1>6, <1>7, <1>8
<1>10. QED
  BY <1>9 DEF rest, left, sum, all, Covers

\* A rebalance leaves exactly what the balance covers paid.
LEMMA RebalancedCovers ==
  ASSUME NEW p, NEW members, SoundOncePriced(p, members), NEW m \in Members, m \in members,
         NEW x, x = rebalance(p, members), Disjoint(x)
  PROVE  Covered(x, m)
<1> DEFINE mine == Booked(p, m)
<1>1. /\ x \in Books /\ x.rows = PricedRows(p, members) /\ x.adjusted = p.adjusted
      /\ \A r \in Requests : Same(x.rows[r], p.rows[r])
  BY RebalancedRows
<1>2. p \in Books /\ \A r \in Requests : LooseRow(p.rows[r])
  BY DEF SoundOncePriced
<1>3. Disjoint(p)
  BY <1>1 DEF Disjoint, Same, Active, Overlap
<1>4. Booked(x, m) = mine /\ mine \in SUBSET Requests
  BY <1>1 DEF Booked, Active, Same
<1>5. Total(x, m) = Total(p, m)
  BY <1>1 DEF Total
<1>6. BookedDays(x, mine) = BookedDays(p, mine)
  <2>1. [r \in mine |-> x.rows[r].days] = [r \in mine |-> p.rows[r].days]
    BY <1>1, <1>4 DEF Same
  <2>2. QED
    BY <2>1 DEF BookedDays
<1>7. ASSUME NEW r \in mine PROVE Paid(x)[r] = InTurn(p)[r]
  <2> DEFINE days == p.rows[r].days
             left == left_for(p, r)
  <2>1. r \in Requests /\ Owner[r] \in members /\ Active(p.rows[r]) /\ p.rows[r] \in Rows
    BY <1>2 DEF Booked, Books
  <2>2. days \in Nat /\ left \in Nat
    <3>1. days \in 0 .. LastDay
      BY <2>1 DEF Rows
    <3>2. QED
      BY <1>2, <2>1, <3>1, Bounds, LeftIsNat
  <2>3. x.rows[r] = [p.rows[r] EXCEPT !.lop = UnpaidOf(days, left)]
    BY <1>1, <2>1 DEF PricedRows
  <2> HIDE DEF days, left
  <2>4. x.rows[r].days = days /\ x.rows[r].lop = UnpaidOf(days, left)
    BY <2>1, <2>3 DEF Rows, days
  <2>5. Min({days, left}) = IF days <= left THEN days ELSE left
    BY <2>2, MaxMin
  <2>6. Paid(x)[r] = Min({days, left})
    BY <2>1, <2>2, <2>4, <2>5 DEF Paid, UnpaidOf
  <2>7. QED
    BY <2>1, <2>6 DEF InTurn, days, left
<1>8. PaidDays(x, mine) = SumOver(InTurn(p), mine)
  <2>1. PaidDays(x, mine) = SumOver(Paid(x), mine)
    BY <1>1, <1>4, RulesSum
  <2>2. [u \in mine |-> Paid(x)[u]] = [u \in mine |-> InTurn(p)[u]]
    BY <1>7
  <2>3. QED
    BY <2>1, <2>2 DEF SumOver
<1>9. SumOver(InTurn(p), mine) = Min({BookedDays(p, mine), Max({0, Total(p, m)})})
  BY <1>2, <1>3, PricedTogether
<1> HIDE DEF mine
<1>10. QED
  BY <1>4, <1>5, <1>6, <1>8, <1>9 DEF Covered

\* It is a matter of the member's own leave.
LEMMA CoveredIsLocal ==
  ASSUME NEW b, NEW c, NEW m, AgreeOn(b, c, m), Covered(b, m)
  PROVE  Covered(c, m)
<1>1. Booked(b, m) = Booked(c, m)
  BY CostIsLocal
<1>2. \A r \in Booked(b, m) : b.rows[r] = c.rows[r]
  BY DEF AgreeOn, Booked
<1>3. Total(b, m) = Total(c, m)
  BY DEF AgreeOn, Total
<1>4. [r \in Booked(b, m) |-> b.rows[r].days - b.rows[r].lop]
        = [r \in Booked(c, m) |-> c.rows[r].days - c.rows[r].lop]
  BY <1>1, <1>2
<1>5. [r \in Booked(b, m) |-> b.rows[r].days] = [r \in Booked(c, m) |-> c.rows[r].days]
  BY <1>1, <1>2
<1>6. QED
  BY <1>1, <1>3, <1>4, <1>5 DEF Covered, PaidDays, BookedDays

\* Sums over requests, taken one by one.
LEMMA RequestSums ==
  ASSUME NEW f \in [Requests -> Int], NEW U \in SUBSET Requests
  PROVE  SumOver(f, U) \in Int /\ \A x \in U : SumOver(f, U) = f[x] + SumOver(f, U \ {x})
<1>1. IsFiniteSet(Requests)
  BY Bounds
<1>2. QED
  BY <1>1, SumTakes

\* A request that is priced beside the member's other leave.
LEMMA PricedBesides ==
  ASSUME NEW b, Sound(b), NEW x, Sound(x), NEW r \in Requests, NEW paid,
         Total(x, Owner[r]) = Total(b, Owner[r]),
         \A q \in Requests : q # r => x.rows[q] = b.rows[q],
         Active(x.rows[r]), NEW others, others = Booked(b, Owner[r]) \ {r},
         paid = PaidDays(b, others),
         x.rows[r].lop = UnpaidOf(x.rows[r].days, Max({0, Total(b, Owner[r]) - paid})),
         \/ ~ Active(b.rows[r])
         \/ Active(b.rows[r]) /\ b.rows[r].days = x.rows[r].days,
         Covered(b, Owner[r])
  PROVE  Covered(x, Owner[r])
<1> DEFINE m == Owner[r]
           days == x.rows[r].days
           total == Total(b, m)
           booked == SumOver(Took(b), others)
           own == IF Active(b.rows[r]) THEN Paid(b)[r] ELSE 0
<1>1. b \in Books /\ x \in Books /\ m \in Members /\ others \in SUBSET Requests
  BY Bounds DEF Sound, Booked
<1>2. /\ Paid(b) \in [Requests -> Int] /\ Took(b) \in [Requests -> Int]
      /\ Paid(x) \in [Requests -> Int] /\ Took(x) \in [Requests -> Int]
  BY <1>1, RulesSum
<1>3. \A q \in Requests : 0 <= Paid(b)[q] /\ Paid(b)[q] <= Took(b)[q] /\ 0 <= Took(b)[q]
  <2> SUFFICES ASSUME NEW q \in Requests
               PROVE  0 <= Paid(b)[q] /\ Paid(b)[q] <= Took(b)[q] /\ 0 <= Took(b)[q]
    OBVIOUS
  <2>1. b.rows[q].days \in 0 .. LastDay /\ b.rows[q].lop \in 0 .. LastDay /\ b.rows[q].lop <= b.rows[q].days
    BY DEF Sound, SoundRow, LooseRow, Rows
  <2>2. Paid(b)[q] = b.rows[q].days - b.rows[q].lop /\ Took(b)[q] = b.rows[q].days
    BY DEF Paid, Took
  <2>3. QED
    BY <2>1, <2>2, Bounds
<1>4. paid = SumOver(Paid(b), others) /\ paid \in Int /\ booked \in Int
        /\ 0 <= paid /\ paid <= booked
  <2>1. paid = SumOver(Paid(b), others)
    BY <1>1, RulesSum
  <2>2. paid \in Int /\ booked \in Int
    BY <1>1, <1>2, <2>1, RequestSums
  <2>3. 0 <= SumOver(Paid(b), others) /\ SumOver(Paid(b), others) <= booked
    BY <1>1, <1>2, <1>3, Bounds, SumGrows
  <2>4. QED
    BY <2>1, <2>2, <2>3
<1>5. days \in Nat /\ total \in Int
  <2>1. days \in 0 .. LastDay
    BY DEF Sound, SoundRow, LooseRow, Rows
  <2>2. QED
    BY <1>1, <2>1, Bounds, TotalsAreNumbers
<1>6. Booked(x, m) = others \cup {r} /\ r \notin others
  BY DEF Booked
<1>7. /\ PaidDays(x, Booked(x, m)) = Paid(x)[r] + paid
      /\ BookedDays(x, Booked(x, m)) = days + booked
  <2>1. Booked(x, m) \in SUBSET Requests /\ r \in Booked(x, m) /\ Booked(x, m) \ {r} = others
    BY <1>1, <1>6
  <2>2. SumOver(Paid(x), Booked(x, m)) = Paid(x)[r] + SumOver(Paid(x), others)
    <3>1. SumOver(Paid(x), Booked(x, m)) = Paid(x)[r] + SumOver(Paid(x), Booked(x, m) \ {r})
      BY <1>2, <2>1, RequestSums
    <3>2. QED
      BY <2>1, <3>1
  <2>3. SumOver(Took(x), Booked(x, m)) = Took(x)[r] + SumOver(Took(x), others)
    <3>1. SumOver(Took(x), Booked(x, m)) = Took(x)[r] + SumOver(Took(x), Booked(x, m) \ {r})
      BY <1>2, <2>1, RequestSums
    <3>2. QED
      BY <2>1, <3>1
  <2>4. [u \in others |-> Paid(x)[u]] = [u \in others |-> Paid(b)[u]]
    BY <1>1, <1>6 DEF Paid
  <2>5. [u \in others |-> Took(x)[u]] = [u \in others |-> Took(b)[u]]
    BY <1>1, <1>6 DEF Took
  <2>6. SumOver(Paid(x), others) = paid /\ SumOver(Took(x), others) = booked
    BY <1>4, <2>4, <2>5 DEF SumOver
  <2>7. Took(x)[r] = days
    BY DEF Took
  <2>8. QED
    BY <1>1, <2>1, <2>2, <2>3, <2>6, <2>7, RulesSum
<1> DEFINE left == Max({0, total - paid})
<1>8. left \in Nat
  <2> DEFINE rest == total - paid
  <2>1. rest \in Int
    BY <1>4, <1>5
  <2> HIDE DEF rest
  <2>2. Max({0, rest}) = IF 0 >= rest THEN 0 ELSE rest
    BY <2>1, MaxMin
  <2>3. QED
    BY <2>1, <2>2 DEF rest
<1>9. Paid(x)[r] = Min({days, left})
  <2>1. Paid(x)[r] = days - x.rows[r].lop /\ x.rows[r].lop = UnpaidOf(days, left)
    BY DEF Paid
  <2> HIDE DEF days, left
  <2>2. Min({days, left}) = IF days <= left THEN days ELSE left
    <3>1. days \in Int /\ left \in Int
      BY <1>5, <1>8
    <3>2. QED
      BY ONLY <3>1, MaxMin
  <2>3. QED
    BY <1>5, <1>8, <2>1, <2>2 DEF UnpaidOf
<1>10. /\ own \in 0 .. days
       /\ paid + own = Covers(days + booked, total) \/ paid = Covers(booked, total)
  <2>1. CASE ~ Active(b.rows[r])
    <3>1. Booked(b, m) = others
      BY <2>1 DEF Booked
    <3>2. paid = Covers(booked, total)
      <4>1. BookedDays(b, others) = booked
        BY <1>1, RulesSum
      <4>2. QED
        BY <3>1, <4>1 DEF Covered, Covers
    <3>3. QED
      BY <1>5, <2>1, <3>2
  <2>2. CASE Active(b.rows[r])
    <3>1. /\ r \in Booked(b, m) /\ Booked(b, m) \in SUBSET Requests
          /\ Took(b)[r] = days
      BY <2>2 DEF Booked, Took
    <3>2. SumOver(Paid(b), Booked(b, m)) = Paid(b)[r] + paid
      <4>1. SumOver(Paid(b), Booked(b, m)) = Paid(b)[r] + SumOver(Paid(b), Booked(b, m) \ {r})
        BY <1>2, <3>1, RequestSums
      <4>2. QED
        BY <1>4, <4>1
    <3>3. SumOver(Took(b), Booked(b, m)) = days + booked
      <4>1. SumOver(Took(b), Booked(b, m)) = Took(b)[r] + SumOver(Took(b), Booked(b, m) \ {r})
        BY <1>2, <3>1, RequestSums
      <4>2. QED
        BY <3>1, <4>1
    <3>4. Paid(b)[r] + paid = Covers(days + booked, total)
      BY <1>1, <3>1, <3>2, <3>3, RulesSum DEF Covered, Covers
    <3>5. own = Paid(b)[r] /\ Paid(b)[r] \in Int /\ 0 <= Paid(b)[r] /\ Paid(b)[r] <= days
      BY <1>2, <1>3, <2>2, <3>1
    <3> HIDE DEF own, days, booked, total
    <3>6. paid + own = Paid(b)[r] + paid
      BY <1>4, <3>5
    <3>7. own \in 0 .. days
      BY <1>5, <3>5
    <3>8. QED
      BY <3>4, <3>6, <3>7
  <2>3. QED
    BY <2>1, <2>2
<1> HIDE DEF own, days, booked, total
<1>11. paid + Covers(days, total - paid) = Covers(days + booked, total)
  <2>1. booked \in Nat /\ paid \in Nat /\ paid <= booked
    BY <1>4
  <2>2. own \in Int /\ 0 <= own /\ own <= days
    BY <1>5, <1>10
  <2>3. days \in Nat /\ total \in Int
    BY <1>5
  <2>4. paid + own = Covers(days + booked, total) \/ paid = Covers(booked, total)
    BY <1>10
  <2>5. QED
    BY ONLY <2>1, <2>2, <2>3, <2>4, PayBesides
<1>12. Paid(x)[r] + paid = paid + Covers(days, total - paid)
  <2>1. Paid(x)[r] \in Int /\ paid \in Int
    BY <1>2, <1>4
  <2>2. Paid(x)[r] + paid = paid + Paid(x)[r]
    BY <2>1
  <2>3. QED
    BY <1>9, <2>2 DEF Covers
<1>13. QED
  BY <1>7, <1>11, <1>12 DEF Covered, Covers, total

\* A submit is priced beside the member's other leave.
LEMMA SubmitCovers ==
  ASSUME NEW b, Sound(b), NEW r \in Requests, Covered(b, Owner[r]),
         NEW from \in Days, NEW to \in Days, from <= to,
         NEW day \in Days, NEW x \in submit(b, r, from, to, day)
  PROVE  Covered(x, Owner[r])
<1> DEFINE m == Owner[r]
           days == count_days(b, from, to)
           lop == UnpaidOf(days, available(b, m))
           row == [status |-> IF AutoApprove /\ lop = 0 THEN "approved" ELSE "pending",
                   start |-> from, end |-> to, days |-> days, lop |-> lop]
           others == Booked(b, m) \ {r}
           paid == PaidDays(b, others)
<1>1. b \in Books /\ b.rows[r].status = "none" /\ x = [b EXCEPT !.rows[r] = row]
  BY DEF submit, Sound
<1>2. Sound(x) /\ x.adjusted = b.adjusted
  BY Submitting DEF Touches
<1>3. /\ row.days = days /\ row.lop = lop /\ Active(row) /\ x.rows[r] = row
      /\ \A q \in Requests : q # r => x.rows[q] = b.rows[q]
  BY <1>1 DEF Books, Active
<1>4. Total(x, m) = Total(b, m)
  BY <1>2 DEF Total
<1>5. ~ Active(b.rows[r]) /\ others = Booked(b, m)
  BY <1>1 DEF Active, Booked
<1>6. lop = UnpaidOf(days, Max({0, Total(b, m) - paid}))
  BY <1>5 DEF available
<1>7. Active(x.rows[r]) /\ x.rows[r].lop = UnpaidOf(x.rows[r].days, Max({0, Total(b, m) - paid}))
  BY <1>3, <1>6
<1> HIDE DEF row, lop, days, others, paid
<1>8. others = Booked(b, m) \ {r} /\ paid = PaidDays(b, others)
  BY DEF others, paid
<1>9. ~ Active(b.rows[r]) /\ \A q \in Requests : q # r => x.rows[q] = b.rows[q]
  BY <1>3, <1>5
<1>10. QED
  BY <1>2, <1>4, <1>7, <1>8, <1>9, PricedBesides

\* So is a request that is approved, once its own paid days are released.
LEMMA ApproveCovers ==
  ASSUME NEW b, Sound(b), NEW r \in Requests, Covered(b, Owner[r]), NEW x \in approve(b, r)
  PROVE  Covered(x, Owner[r])
<1> DEFINE m == Owner[r]
           days == b.rows[r].days
           released == [b EXCEPT !.rows[r].lop = days]
           others == Booked(b, m) \ {r}
           paid == PaidDays(b, others)
           lop == UnpaidOf(days, available(released, m))
<1>1. /\ b \in Books /\ b.rows[r] \in Rows /\ b.rows[r].status = "pending" /\ others \in SUBSET Requests
      /\ days \in Int
  <2>1. b \in Books /\ b.rows[r] \in Rows /\ b.rows[r].status = "pending"
    BY DEF approve, Sound, SoundRow, LooseRow
  <2>2. b.rows[r].days \in 0 .. LastDay
    BY <2>1 DEF Rows
  <2>3. QED
    BY <2>1, <2>2 DEF Booked
<1>2. /\ x = [[b EXCEPT !.rows[r].lop = lop] EXCEPT !.rows[r].status = "approved"]
  BY DEF approve, reprice
<1>3. Sound(x) /\ x.adjusted = b.adjusted
  BY <1>1, Deciding DEF Touches
<1>4. /\ x.rows[r].days = days /\ x.rows[r].lop = lop /\ Active(x.rows[r])
      /\ \A q \in Requests : q # r => x.rows[q] = b.rows[q]
  <2> HIDE DEF lop
  <2>1. QED
    BY <1>1, <1>2 DEF Books, Rows, Active
<1>5. released \in Books /\ Booked(released, m) = Booked(b, m) /\ Total(released, m) = Total(b, m)
  <2>1. released = Put(b, r, [b.rows[r] EXCEPT !.lop = days])
    BY <1>1 DEF Books, Put
  <2>2. [b.rows[r] EXCEPT !.lop = days] \in Rows
    BY <1>1 DEF Rows
  <2>3. /\ released \in Books /\ released.adjusted = b.adjusted
        /\ released.rows[r] = [b.rows[r] EXCEPT !.lop = days]
        /\ \A q \in Requests : q # r => released.rows[q] = b.rows[q]
    BY <1>1, <2>2 DEF Books
  <2>4. released.rows[r].status = b.rows[r].status
    BY <1>1, <2>3 DEF Rows
  <2> HIDE DEF released
  <2>5. QED
    BY <2>3, <2>4 DEF Booked, Active, Total
<1>6. /\ released.rows[r].days - released.rows[r].lop = 0
      /\ \A q \in Requests : q # r => released.rows[q] = b.rows[q]
  BY <1>1 DEF Books, Rows
<1> HIDE DEF released
<1>7. PaidDays(released, Booked(b, m)) = paid
  <2>1. Booked(b, m) \in SUBSET Requests /\ r \in Booked(b, m)
    BY <1>1 DEF Booked, Active
  <2>2. Paid(released) \in [Requests -> Int] /\ PaidDays(released, Booked(b, m)) = SumOver(Paid(released), Booked(b, m))
    BY <1>5, <2>1, RulesSum
  <2>3. SumOver(Paid(released), Booked(b, m)) = Paid(released)[r] + SumOver(Paid(released), others)
    BY <2>1, <2>2, RequestSums
  <2>4. Paid(released)[r] = 0 /\ SumOver(Paid(released), others) \in Int
    BY <1>1, <1>6, <2>2, RequestSums DEF Paid
  <2>5. [u \in others |-> Paid(released)[u]] = [u \in others |-> Paid(b)[u]]
    BY <1>1, <1>6 DEF Paid
  <2>6. SumOver(Paid(released), others) = SumOver(Paid(b), others)
    BY <2>5 DEF SumOver
  <2>7. paid = SumOver(Paid(b), others)
    BY <1>1, RulesSum
  <2> HIDE DEF others, paid
  <2>8. QED
    BY <2>2, <2>3, <2>4, <2>6, <2>7
<1>8. lop = UnpaidOf(days, Max({0, Total(b, m) - paid}))
  BY <1>5, <1>7 DEF available
<1>9. Total(x, m) = Total(b, m) /\ Active(b.rows[r])
  BY <1>1, <1>3 DEF Total, Active
<1>10. x.rows[r].lop = UnpaidOf(x.rows[r].days, Max({0, Total(b, m) - paid}))
  BY <1>4, <1>8
<1> HIDE DEF lop, others, paid
<1>11. others = Booked(b, m) \ {r} /\ paid = PaidDays(b, others)
  BY DEF others, paid
<1>12. QED
  BY <1>3, <1>4, <1>9, <1>10, <1>11, PricedBesides

\* A row is replaced and the member's leave priced again.
LEMMA PutCovers ==
  ASSUME NEW b, Sound(b), NEW r \in Requests, NEW row, SoundRow(row),
         NEW x, x = rebalance(Put(b, r, row), {Owner[r]}), Disjoint(x)
  PROVE  Covered(x, Owner[r])
<1> DEFINE p == Put(b, r, row)
           mine == {Owner[r]}
<1>1. Sound(p)
  BY PutTouches DEF Touches
<1>2. Owner[r] \in mine /\ Owner[r] \in Members /\ x = rebalance(p, mine)
  BY Bounds
<1> HIDE DEF p, mine
<1>3. SoundOncePriced(p, mine)
  BY <1>1, SoundIsSound
<1>4. QED
  BY <1>2, <1>3, RebalancedCovers

\* Moved leave is priced alone, and then with the rest.
LEMMA RescheduleCovers ==
  ASSUME NEW b, Sound(b), NEW r \in Requests, NEW from \in Days, NEW to \in Days, from <= to,
         NEW day \in Days, NEW x \in reschedule(b, r, from, to, day), Disjoint(x)
  PROVE  Covered(x, Owner[r])
<1> DEFINE row == MovedRow(b, r, from, to, day)
           put == Put(b, r, row)
           p == reprice(put, r)
           mine == {Owner[r]}
<1>1. b \in Books /\ MayMove(b, r, from, to, day) /\ Storable(b, r, from, to, day)
  BY DEF Sound, reschedule
<1>2. x = rebalance(p, mine)
  BY <1>1 DEF reschedule, MovedRow, Put, Books
<1> HIDE DEF row
<1>3. SoundRow(row)
  BY <1>1, RowsMove DEF row
<1>4. Sound(put)
  BY <1>3, PutTouches DEF Touches
<1> HIDE DEF put
<1>5. Sound(p)
  BY <1>4, Repricing
<1>6. Owner[r] \in mine /\ Owner[r] \in Members
  BY Bounds
<1> HIDE DEF p, mine
<1>7. SoundOncePriced(p, mine)
  BY <1>5, SoundIsSound
<1>8. QED
  BY <1>2, <1>6, <1>7, RebalancedCovers

\* So for every operation of one member's leave.
LEMMA OneCovers ==
  ASSUME NEW b, Sound(b), NEW o \in Ops, o.kind # "calendar", Covered(b, MemberOf(o)),
         NEW day \in Days, NEW x \in Effect(o, b, day), Disjoint(x)
  PROVE  Covered(x, MemberOf(o))
<1> DEFINE r == o.req
<1>1. b \in Books
  BY DEF Sound
<1>2. CASE o.kind = "submit"
  <2>1. x \in submit(b, r, o.span[1], o.span[2], day)
    BY <1>2 DEF Effect
  <2>2. QED
    BY <1>2, <2>1, OpFields, SubmitCovers
<1>3. CASE o.kind = "approve"
  <2>1. x \in approve(b, r)
    BY <1>3 DEF Effect
  <2>2. QED
    BY <1>3, <2>1, OpFields, ApproveCovers
<1>4. ASSUME r \in Requests, MemberOf(o) = Owner[r], NEW status \in {"rejected", "cancelled"},
             x = rebalance([b EXCEPT !.rows[r].status = status], {Owner[r]})
      PROVE  Covered(x, MemberOf(o))
  <2> DEFINE row == [b.rows[r] EXCEPT !.status = status]
  <2>1. SoundRow(row)
    BY <1>4 DEF Sound, SoundRow, LooseRow, Rows, Status
  <2>2. x = rebalance(Put(b, r, row), {Owner[r]})
    BY <1>1, <1>4 DEF Put, Books
  <2> HIDE DEF row
  <2>3. QED
    BY <1>4, <2>1, <2>2, PutCovers
<1>5. ASSUME r \in Requests, MemberOf(o) = Owner[r], NEW status \in {"rejected", "cancelled"},
             NotOver(b.rows[r], day), x = EndedBy(b, r, status, day)
      PROVE  Covered(x, MemberOf(o))
  <2> DEFINE row == EndedRow(b, r, status, day)
  <2>1. SoundRow(row)
    BY <1>5, RowsEnd
  <2>2. x = rebalance(Put(b, r, row), {Owner[r]})
    BY <1>5 DEF EndedBy, EndedRow, Put
  <2> HIDE DEF row
  <2>3. QED
    BY <1>5, <2>1, <2>2, PutCovers
<1>6. CASE o.kind = "reject"
  <2>1. x \in reject(b, r)
    BY <1>6 DEF Effect
  <2>2. x = rebalance([b EXCEPT !.rows[r].status = "rejected"], {Owner[r]})
    BY <2>1 DEF reject
  <2>3. QED
    BY <1>4, <1>6, <2>2, OpFields
<1>7. CASE o.kind = "cancel"
  <2>1. x \in cancel(b, r, day)
    BY <1>7 DEF Effect
  <2>2. CASE b.rows[r].status = "pending"
    <3>1. x = rebalance([b EXCEPT !.rows[r].status = "cancelled"], {Owner[r]})
      BY <2>1, <2>2 DEF cancel
    <3>2. QED
      BY <1>4, <1>7, <3>1, OpFields
  <2>3. CASE b.rows[r].status # "pending"
    <3>1. NotOver(b.rows[r], day) /\ x = EndedBy(b, r, "cancelled", day)
      BY <2>1, <2>3 DEF cancel
    <3>2. QED
      BY <1>5, <1>7, <3>1, OpFields
  <2>4. QED
    BY <2>2, <2>3
<1>8. CASE o.kind = "withdraw"
  <2>1. x \in withdraw(b, r, day)
    BY <1>8 DEF Effect
  <2>2. NotOver(b.rows[r], day) /\ x = EndedBy(b, r, "rejected", day)
    BY <2>1 DEF withdraw
  <2>3. QED
    BY <1>5, <1>8, <2>2, OpFields
<1>9. CASE o.kind = "reschedule"
  <2>1. x \in reschedule(b, r, o.span[1], o.span[2], day)
    BY <1>9 DEF Effect
  <2>2. QED
    BY <1>9, <2>1, OpFields, RescheduleCovers
<1>10. CASE o.kind = "adjust"
  <2> DEFINE m == o.member
             p == [b EXCEPT !.adjusted[m] = @ + o.by]
             mine == {m}
  <2>1. x \in adjust(b, m, o.by) /\ m \in Members /\ MemberOf(o) = m
    BY <1>10, OpFields DEF Effect
  <2>2. x = rebalance(p, mine) /\ b.adjusted[m] + o.by \in Adjustments
    BY <2>1 DEF adjust
  <2>3. p \in Books /\ p.rows = b.rows
    BY <1>1, <2>1, <2>2 DEF Books
  <2>4. m \in mine
    OBVIOUS
  <2> HIDE DEF p, mine
  <2>5. SoundOncePriced(p, mine)
    BY <2>3, SoundIsSound DEF Sound
  <2>6. QED
    BY <2>1, <2>2, <2>4, <2>5, RebalancedCovers
<1>11. QED
  BY <1>2, <1>3, <1>6, <1>7, <1>8, <1>9, <1>10, OpFields

\* And for every member that a change of the calendar prices again.
LEMMA CalendarCovers ==
  ASSUME NEW b, Sound(b), NEW o \in Ops, o.kind = "calendar", NEW day \in Days,
         NEW x \in Effect(o, b, day), Disjoint(x), NEW m \in Members, Covered(b, m)
  PROVE  Covered(x, m)
<1> DEFINE k == Counted(b, o, day)
           members == Affected(b, o.drop, o.add, day)
<1>1. x = rebalance(k, members)
  BY DEF Effect, recount_requests, Counted, Affected
<1>2. SoundOncePriced(k, members)
  BY Counting
<1>3. Recounted(b, x, o, day)
  BY Recounting
<1>4. CASE m \notin members
  <2>1. AgreeOn(b, x, m)
    BY <1>3, <1>4 DEF Recounted, AgreeOn
  <2>2. QED
    BY <2>1, CoveredIsLocal
<1> HIDE DEF k, members
<1>5. CASE m \in members
  BY <1>1, <1>2, <1>5, RebalancedCovers
<1>6. QED
  BY <1>4, <1>5

\* Every member's leave is covered.
AllCovered(b) == \A m \in Members : Covered(b, m)

\* No requests, no days.
LEMMA EmptySum ==
  ASSUME NEW f \in [Requests -> Int]
  PROVE  SumOver(f, {}) = 0
<1>1. IsFiniteSet(Requests)
  BY Bounds
<1>2. QED
  BY <1>1, SumTakes

\* Nothing is booked at first, and nothing paid.
LEMMA NewIsCovered == AllCovered(NewBook)
<1> SUFFICES ASSUME NEW m \in Members PROVE Covered(NewBook, m)
  BY DEF AllCovered
<1>1. Booked(NewBook, m) = {}
  BY DEF Booked, NewBook, NoRow, Active
<1>2. Total(NewBook, m) \in Int
  BY LeaveAssumption DEF Total, NewBook
<1>3. PaidDays(NewBook, {}) = 0 /\ BookedDays(NewBook, {}) = 0
  <2>1. NewBook \in Books
    <3>1. 1 \in Days /\ 0 \in 0 .. LastDay /\ 0 \in Adjustments
      BY Bounds, LeaveAssumption
    <3>2. NoRow \in Rows
      BY <3>1 DEF NoRow, Rows, Status
    <3>3. QED
      BY <3>1, <3>2 DEF NewBook, Books
  <2>2. SumOver(Paid(NewBook), {}) = 0 /\ SumOver(Took(NewBook), {}) = 0
    <3>1. Paid(NewBook) \in [Requests -> Int] /\ Took(NewBook) \in [Requests -> Nat]
      BY <2>1, RulesSum
    <3>2. Took(NewBook) \in [Requests -> Int]
      BY <3>1
    <3>3. QED
      BY <3>1, <3>2, EmptySum
  <2>3. QED
    BY <2>1, <2>2, RulesSum
<1> DEFINE all == Max({0, Total(NewBook, m)})
<1>4. all \in Nat /\ 0 <= all
  BY <1>2, MaxMin
<1> HIDE DEF all
<1>5. Min({0, all}) = 0
  BY <1>4, MaxMin
<1>6. QED
  BY <1>1, <1>3, <1>5 DEF Covered, all

\* A commit leaves it so.
LEMMA CommitCovers ==
  ASSUME NEW b, Sound(b), Disjoint(b), AllCovered(b), NEW now \in 1 .. LastToday,
         NEW o \in Ops, NEW members, NEW wrote, CanWrite(b, now, o, members, wrote),
         NEW c, c = Written(b, o, members, wrote)
  PROVE  AllCovered(c)
<1>1. PICK day \in 1 .. now, h \in SUBSET HolidayDays :
        /\ o.kind # "cancel" => h = b.holidays
        /\ Written(On(b, h), o, members, wrote) \in Effect(o, On(b, h), day)
  BY DEF CanWrite
<1> DEFINE k == On(b, h)
           x == Written(k, o, members, wrote)
<1>2. day \in Days /\ x \in Effect(o, k, day)
  BY <1>1, PastDays
<1>3. Sound(k) /\ k.rows = b.rows /\ k.adjusted = b.adjusted
  BY OtherHolidays
<1>4. Disjoint(k) /\ \A m \in Members : Covered(k, m)
  <2>1. Disjoint(k)
    BY <1>3 DEF Disjoint
  <2>2. \A m \in Members : AgreeOn(b, k, m)
    BY <1>3 DEF AgreeOn
  <2> HIDE DEF k
  <2>3. QED
    BY <2>1, <2>2, CoveredIsLocal DEF AllCovered
<1>5. \A m \in Members : AgreeOn(x, c, m)
  BY <1>3 DEF AgreeOn, Written
<1> HIDE DEF k, x
<1>6. CASE o.kind = "calendar"
  <2>1. Recounted(k, x, o, day)
    BY <1>2, <1>3, <1>6, Recounting
  <2>2. Disjoint(x)
    BY <1>2, <1>3, <1>4, <1>6, <2>1, StaysDisjoint
  <2>3. \A m \in Members : Covered(x, m)
    BY <1>2, <1>3, <1>4, <1>6, <2>2, CalendarCovers
  <2>4. QED
    BY <1>5, <2>3, CoveredIsLocal DEF AllCovered
<1>7. CASE o.kind # "calendar"
  <2>1. OneMembers(o, k, x, day)
    BY <1>2, <1>3, <1>7, OperatingOnOne
  <2>2. Disjoint(x)
    BY <1>2, <1>3, <1>4, <1>7, <2>1, StaysDisjoint
  <2>3. MemberOf(o) \in Members
    BY <1>7, OpFields, Bounds
  <2>4. Covered(x, MemberOf(o))
    BY <1>2, <1>3, <1>4, <1>7, <2>2, <2>3, OneCovers
  <2>5. ASSUME NEW m \in Members, m # MemberOf(o) PROVE Covered(x, m)
    <3>1. AgreeOn(k, x, m)
      BY <2>1, <2>5 DEF OneMembers, Frame, AgreeOn
    <3>2. QED
      BY <1>4, <3>1, CoveredIsLocal
  <2>6. QED
    BY <1>5, <2>4, <2>5, CoveredIsLocal DEF AllCovered
<1>8. QED
  BY <1>6, <1>7

\* PaidIsWhatBalanceCovers: of what each member has booked, exactly what the balance
\* covers is paid, whatever submits, decisions, moves, cancellations, adjustments and
\* recounts run at the same time.
THEOREM BalanceIsKept == Spec => []PaidIsWhatBalanceCovers
<1>1. AllCovered(book) <=> PaidIsWhatBalanceCovers
  BY DEF AllCovered, Covered, PaidIsWhatBalanceCovers
<1>2. Init => AllCovered(book)
  BY NewIsCovered DEF Init
<1>3. IInv /\ AllCovered(book) /\ [Next]_vars => AllCovered(book)'
  <2> SUFFICES ASSUME IInv, AllCovered(book), [Next]_vars PROVE AllCovered(book')
    BY DEF AllCovered, Covered, Booked, PaidDays, BookedDays, Total
  <2>1. ASSUME NEW t \in Txs, Commit(t) PROVE AllCovered(book')
    <3> DEFINE x == tx[t]
    <3>1. /\ book' = Written(book, x.op, x.members, x.wrote) /\ x.phase = "commit"
      BY <2>1 DEF Commit
    <3>2. Working(t)
      BY <3>1 DEF Working
    <3>3. /\ x.op \in Ops /\ CanWrite(book, today, x.op, x.members, x.wrote)
          /\ Sound(book) /\ Disjoint(book) /\ today \in 1 .. LastToday
      BY <3>1, <3>2, AtWork DEF IInv, TxInv, BookInv, Fits
    <3>4. QED
      BY <3>1, <3>3, CommitCovers
  <2>2. ASSUME UNCHANGED book PROVE AllCovered(book')
    BY <2>2
  <2>3. CASE UNCHANGED vars
    BY <2>2, <2>3 DEF vars
  <2>4. ASSUME NEW t \in Txs, Step(t) PROVE AllCovered(book')
    <3>1. CASE LockPolicy(t) \/ Find(t) \/ Operate(t) \/ RollBack(t)
      BY <2>2, <3>1 DEF LockPolicy, Find, Operate, RollBack
    <3>2. QED
      BY <2>1, <2>4, <3>1 DEF Step
  <2>5. ASSUME NEW t \in Txs, NEW o \in Ops, Begin(t, o) PROVE AllCovered(book')
    BY <2>2, <2>5 DEF Begin
  <2>6. CASE NextDay
    BY <2>2, <2>6 DEF NextDay
  <2>7. QED
    BY <2>3, <2>4, <2>5, <2>6 DEF Next
<1>4. QED
  BY <1>1, <1>2, <1>3, IInvAlways, PTL DEF Spec
===============================================================================
