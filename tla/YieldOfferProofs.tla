--------------------------- MODULE YieldOfferProofs ---------------------------
(* Proofs about yield offers, for any developers, BUDs, weights, caps and numbers *)
(* of requests at a time: the offers keep their shape, the lock of a BUD's menu   *)
(* waits for an open offer, a BUD is asked for once and when it has nobody, and   *)
(* no sweep writes over an answer.                                                *)
EXTENDS YieldOffer, FiniteSetTheorems, TLAPS

Owners == Users \cup {Nobody}

\* What a request carries between its read and its write.
OfRead == [op : {"read"}, bud : Buds, saw : Owners]
OfAssign == [op : {"assign", "replace"}, bud : Buds, saw : Owners, given : Owners,
             run : {"none", "auto", "raise", "skip", "fail"}, last : Owners,
             yields : Buds \cup {Nobody}, target : Owners]
OfAccept == [op : {"accept"}, offer : Offers, user : Users, bud : Buds, saw : Owners,
             yields : Buds, held : Owners]
OfReject == [op : {"reject"}, offer : Offers]
OfRetarget == [op : {"retarget"}, offer : Offers, user : Users, yields : Buds]
Requests == {Idle} \cup OfRead \cup OfAssign \cup OfAccept \cup OfReject \cup OfRetarget

Rows == [status : Final \cup {"pending", "none"}, bud : Buds \cup {Nobody},
         yields : Buds \cup {Nobody}, target : Owners]

Shape ==
    /\ offer \in [Offers -> Rows]
    /\ \A o \in Offers : offer[o] # NoOffer => offer[o].bud \in Buds /\ offer[o].yields \in Buds
    /\ parked \in [Buds -> Offers \cup {Nobody}]
    /\ tx \in [Txs -> Requests]

\* What an assignment run has decided: an offer asks for a BUD of lower priority.
Decided(r) ==
    /\ r.run # "auto" => r.last \in {Nobody, r.given}
    /\ r.run = "raise" =>
          /\ r.op = "assign" /\ r.last = Nobody /\ r.yields \in Buds /\ r.target \in Users
          /\ Weight[r.yields] < Weight[r.bud]

\* What a request that answers or moves an offer still finds of it.
Addressed(r) ==
    /\ offer[r.offer].status # "none"
    /\ r.op = "accept" => offer[r.offer].bud = r.bud
    /\ r.op = "retarget" => Weight[r.yields] < Weight[offer[r.offer].bud]

WhatWasRead ==
    \A t \in Txs :
        /\ tx[t].op \in {"assign", "replace"} => Decided(tx[t])
        /\ tx[t].op \in {"accept", "reject", "retarget"} => Addressed(tx[t])

\* The row of a BUD is held by one request.
OneHolder ==
    \A s, t \in Txs :
        (s # t /\ tx[s].op = "assign" /\ tx[t].op = "assign") => tx[s].bud # tx[t].bud

\* A run that raises an offer still finds none open, but for those it closes itself.
NothingOpen ==
    \A t \in Txs :
        (tx[t].op = "assign" /\ tx[t].run = "raise") => Pending(tx[t].bud) \subseteq Moot(tx[t])

IInv ==
    /\ YieldTypeOK /\ Shape /\ WhatWasRead /\ OneHolder /\ NothingOpen
    /\ LockedMeansPending /\ AskedOnce /\ AskedForTheUnassigned

\* The offers for a BUD are finitely many, and those that a request closes are for it.
LEMMA PendingShape ==
  /\ IsFiniteSet(Offers)
  /\ \A b : Pending(b) \subseteq Offers /\ IsFiniteSet(Pending(b))
  /\ \A r : Moot(r) \subseteq Pending(r.bud)
<1>1. IsFiniteSet(Offers)
  BY FS_Interval, YieldAssumption DEF Offers
<1>2. \A b : Pending(b) \subseteq Offers
  BY DEF Pending
<1>3. \A b : IsFiniteSet(Pending(b))
  BY <1>1, <1>2, FS_Subset
<1>4. QED
  BY <1>1, <1>2, <1>3 DEF Moot

\* The fields of a request, by its kind.
LEMMA RequestFields ==
  ASSUME NEW r \in Requests
  PROVE  /\ r.op = "read" => r.bud \in Buds /\ r.saw \in Owners
         /\ r.op \in {"assign", "replace"} =>
               /\ r.bud \in Buds /\ r.saw \in Owners /\ r.given \in Owners /\ r.last \in Owners
               /\ r.run \in {"none", "auto", "raise", "skip", "fail"}
         /\ r.op = "accept" =>
               /\ r.offer \in Offers /\ r.user \in Users /\ r.bud \in Buds
               /\ r.yields \in Buds /\ r.saw \in Owners /\ r.held \in Owners
         /\ r.op = "reject" => r.offer \in Offers
         /\ r.op = "retarget" => r.offer \in Offers /\ r.user \in Users /\ r.yields \in Buds
         /\ r.op # "idle" => r # Idle
<1>1. CASE r = Idle
  BY <1>1 DEF Idle
<1>2. CASE r \in OfRead
  BY <1>2 DEF OfRead, Idle
<1>3. CASE r \in OfAssign
  BY <1>3 DEF OfAssign, Idle
<1>4. CASE r \in OfAccept
  BY <1>4 DEF OfAccept, Idle
<1>5. CASE r \in OfReject \cup OfRetarget
  BY <1>5 DEF OfReject, OfRetarget, Idle
<1>6. QED
  BY <1>1, <1>2, <1>3, <1>4, <1>5 DEF Requests

\* At first there are owners, and neither offers nor requests.
LEMMA InitIInv == Init => IInv
<1> SUFFICES ASSUME Init PROVE IInv
  OBVIOUS
<1> USE YieldAssumption DEF Init
<1>1. YieldTypeOK
  <2>1. \A b \in Buds : parked[b] \notin Offers
    OBVIOUS
  <2>2. requests \in 0 .. MaxRequests
    BY SMT
  <2>3. owner \in [Buds -> Users \cup {Nobody}] /\ \A o \in Offers : offer[o] = NoOffer
    OBVIOUS
  <2>4. stale \subseteq Offers /\ overdue \subseteq Offers
    OBVIOUS
  <2>5. QED
    BY <2>1, <2>2, <2>3, <2>4 DEF YieldTypeOK
<1>2. Shape
  BY DEF Shape, NoOffer, Rows, Requests, Owners
<1>3. WhatWasRead /\ OneHolder /\ NothingOpen
  BY DEF WhatWasRead, OneHolder, NothingOpen, Idle
<1>4. LockedMeansPending
  BY DEF LockedMeansPending
<1>5. \A b \in Buds : Pending(b) = {}
  BY DEF Pending, NoOffer
<1>6. AskedOnce
  BY <1>5, FS_EmptySet DEF AskedOnce
<1>7. AskedForTheUnassigned
  BY DEF AskedForTheUnassigned, NoOffer
<1>8. QED
  BY <1>1, <1>2, <1>3, <1>4, <1>6, <1>7 DEF IInv

-----------------------------------------------------------------------------
\* A request that begins, or goes on to hold the row, writes nothing, and carries what
\* it read.
LEMMA BeginKeeps ==
  ASSUME IInv, NEW t \in Txs, NEW r \in Requests,
         tx' = [tx EXCEPT ![t] = r], requests' \in 0 .. MaxRequests,
         UNCHANGED <<owner, offer, overdue, parked, stale>>,
         r.op \in {"assign", "replace"} => Decided(r),
         r.op \in {"accept", "reject", "retarget"} => Addressed(r),
         r.op = "assign" => RowFree(t, r.bud),
         r.op = "assign" /\ r.run = "raise" => Pending(r.bud) \subseteq Moot(r)
  PROVE  IInv'
<1> USE DEF IInv
<1>1. YieldTypeOK'
  BY DEF YieldTypeOK
<1>2. Shape'
  BY DEF Shape
<1>3. tx \in [Txs -> Requests] /\ \A s \in Txs : tx'[s] = IF s = t THEN r ELSE tx[s]
  BY DEF Shape
<1>4. WhatWasRead'
  BY <1>3 DEF WhatWasRead, Decided, Addressed
<1>5. OneHolder'
  BY <1>3 DEF OneHolder, RowFree
<1>6. NothingOpen'
  <2> SUFFICES ASSUME NEW s \in Txs, tx'[s].op = "assign", tx'[s].run = "raise"
               PROVE  (Pending(tx[s].bud) \subseteq Moot(tx[s]))'
    BY DEF NothingOpen
  <2>1. CASE s = t
    BY <1>3, <2>1 DEF Pending, Moot
  <2>2. CASE s # t
    <3>1. tx'[s] = tx[s]
      BY <1>3, <2>2
    <3>2. Pending(tx[s].bud) \subseteq Moot(tx[s])
      BY <3>1 DEF NothingOpen
    <3>3. QED
      BY <3>1, <3>2 DEF Pending, Moot
  <2>3. QED
    BY <2>1, <2>2
<1>7. LockedMeansPending' /\ AskedOnce' /\ AskedForTheUnassigned'
  BY DEF LockedMeansPending, AskedOnce, AskedForTheUnassigned, Pending
<1>8. QED
  BY <1>1, <1>2, <1>4, <1>5, <1>6, <1>7

\* What an assignment run decides, and that it raises an offer only when none is open.
LEMMA RunsDecide ==
  ASSUME IInv, NEW op \in {"assign", "replace"}, NEW b \in Buds,
         NEW saw \in Owners, NEW given \in Owners,
         NEW r \in Runs(b, saw, given) \cup {NoRun(given)},
         op = "replace" => r = NoRun(given)
  PROVE  LET a == Assignment(op, b, saw, given, r)
         IN /\ a \in Requests /\ a.op = op /\ a.bud = b /\ Decided(a)
            /\ a.run = "raise" => Pending(b) \subseteq Moot(a)
<1> USE DEF IInv
<1> DEFINE a == Assignment(op, b, saw, given, r)
           own == [owner EXCEPT ![b] = Written(@, saw, given)]
<1>0. /\ a.op = op /\ a.bud = b /\ a.saw = saw /\ a.given = given /\ a.run = r.run
      /\ a.last = r.last /\ a.yields = r.yields /\ a.target = r.target
  BY DEF Assignment
<1>1. \/ r = NoRun(given)
      \/ \E u \in Users :
            r = [run |-> "auto", last |-> u, yields |-> Nobody, target |-> Nobody]
      \/ r = [run |-> "skip", last |-> Nobody, yields |-> Nobody, target |-> Nobody]
      \/ r = [run |-> "fail", last |-> given, yields |-> Nobody, target |-> Nobody]
      \/ /\ (IF ByHand(saw, given) THEN {} ELSE Pending(b)) = {}
         /\ \E y \in Best(own, b) :
              r = [run |-> "raise", last |-> Nobody, yields |-> y, target |-> own[y]]
  BY DEF Runs
<1>2. own \in [Buds -> Owners]
  BY DEF YieldTypeOK, Owners, Written
<1> HIDE DEF own
<1>3. \A y \in Best(own, b) : y \in Buds /\ own[y] \in Users /\ Weight[y] < Weight[b]
  BY DEF Best, Yieldable, Lowest, Held
<1>4. CASE r.run # "raise"
  <2>1. /\ r.run \in {"none", "auto", "skip", "fail"} /\ r.last \in Owners
        /\ r.yields = Nobody /\ r.target = Nobody
        /\ r.run # "auto" => r.last \in {Nobody, given}
    BY <1>1, <1>4 DEF NoRun, Owners
  <2>2. a \in OfAssign
    BY <2>1 DEF Assignment, OfAssign, Owners
  <2>3. Decided(a)
    BY <1>0, <1>4, <2>1 DEF Decided
  <2>4. QED
    BY <1>0, <1>4, <2>2, <2>3 DEF Requests
<1>5. CASE r.run = "raise"
  <2>1. /\ (IF ByHand(saw, given) THEN {} ELSE Pending(b)) = {}
        /\ \E y \in Best(own, b) :
              r = [run |-> "raise", last |-> Nobody, yields |-> y, target |-> own[y]]
    BY <1>1, <1>5 DEF NoRun
  <2>2. /\ r.last = Nobody /\ r.yields \in Buds /\ r.target \in Users
        /\ Weight[r.yields] < Weight[b]
    BY <1>3, <2>1
  <2>3. op = "assign"
    BY <1>5 DEF NoRun
  <2>4. a \in OfAssign
    BY <1>5, <2>2 DEF Assignment, OfAssign, Owners
  <2>5. Decided(a)
    BY <1>0, <2>2, <2>3 DEF Decided
  <2>6. Pending(b) \subseteq Moot(a)
    BY <1>0, <2>1 DEF Moot
  <2>7. QED
    BY <1>0, <2>4, <2>5, <2>6 DEF Requests
<1>6. QED
  BY <1>4, <1>5

\* What may begin is read from rows that are there.
LEMMA Beginning ==
  ASSUME IInv, NEW t \in Txs,
         \/ \E b \in Buds : Patches(t, b) \/ Reads(t, b)
         \/ \E b \in Buds, u \in Users : AsksReplacement(t, b, u)
         \/ \E o \in Offers, u \in Users : Answers(t, o, u) \/ Retargets(t, o, u)
         \/ Locks(t)
  PROVE  IInv'
<1> USE DEF IInv
<1>1. ASSUME NEW b \in Buds PROVE owner[b] \in Owners
  BY DEF YieldTypeOK, Owners
<1>2. ASSUME NEW r, Begins(t, r)
      PROVE  /\ tx' = [tx EXCEPT ![t] = r] /\ requests' \in 0 .. MaxRequests
             /\ UNCHANGED <<owner, offer, overdue, parked, stale>>
  BY <1>2, YieldAssumption DEF Begins, YieldTypeOK
<1>3. ASSUME NEW b \in Buds, Patches(t, b) PROVE IInv'
  <2>1. PICK given \in Owners :
          \E r \in Runs(b, owner[b], given) \cup {NoRun(given)} :
              Begins(t, Assignment("assign", b, owner[b], given, r))
    BY <1>3 DEF Patches, Owners
  <2>2. PICK r \in Runs(b, owner[b], given) \cup {NoRun(given)} :
          Begins(t, Assignment("assign", b, owner[b], given, r))
    BY <2>1
  <2> DEFINE a == Assignment("assign", b, owner[b], given, r)
  <2>3. /\ a \in Requests /\ a.op = "assign" /\ a.bud = b /\ Decided(a)
        /\ a.run = "raise" => Pending(b) \subseteq Moot(a)
    BY <1>1, <2>1, <2>2, RunsDecide
  <2>4. RowFree(t, b)
    BY <1>3 DEF Patches
  <2>5. /\ tx' = [tx EXCEPT ![t] = a] /\ requests' \in 0 .. MaxRequests
        /\ UNCHANGED <<owner, offer, overdue, parked, stale>>
    BY <1>2, <2>2
  <2> HIDE DEF a
  <2>6. QED
    BY <2>3, <2>4, <2>5, BeginKeeps
<1>4. ASSUME NEW b \in Buds, Reads(t, b) PROVE IInv'
  <2> DEFINE r == [op |-> "read", bud |-> b, saw |-> owner[b]]
  <2>1. r \in Requests /\ r.op = "read"
    BY <1>1 DEF Requests, OfRead
  <2>2. /\ tx' = [tx EXCEPT ![t] = r] /\ requests' \in 0 .. MaxRequests
        /\ UNCHANGED <<owner, offer, overdue, parked, stale>>
    BY <1>2, <1>4 DEF Reads
  <2> HIDE DEF r
  <2>3. QED
    BY <2>1, <2>2, BeginKeeps
<1>5. ASSUME NEW b \in Buds, NEW u \in Users, AsksReplacement(t, b, u) PROVE IInv'
  <2> DEFINE a == Assignment("replace", b, owner[b], u, NoRun(u))
  <2>1. u \in Owners /\ NoRun(u) \in Runs(b, owner[b], u) \cup {NoRun(u)}
    BY DEF Owners
  <2>2. a \in Requests /\ a.op = "replace" /\ Decided(a)
    BY <1>1, <2>1, RunsDecide
  <2>3. /\ tx' = [tx EXCEPT ![t] = a] /\ requests' \in 0 .. MaxRequests
        /\ UNCHANGED <<owner, offer, overdue, parked, stale>>
    BY <1>2, <1>5 DEF AsksReplacement
  <2> HIDE DEF a
  <2>4. QED
    BY <2>2, <2>3, BeginKeeps
<1>6. ASSUME Locks(t) PROVE IInv'
  <2>1. tx[t] \in Requests /\ tx[t].op = "read"
    BY <1>6 DEF Locks, Shape
  <2>2. tx[t].bud \in Buds /\ tx[t].saw \in Owners
    BY <2>1, RequestFields
  <2>3. PICK given \in {tx[t].saw, Nobody} : \E r \in Runs(tx[t].bud, tx[t].saw, given) :
          tx' = [tx EXCEPT ![t] = Assignment("assign", tx[t].bud, tx[t].saw, given, r)]
    BY <1>6 DEF Locks
  <2>4. PICK r \in Runs(tx[t].bud, tx[t].saw, given) :
          tx' = [tx EXCEPT ![t] = Assignment("assign", tx[t].bud, tx[t].saw, given, r)]
    BY <2>3
  <2> DEFINE a == Assignment("assign", tx[t].bud, tx[t].saw, given, r)
  <2>5. given \in Owners
    BY <2>2, <2>3 DEF Owners
  <2>6. /\ a \in Requests /\ a.op = "assign" /\ a.bud = tx[t].bud /\ Decided(a)
        /\ a.run = "raise" => Pending(a.bud) \subseteq Moot(a)
    BY <2>2, <2>4, <2>5, RunsDecide
  <2>7. RowFree(t, a.bud) /\ UNCHANGED <<owner, offer, overdue, parked, stale>>
    BY <1>6, <2>6 DEF Locks
  <2>8. requests' \in 0 .. MaxRequests
    BY <1>6 DEF Locks, YieldTypeOK
  <2>9. tx' = [tx EXCEPT ![t] = a]
    BY <2>4
  <2> HIDE DEF a
  <2>10. QED
    BY <2>6, <2>7, <2>8, <2>9, BeginKeeps
<1>7. ASSUME NEW o \in Offers, NEW u \in Users, Answers(t, o, u) \/ Retargets(t, o, u)
      PROVE IInv'
  <2>1. /\ offer[o].status = "pending" /\ offer[o] # NoOffer
        /\ offer[o].bud \in Buds /\ offer[o].yields \in Buds
    BY <1>7 DEF Answers, GuardActor, Retargets, NoOffer, Shape
  <2> DEFINE accept == [op |-> "accept", offer |-> o, user |-> u, bud |-> offer[o].bud,
                        saw |-> owner[offer[o].bud], yields |-> offer[o].yields,
                        held |-> owner[offer[o].yields]]
             reject == [op |-> "reject", offer |-> o]
             move(y) == [op |-> "retarget", offer |-> o, user |-> u, yields |-> y]
  <2>2. accept \in Requests /\ Addressed(accept) /\ accept.op = "accept"
    BY <1>1, <2>1 DEF Requests, OfAccept, Addressed
  <2>3. reject \in Requests /\ Addressed(reject) /\ reject.op = "reject"
    BY <2>1 DEF Requests, OfReject, Addressed
  <2>4. ASSUME NEW r, Begins(t, r), r \in Requests, Addressed(r),
               r.op \in {"accept", "reject", "retarget"}
        PROVE  IInv'
    <3>1. /\ tx' = [tx EXCEPT ![t] = r] /\ requests' \in 0 .. MaxRequests
          /\ UNCHANGED <<owner, offer, overdue, parked, stale>>
      BY <1>2, <2>4
    <3>2. QED
      BY <2>4, <3>1, BeginKeeps
  <2>5. CASE Answers(t, o, u)
    <3>1. Begins(t, accept) \/ Begins(t, reject)
      BY <2>5 DEF Answers
    <3> HIDE DEF accept, reject
    <3>2. QED
      BY <2>2, <2>3, <2>4, <3>1
  <2>6. CASE Retargets(t, o, u)
    <3>1. PICK y \in Lowest(owner, u) : Weight[y] < Weight[offer[o].bud] /\ Begins(t, move(y))
      BY <2>6 DEF Retargets
    <3>2. y \in Buds
      BY DEF Lowest, Held
    <3>3. move(y) \in Requests /\ Addressed(move(y)) /\ move(y).op = "retarget"
      BY <2>1, <3>1, <3>2 DEF Requests, OfRetarget, Addressed
    <3>4. QED
      BY <2>4, <3>1, <3>3
  <2>7. QED
    BY <1>7, <2>5, <2>6
<1>8. QED
  BY <1>3, <1>4, <1>5, <1>6, <1>7

-----------------------------------------------------------------------------
\* Offers that get a final status each, as Settled gives all of them the same.
Marked(O, mark) ==
    [o \in Offers |-> IF o \in O THEN [offer[o] EXCEPT !.status = mark[o]] ELSE offer[o]]

\* A row that gets a final status is otherwise what it was.
LEMMA MarkedRows ==
  ASSUME IInv, NEW O \in SUBSET Offers, NEW mark \in [O -> Final], NEW o \in Offers
  PROVE  /\ Marked(O, mark)[o] \in Rows
         /\ Marked(O, mark)[o].bud = offer[o].bud /\ Marked(O, mark)[o].yields = offer[o].yields
         /\ Marked(O, mark)[o].target = offer[o].target
         /\ Marked(O, mark)[o].status = IF o \in O THEN mark[o] ELSE offer[o].status
         /\ o \notin O => Marked(O, mark)[o] = offer[o]
<1> USE DEF IInv
<1>1. offer[o] \in Rows
  BY DEF Shape
<1>2. CASE o \in O
  <2>1. /\ Marked(O, mark)[o] = [offer[o] EXCEPT !.status = mark[o]]
        /\ mark[o] \in Final \cup {"pending", "none"}
    BY <1>2 DEF Marked
  <2>2. Marked(O, mark)[o] \in Rows /\ Marked(O, mark)[o].status = mark[o]
    BY ONLY <1>1, <2>1 DEF Rows
  <2>3. /\ Marked(O, mark)[o].bud = offer[o].bud /\ Marked(O, mark)[o].yields = offer[o].yields
        /\ Marked(O, mark)[o].target = offer[o].target
    BY ONLY <1>1, <2>1 DEF Rows
  <2>4. QED BY <1>2, <2>2, <2>3
<1>3. CASE o \notin O
  BY <1>1, <1>3 DEF Marked
<1>4. QED
  BY <1>2, <1>3

\* Settling all with one status is marking each with it.
LEMMA SettledIsMarked ==
  ASSUME NEW O, NEW status
  PROVE  Settled(O, status) = Marked(O, [o \in O |-> status])
BY DEF Settled, Marked

\* The rest of the invariant, when rows keep the BUD they are about and nothing new is
\* asked.
LEMMA RestKeeps ==
  ASSUME IInv, Shape', YieldTypeOK', LockedMeansPending', UNCHANGED stale,
         \A o \in Offers : offer[o].status # "none" =>
            offer'[o].bud = offer[o].bud /\ offer'[o].status # "none",
         \A t \in Txs : tx'[t] \in {tx[t], Idle},
         \A o \in Offers : offer'[o].status = "pending" =>
            /\ offer[o].status = "pending" /\ offer'[o].bud = offer[o].bud
            /\ owner'[offer[o].bud] \in {owner[offer[o].bud], Nobody}
  PROVE  IInv'
<1> USE DEF IInv
<1>1. tx \in [Txs -> Requests] /\ Idle.op = "idle"
  BY DEF Shape, Idle
<1>2. \A b : Pending(b)' \subseteq Pending(b)
  BY DEF Pending
<1>3. WhatWasRead'
  <2> SUFFICES ASSUME NEW t \in Txs, tx'[t] = tx[t]
               PROVE  /\ tx[t].op \in {"assign", "replace"} => Decided(tx[t])'
                      /\ tx[t].op \in {"accept", "reject", "retarget"} => Addressed(tx[t])'
    BY <1>1 DEF WhatWasRead
  <2>1. tx[t].op \in {"assign", "replace"} => Decided(tx[t])'
    BY DEF WhatWasRead, Decided
  <2>2. ASSUME tx[t].op \in {"accept", "reject", "retarget"} PROVE Addressed(tx[t])'
    <3>1. tx[t].offer \in Offers /\ Addressed(tx[t])
      BY <1>1, <2>2, RequestFields DEF WhatWasRead
    <3>2. /\ offer'[tx[t].offer].bud = offer[tx[t].offer].bud
          /\ offer'[tx[t].offer].status # "none"
      BY <3>1 DEF Addressed
    <3>3. QED
      BY <3>1, <3>2 DEF Addressed
  <2>3. QED
    BY <2>1, <2>2
<1>4. OneHolder'
  BY <1>1 DEF OneHolder
<1>5. NothingOpen'
  <2> SUFFICES ASSUME NEW t \in Txs, tx'[t] = tx[t], tx[t].op = "assign", tx[t].run = "raise"
               PROVE  Pending(tx[t].bud)' \subseteq Moot(tx[t])'
    BY <1>1 DEF NothingOpen
  <2>1. Pending(tx[t].bud) \subseteq Moot(tx[t])
    BY DEF NothingOpen
  <2>2. QED
    BY <1>2, <2>1 DEF Moot
<1>6. AskedOnce'
  <2> SUFFICES ASSUME NEW b \in Buds PROVE Cardinality(Pending(b)') <= 1
    BY DEF AskedOnce
  <2>1. Cardinality(Pending(b)) <= 1
    BY DEF AskedOnce
  <2>2. /\ Cardinality(Pending(b)) \in Nat /\ Cardinality(Pending(b)') \in Nat
        /\ Cardinality(Pending(b)') <= Cardinality(Pending(b))
    BY <1>2, PendingShape, FS_Subset, FS_CardinalityType
  <2>3. QED
    BY <2>1, <2>2
<1>7. AskedForTheUnassigned'
  BY DEF AskedForTheUnassigned
<1>8. QED
  BY <1>3, <1>4, <1>5, <1>6, <1>7

\* A write that settles some of the offers, and whose transaction is done.
LEMMA SettlingKeeps ==
  ASSUME IInv, NEW O \in SUBSET Offers, NEW mark \in [O -> Final],
         \A o \in O : offer[o].status # "none",
         offer' = Marked(O, mark),
         parked' \in [Buds -> Offers \cup {Nobody}],
         \A b \in Buds : parked'[b] \in Offers => parked'[b] = parked[b] /\ parked[b] \notin O,
         owner' \in [Buds -> Owners],
         \A o \in Offers \ O : offer[o].status = "pending" =>
            owner'[offer[o].bud] \in {owner[offer[o].bud], Nobody},
         tx' \in [Txs -> Requests], \A t \in Txs : tx'[t] \in {tx[t], Idle},
         UNCHANGED <<overdue, requests, stale>>
  PROVE  IInv'
<1> USE DEF IInv
<1>1. ASSUME NEW o \in Offers
      PROVE  /\ offer'[o] \in Rows
             /\ offer'[o].bud = offer[o].bud /\ offer'[o].yields = offer[o].yields
             /\ offer'[o].target = offer[o].target
             /\ offer'[o].status = IF o \in O THEN mark[o] ELSE offer[o].status
             /\ o \notin O => offer'[o] = offer[o]
  BY MarkedRows
<1>2. \A o \in O : mark[o] \in Final
  OBVIOUS
<1>3. ASSUME NEW o \in Offers, offer'[o] # NoOffer
      PROVE  /\ offer'[o].status \in Final \cup {"pending"} /\ offer'[o].target \in Users
             /\ Weight[offer'[o].yields] < Weight[offer'[o].bud]
             /\ offer'[o].bud \in Buds /\ offer'[o].yields \in Buds
  <2>1. offer[o] # NoOffer
    BY <1>1, <1>3 DEF NoOffer
  <2>2. /\ offer[o].status \in Final \cup {"pending"} /\ offer[o].target \in Users
        /\ Weight[offer[o].yields] < Weight[offer[o].bud]
        /\ offer[o].bud \in Buds /\ offer[o].yields \in Buds
    BY <2>1 DEF YieldTypeOK, Shape
  <2>3. QED
    BY <1>1, <1>2, <2>2
<1>4. Shape'
  <2>1. offer' \in [Offers -> Rows]
    BY <1>1 DEF Marked
  <2>2. QED
    BY <1>3, <2>1 DEF Shape
<1>5. YieldTypeOK'
  <2>1. \A b \in Buds : parked'[b] \in Offers => offer'[parked'[b]].bud = b
    BY <1>1 DEF YieldTypeOK
  <2>2. QED
    BY <1>3, <2>1 DEF YieldTypeOK, Owners
<1>6. LockedMeansPending'
  BY <1>1 DEF LockedMeansPending
<1>7. \A o \in Offers : offer[o].status # "none" =>
        offer'[o].bud = offer[o].bud /\ offer'[o].status # "none"
  BY <1>1, <1>2 DEF Final
<1>8. \A o \in Offers : offer'[o].status = "pending" =>
        /\ offer[o].status = "pending" /\ offer'[o].bud = offer[o].bud
        /\ owner'[offer[o].bud] \in {owner[offer[o].bud], Nobody}
  BY <1>1, <1>2 DEF Final
<1>9. QED
  BY <1>4, <1>5, <1>6, <1>7, <1>8, RestKeeps

\* What a run leaves in the assignee: who was picked or given, or nobody, or, when
\* nothing was given and nobody picked, who is there.
LEMMA Assigned ==
  ASSUME NEW saw \in Owners, NEW given \in Owners, NEW last \in Owners, NEW old \in Owners
  PROVE  /\ Written(Written(old, saw, given), given, last) \in Owners
         /\ last \in {Nobody, given} /\ ~ByHand(saw, given) =>
               Written(Written(old, saw, given), given, last) \in {old, Nobody}
         /\ last = Nobody /\ saw = old => Written(Written(old, saw, given), given, last) = Nobody
BY DEF Written, ByHand, Owners

\* An assignment without an offer: those for a BUD that was given a user are closed.
LEMMA Assigning ==
  ASSUME IInv, NEW t \in Txs, AssignWrites(t, tx[t]), tx[t].run # "raise",
         tx' = [tx EXCEPT ![t] = Idle], UNCHANGED <<overdue, requests>>
  PROVE  IInv'
<1> USE DEF IInv
<1> DEFINE r == tx[t]
           O == Moot(r)
           mark == [o \in O |-> "superseded"]
<1>1. /\ r.bud \in Buds /\ r.saw \in Owners /\ r.given \in Owners /\ r.last \in Owners
      /\ Decided(r)
  BY RequestFields DEF AssignWrites, Shape, WhatWasRead
<1>2. O \in SUBSET Offers /\ mark \in [O -> Final] /\ O \subseteq Pending(r.bud)
  BY PendingShape DEF Final
<1>3. \A o \in O : offer[o].status # "none"
  BY <1>2 DEF Pending
<1>4. offer' = Marked(O, mark) /\ UNCHANGED stale
  BY SettledIsMarked DEF AssignWrites
<1>5. parked' = Release(O) \/ parked' = [parked EXCEPT ![r.bud] = Nobody]
  BY DEF AssignWrites
<1>6. /\ parked' \in [Buds -> Offers \cup {Nobody}]
      /\ \A b \in Buds : parked'[b] \in Offers => parked'[b] = parked[b] /\ parked[b] \notin O
  <2>1. parked \in [Buds -> Offers \cup {Nobody}] /\ Nobody \notin Offers
    BY YieldAssumption DEF Shape
  <2>2. \A b \in Buds : parked[b] \in O => b = r.bud
    BY <1>2 DEF Pending, YieldTypeOK
  <2>3. CASE parked' = Release(O)
    BY <2>1, <2>3 DEF Release
  <2>4. CASE parked' = [parked EXCEPT ![r.bud] = Nobody]
    BY <1>1, <2>1, <2>2, <2>4
  <2>5. QED
    BY <1>5, <2>3, <2>4
<1>7. owner \in [Buds -> Owners]
  BY DEF YieldTypeOK, Owners
<1>8. owner' = [owner EXCEPT ![r.bud] =
                   Written(Written(owner[r.bud], r.saw, r.given), r.given, r.last)]
  BY DEF AssignWrites
<1>9. /\ owner' \in [Buds -> Owners]
      /\ \A b \in Buds : b # r.bud => owner'[b] = owner[b]
      /\ O = Pending(r.bud) \/ owner'[r.bud] \in {owner[r.bud], Nobody}
  <2>1. owner[r.bud] \in Owners
    BY <1>1, <1>7
  <2>2. O = Pending(r.bud) \/ (r.run # "auto" /\ ~ByHand(r.saw, r.given))
    BY DEF Moot
  <2>3. r.run # "auto" => r.last \in {Nobody, r.given}
    BY <1>1 DEF Decided
  <2> HIDE DEF r, O
  <2>4. QED
    BY <1>1, <1>7, <1>8, <2>1, <2>2, <2>3, Assigned
<1>10. \A o \in Offers \ O : offer[o].status = "pending" =>
          owner'[offer[o].bud] \in {owner[offer[o].bud], Nobody}
  <2> SUFFICES ASSUME NEW o \in Offers \ O, offer[o].status = "pending"
               PROVE  owner'[offer[o].bud] \in {owner[offer[o].bud], Nobody}
    OBVIOUS
  <2>1. offer[o].bud \in Buds
    BY DEF Shape, NoOffer
  <2>2. offer[o].bud = r.bud => o \in Pending(r.bud)
    BY DEF Pending
  <2> HIDE DEF r, O
  <2>3. QED
    BY <1>9, <2>1, <2>2
<1>11. tx' \in [Txs -> Requests] /\ \A s \in Txs : tx'[s] \in {tx[s], Idle}
  BY DEF Shape, Requests
<1> HIDE DEF O, mark, r
<1>12. QED
  BY <1>2, <1>3, <1>4, <1>6, <1>9, <1>10, <1>11, SettlingKeeps

\* A rejection settles its offer.
LEMMA Rejecting ==
  ASSUME IInv, NEW t \in Txs, RejectWrites(tx[t]),
         tx' = [tx EXCEPT ![t] = Idle], UNCHANGED <<overdue, requests>>
  PROVE  IInv'
<1> USE DEF IInv
<1> DEFINE O == {tx[t].offer}
           mark == [o \in O |-> "rejected"]
<1>1. tx[t].offer \in Offers /\ offer[tx[t].offer].status # "none"
  BY RequestFields DEF RejectWrites, WhatWasRead, Shape, Addressed
<1>2. O \in SUBSET Offers /\ mark \in [O -> Final] /\ \A o \in O : offer[o].status # "none"
  BY <1>1 DEF Final
<1>3. offer' = Marked(O, mark) /\ parked' = Release(O) /\ UNCHANGED <<owner, stale>>
  BY SettledIsMarked DEF RejectWrites
<1>4. /\ parked' \in [Buds -> Offers \cup {Nobody}]
      /\ \A b \in Buds : parked'[b] \in Offers => parked'[b] = parked[b] /\ parked[b] \notin O
  BY <1>3, YieldAssumption DEF Release, Shape
<1>5. owner' \in [Buds -> Owners]
  BY <1>3 DEF YieldTypeOK, Owners
<1>6. tx' \in [Txs -> Requests] /\ \A s \in Txs : tx'[s] \in {tx[s], Idle}
  BY DEF Shape, Requests
<1> HIDE DEF O, mark
<1>7. QED
  BY <1>2, <1>3, <1>4, <1>5, <1>6, SettlingKeeps

\* An acceptance settles its own offer and the others for the BUD, and takes the
\* yielded BUD off its owner.
LEMMA Accepting ==
  ASSUME IInv, NEW t \in Txs, AcceptWrites(t, tx[t]),
         tx' = [tx EXCEPT ![t] = Idle], UNCHANGED <<overdue, requests>>
  PROVE  IInv'
<1> USE DEF IInv
<1> DEFINE r == tx[t]
           O == Pending(r.bud) \cup {r.offer}
           mark == [o \in O |-> IF o = r.offer THEN "accepted" ELSE "superseded"]
<1>1. /\ r.bud \in Buds /\ r.yields \in Buds /\ r.user \in Users /\ r.offer \in Offers
      /\ offer[r.offer].status # "none"
  BY RequestFields DEF AcceptWrites, WhatWasRead, Shape, Addressed
<1>2. O \in SUBSET Offers /\ mark \in [O -> Final] /\ \A o \in O : offer[o].status # "none"
  BY <1>1 DEF Pending, Final
<1>3. offer' = Marked(O, mark) /\ UNCHANGED stale
  <2>1. \A o \in Offers : offer'[o] = Marked(O, mark)[o]
    BY <1>1 DEF AcceptWrites, Settled, Marked
  <2>2. QED
    BY <2>1 DEF AcceptWrites, Settled, Marked
<1>4. /\ parked' \in [Buds -> Offers \cup {Nobody}]
      /\ \A b \in Buds : parked'[b] \in Offers => parked'[b] = parked[b] /\ parked[b] \notin O
  BY YieldAssumption DEF AcceptWrites, Release, Shape
<1>5. /\ owner' \in [Buds -> Owners]
      /\ \A b \in Buds : b # r.bud => owner'[b] \in {owner[b], Nobody}
  BY <1>1 DEF AcceptWrites, Written, YieldTypeOK, Owners
<1>6. \A o \in Offers \ O : offer[o].status = "pending" =>
          owner'[offer[o].bud] \in {owner[offer[o].bud], Nobody}
  <2> SUFFICES ASSUME NEW o \in Offers \ O, offer[o].status = "pending"
               PROVE  owner'[offer[o].bud] \in {owner[offer[o].bud], Nobody}
    OBVIOUS
  <2>1. offer[o].bud \in Buds
    BY DEF Shape, NoOffer
  <2>2. offer[o].bud # r.bud
    BY DEF Pending
  <2>3. QED
    BY <1>5, <2>1, <2>2
<1>7. tx' \in [Txs -> Requests] /\ \A s \in Txs : tx'[s] \in {tx[s], Idle}
  BY DEF Shape, Requests
<1> HIDE DEF O, mark, r
<1>8. QED
  BY <1>2, <1>3, <1>4, <1>5, <1>6, <1>7, SettlingKeeps

\* An offer is raised by the one who holds the row, for a BUD that has none open, or whose
\* offers are closed with it.
LEMMA Raising ==
  ASSUME IInv, NEW t \in Txs, AssignWrites(t, tx[t]), tx[t].run = "raise",
         tx' = [tx EXCEPT ![t] = Idle], UNCHANGED <<overdue, requests>>
  PROVE  IInv'
<1> USE DEF IInv
<1> DEFINE r == tx[t]
           O == Moot(r)
           mark == [o \in O |-> "superseded"]
<1>1. /\ r.bud \in Buds /\ r.saw \in Owners /\ r.given \in Owners
      /\ r.op = "assign" /\ r.last = Nobody /\ r.yields \in Buds /\ r.target \in Users
      /\ Weight[r.yields] < Weight[r.bud]
  BY RequestFields DEF AssignWrites, Shape, WhatWasRead, Decided
<1>2. O = Pending(r.bud)
  BY <1>1, PendingShape DEF NothingOpen
<1>3. PICK o \in Offers :
        /\ Fresh(o)
        /\ offer' = [Settled(O, "superseded") EXCEPT
               ![o] = [status |-> "pending", bud |-> r.bud,
                       yields |-> r.yields, target |-> r.target]]
        /\ parked' = [parked EXCEPT ![r.bud] = o]
        /\ stale' = stale \cup (IF r.saw = owner[r.bud] THEN {} ELSE {o})
  BY DEF AssignWrites
<1>4. owner' = [owner EXCEPT ![r.bud] =
                   Written(Written(owner[r.bud], r.saw, r.given), r.given, r.last)]
  BY DEF AssignWrites
<1>5. \A s \in Txs : s # t /\ tx[s].op = "assign" => tx[s].bud # r.bud
  BY <1>1 DEF OneHolder
<1>6. tx' \in [Txs -> Requests] /\ \A s \in Txs : tx'[s] \in {tx[s], Idle} /\ tx'[t] = Idle
  BY DEF Shape, Requests
<1>7. offer[o] = NoOffer /\ offer[o].status = "none"
  BY <1>3 DEF Fresh, NoOffer
<1>8. O \in SUBSET Offers /\ mark \in [O -> Final] /\ o \notin O
  BY <1>2, <1>7, PendingShape DEF Final, Pending
<1>9. Settled(O, "superseded") = Marked(O, mark)
  BY SettledIsMarked
<1> HIDE DEF r, O
<1>10. /\ offer'[o].status = "pending" /\ offer'[o].bud = r.bud /\ offer'[o].yields = r.yields
       /\ offer'[o].target = r.target /\ offer'[o] \in Rows
       /\ \A n \in Offers \ {o} : offer'[n] = Marked(O, mark)[n]
  BY <1>1, <1>3, <1>9 DEF Marked, Rows, Owners
<1>11. ASSUME NEW n \in Offers \ {o}
       PROVE  /\ offer'[n] \in Rows
              /\ offer'[n].bud = offer[n].bud /\ offer'[n].yields = offer[n].yields
              /\ offer'[n].target = offer[n].target
              /\ offer'[n].status = IF n \in O THEN "superseded" ELSE offer[n].status
              /\ n \notin O => offer'[n] = offer[n]
  <2>1. /\ Marked(O, mark)[n] \in Rows
        /\ Marked(O, mark)[n].bud = offer[n].bud /\ Marked(O, mark)[n].yields = offer[n].yields
        /\ Marked(O, mark)[n].target = offer[n].target
        /\ Marked(O, mark)[n].status = IF n \in O THEN mark[n] ELSE offer[n].status
        /\ n \notin O => Marked(O, mark)[n] = offer[n]
    BY <1>8, MarkedRows
  <2>2. offer'[n] = Marked(O, mark)[n] /\ (n \in O => mark[n] = "superseded")
    BY <1>10
  <2>3. QED
    BY <2>1, <2>2
<1>12. /\ owner' \in [Buds -> Owners]
       /\ r.saw = owner[r.bud] => owner'[r.bud] = Nobody
       /\ \A b \in Buds : b # r.bud => owner'[b] = owner[b]
  <2>1. owner \in [Buds -> Owners] /\ owner[r.bud] \in Owners
    BY <1>1 DEF YieldTypeOK, Owners
  <2>2. r.last \in Owners
    BY <1>1 DEF Owners
  <2> DEFINE w == Written(Written(owner[r.bud], r.saw, r.given), r.given, r.last)
  <2>3. w \in Owners /\ (r.saw = owner[r.bud] => w = Nobody)
    BY <1>1, <2>1, <2>2, Assigned
  <2>4. owner' = [owner EXCEPT ![r.bud] = w]
    BY <1>4
  <2> HIDE DEF w
  <2>5. QED
    BY <1>1, <1>2, <2>1, <2>3, <2>4
<1>13. \A b \in Buds : parked'[b] = (IF b = r.bud THEN o ELSE parked[b])
  BY <1>1, <1>3 DEF Shape
<1>14. \A b \in Buds : b # r.bud /\ parked[b] \in Offers =>
          parked[b] # o /\ parked[b] \notin O /\ offer[parked[b]].status = "pending"
            /\ offer[parked[b]].bud = b
  BY <1>2, <1>7 DEF LockedMeansPending, YieldTypeOK, Pending
<1>15. Shape'
  <2>1. offer' \in [Offers -> Rows]
    BY <1>3, <1>9, <1>10, <1>11 DEF Marked
  <2>2. \A n \in Offers : offer'[n] # NoOffer => offer'[n].bud \in Buds /\ offer'[n].yields \in Buds
    <3>1. ASSUME NEW n \in Offers \ {o}, offer'[n] # NoOffer
          PROVE  offer'[n].bud \in Buds /\ offer'[n].yields \in Buds
      <4>1. offer[n] # NoOffer
        BY <1>2, <1>11, <3>1 DEF Pending, NoOffer
      <4>2. QED
        BY <1>11, <4>1 DEF Shape
    <3>2. QED
      BY <1>1, <1>10, <3>1
  <2>3. QED
    BY <1>3, <1>6, <2>1, <2>2 DEF Shape
<1>16. YieldTypeOK'
  <2>1. ASSUME NEW n \in Offers, offer'[n] # NoOffer
        PROVE  /\ offer'[n].status \in Final \cup {"pending"} /\ offer'[n].target \in Users
               /\ Weight[offer'[n].yields] < Weight[offer'[n].bud]
    <3>1. CASE n = o
      BY <1>1, <1>10, <3>1
    <3>2. CASE n # o
      <4>1. offer[n] # NoOffer
        BY <1>2, <1>11, <2>1, <3>2 DEF Pending, NoOffer
      <4>2. /\ offer[n].status \in Final \cup {"pending"} /\ offer[n].target \in Users
            /\ Weight[offer[n].yields] < Weight[offer[n].bud]
        BY <4>1 DEF YieldTypeOK
      <4>3. QED
        BY <1>11, <3>2, <4>2 DEF Final
    <3>3. QED
      BY <3>1, <3>2
  <2>2. \A b \in Buds : parked'[b] \in Offers => offer'[parked'[b]].bud = b
    BY <1>10, <1>11, <1>13, <1>14
  <2>3. stale' \subseteq Offers
    BY <1>3 DEF YieldTypeOK
  <2>4. QED
    BY <1>12, <2>1, <2>2, <2>3 DEF YieldTypeOK, Owners
<1>17. LockedMeansPending'
  BY <1>10, <1>11, <1>13, <1>14 DEF LockedMeansPending
<1>18. \A n \in Offers : offer[n].status # "none" =>
          n # o /\ offer'[n].bud = offer[n].bud /\ offer'[n].status # "none"
  BY <1>7, <1>11
<1>19. \A b : b # r.bud => Pending(b)' = Pending(b)
  BY <1>2, <1>7, <1>10, <1>11 DEF Pending
<1>20. \A b : b = r.bud => Pending(b)' = {o}
  BY <1>2, <1>10, <1>11 DEF Pending
<1>21. WhatWasRead'
  <2> SUFFICES ASSUME NEW s \in Txs, tx'[s] = tx[s]
               PROVE  /\ tx[s].op \in {"assign", "replace"} => Decided(tx[s])'
                      /\ tx[s].op \in {"accept", "reject", "retarget"} => Addressed(tx[s])'
    BY <1>6 DEF WhatWasRead, Idle
  <2>1. tx[s].op \in {"assign", "replace"} => Decided(tx[s])'
    BY DEF WhatWasRead, Decided
  <2>2. ASSUME tx[s].op \in {"accept", "reject", "retarget"} PROVE Addressed(tx[s])'
    <3>1. tx[s].offer \in Offers /\ Addressed(tx[s])
      BY <2>2, RequestFields DEF WhatWasRead, Shape
    <3>2. /\ offer'[tx[s].offer].bud = offer[tx[s].offer].bud
          /\ offer'[tx[s].offer].status # "none"
      BY <1>18, <3>1 DEF Addressed
    <3>3. QED
      BY <3>1, <3>2 DEF Addressed
  <2>3. QED
    BY <2>1, <2>2
<1>22. OneHolder'
  BY <1>6 DEF OneHolder, Idle
<1>23. NothingOpen'
  <2> SUFFICES ASSUME NEW s \in Txs, tx'[s] = tx[s], tx[s].op = "assign", tx[s].run = "raise"
               PROVE  Pending(tx[s].bud)' \subseteq Moot(tx[s])'
    BY <1>6 DEF NothingOpen, Idle
  <2>1. s # t
    BY <1>6 DEF Idle
  <2>2. Pending(tx[s].bud)' = Pending(tx[s].bud)
    BY <1>5, <1>19, <2>1
  <2>3. Pending(tx[s].bud) \subseteq Moot(tx[s])
    BY DEF NothingOpen
  <2>4. QED
    BY <2>2, <2>3 DEF Moot
<1>24. AskedOnce'
  <2> SUFFICES ASSUME NEW b \in Buds PROVE Cardinality(Pending(b)') <= 1
    BY DEF AskedOnce
  <2>1. CASE b = r.bud
    <3>1. Pending(b)' = {o}
      BY <1>20, <2>1
    <3>2. Cardinality({o}) = 1
      BY FS_Singleton
    <3>3. QED
      BY <3>1, <3>2
  <2>2. CASE b # r.bud
    BY <1>19, <2>2 DEF AskedOnce
  <2>3. QED
    BY <2>1, <2>2
<1>25. AskedForTheUnassigned'
  <2> SUFFICES ASSUME NEW n \in Offers \ stale', offer'[n].status = "pending"
               PROVE  owner'[offer'[n].bud] = Nobody
    BY DEF AskedForTheUnassigned
  <2>1. CASE n = o
    BY <1>3, <1>10, <1>12, <2>1
  <2>2. CASE n # o
    <3>1. /\ offer[n].status = "pending" /\ offer'[n].bud = offer[n].bud
          /\ n \notin stale /\ n \notin O
      BY <1>3, <1>11, <2>2
    <3>2. offer[n].bud # r.bud /\ offer[n].bud \in Buds
      BY <1>2, <3>1 DEF Pending, Shape, NoOffer
    <3>3. QED
      BY <1>12, <3>1, <3>2 DEF AskedForTheUnassigned
  <2>3. QED
    BY <2>1, <2>2
<1>26. QED
  BY <1>15, <1>16, <1>17, <1>21, <1>22, <1>23, <1>24, <1>25

\* A re-targeted offer stays about its BUD, and pending or final as it is by then.
LEMMA Retargeting ==
  ASSUME IInv, NEW t \in Txs, RetargetWrites(tx[t]),
         tx' = [tx EXCEPT ![t] = Idle], UNCHANGED <<overdue, requests>>
  PROVE  IInv'
<1> USE DEF IInv
<1> DEFINE r == tx[t]
<1>1. /\ r.yields \in Buds /\ r.user \in Users /\ r.offer \in Offers
      /\ Weight[r.yields] < Weight[offer[r.offer].bud]
      /\ offer[r.offer].status # "none"
  BY RequestFields DEF RetargetWrites, WhatWasRead, Shape, Addressed
<1>2. /\ offer' = [offer EXCEPT ![r.offer].target = r.user, ![r.offer].yields = r.yields]
      /\ UNCHANGED <<owner, parked, stale>>
  BY DEF RetargetWrites
<1>3. /\ tx' \in [Txs -> Requests]
      /\ \A s \in Txs : tx'[s] \in {tx[s], Idle}
  BY DEF Shape, Requests
<1> HIDE DEF r
<1>4. offer[r.offer] \in Rows /\ r.user \in Owners
  BY <1>1 DEF Shape, Owners
<1>5. /\ offer'[r.offer].status = offer[r.offer].status
      /\ offer'[r.offer].bud = offer[r.offer].bud
      /\ offer'[r.offer].target = r.user /\ offer'[r.offer].yields = r.yields
      /\ offer'[r.offer] \in Rows
      /\ \A n \in Offers \ {r.offer} : offer'[n] = offer[n]
      /\ offer' \in [Offers -> Rows]
  BY <1>1, <1>2, <1>4 DEF Shape, Rows
<1>6. \A n \in Offers : offer'[n].status = offer[n].status /\ offer'[n].bud = offer[n].bud
  BY <1>1, <1>5
<1>7. offer[r.offer].bud \in Buds /\ offer[r.offer].status \in Final \cup {"pending"}
  BY <1>1, <1>4 DEF Shape, NoOffer, Rows
<1>8. YieldTypeOK'
  <2>1. \A n \in Offers : offer'[n] = NoOffer \/
          /\ offer'[n].status \in Final \cup {"pending"} /\ offer'[n].target \in Users
          /\ Weight[offer'[n].yields] < Weight[offer'[n].bud]
    BY <1>1, <1>5, <1>7 DEF YieldTypeOK
  <2>2. \A b \in Buds : parked'[b] \in Offers => offer'[parked'[b]].bud = b
    BY <1>2, <1>6 DEF YieldTypeOK
  <2>3. QED
    BY <1>2, <2>1, <2>2 DEF YieldTypeOK
<1>9. Shape'
  BY <1>1, <1>2, <1>3, <1>5, <1>7 DEF Shape
<1>10. LockedMeansPending'
  BY <1>2, <1>6 DEF LockedMeansPending
<1>11. QED
  BY <1>2, <1>3, <1>6, <1>8, <1>9, <1>10, RestKeeps

\* Whatever a request has decided, its write keeps the invariant.
LEMMA Committing ==
  ASSUME IInv, NEW t \in Txs, Commit(t)
  PROVE  IInv'
<1>1. tx' = [tx EXCEPT ![t] = Idle] /\ UNCHANGED <<overdue, requests>>
  BY DEF Commit
<1>2. \/ AssignWrites(t, tx[t]) \/ AcceptWrites(t, tx[t])
      \/ RejectWrites(tx[t]) \/ RetargetWrites(tx[t])
  BY DEF Commit
<1>3. QED
  BY <1>1, <1>2, Assigning, Raising, Accepting, Rejecting, Retargeting

\* Offers age and expire, requests are rolled back, and the server restarts.
LEMMA TheRest ==
  ASSUME IInv, (\E t \in Txs : RollBack(t)) \/ (\E o \in Offers : Ages(o)) \/ Expire \/ Reboot
  PROVE  IInv'
<1> USE DEF IInv
<1>1. owner \in [Buds -> Owners] /\ parked \in [Buds -> Offers \cup {Nobody}] /\ Nobody \notin Offers
  BY YieldAssumption DEF YieldTypeOK, Owners, Shape
<1>2. CASE Expire
  <2> DEFINE O == Overdue
             mark == [o \in O |-> "expired"]
  <2>1. O \in SUBSET Offers /\ mark \in [O -> Final] /\ \A o \in O : offer[o].status # "none"
    BY DEF Overdue, YieldTypeOK, Final
  <2>2. /\ offer' = Marked(O, mark) /\ parked' = Release(O)
        /\ UNCHANGED <<owner, overdue, tx, requests, stale>>
    BY <1>2, SettledIsMarked DEF Expire
  <2>3. /\ parked' \in [Buds -> Offers \cup {Nobody}]
        /\ \A b \in Buds : parked'[b] \in Offers => parked'[b] = parked[b] /\ parked[b] \notin O
    BY <1>1, <2>2 DEF Release
  <2>4. owner' \in [Buds -> Owners] /\ tx' \in [Txs -> Requests]
    BY <1>1, <2>2 DEF Shape
  <2> HIDE DEF O, mark
  <2>5. QED
    BY <2>1, <2>2, <2>3, <2>4, SettlingKeeps
<1>3. CASE Reboot \/ (\E t \in Txs : RollBack(t)) \/ \E o \in Offers : Ages(o)
  <2>1. /\ UNCHANGED <<owner, offer, requests, stale>> /\ overdue' \subseteq Offers
        /\ tx' \in [Txs -> Requests] /\ \A s \in Txs : tx'[s] \in {tx[s], Idle}
    BY <1>3 DEF Reboot, RollBack, Ages, Shape, Requests, YieldTypeOK
  <2>2. /\ parked' \in [Buds -> Offers \cup {Nobody}]
        /\ \A b \in Buds : parked'[b] \in Offers => parked'[b] = parked[b]
    BY <1>1, <1>3 DEF Reboot, RollBack, Ages
  <2>3. YieldTypeOK' /\ Shape'
    BY <2>1, <2>2 DEF YieldTypeOK, Shape
  <2>4. LockedMeansPending'
    BY <2>1, <2>2 DEF LockedMeansPending
  <2>5. QED
    BY <2>1, <2>3, <2>4, RestKeeps
<1>4. QED
  BY <1>2, <1>3

\* Reading, deciding, committing, and every raise and answer keep the invariant.
LEMMA StepIInv == IInv /\ [Next]_vars => IInv'
<1> SUFFICES ASSUME IInv, [Next]_vars PROVE IInv'
  OBVIOUS
<1>1. CASE UNCHANGED vars
  <2>1. UNCHANGED <<owner, offer, overdue, parked, tx, requests, stale>>
    BY <1>1 DEF vars
  <2>2. YieldTypeOK' /\ Shape' /\ WhatWasRead' /\ OneHolder'
    BY <2>1 DEF IInv, YieldTypeOK, Shape, WhatWasRead, Decided, Addressed, OneHolder
  <2>3. LockedMeansPending' /\ AskedOnce' /\ AskedForTheUnassigned'
    BY <2>1 DEF IInv, LockedMeansPending, AskedOnce, AskedForTheUnassigned, Pending
  <2>4. NothingOpen'
    BY <2>1 DEF IInv, NothingOpen, Moot, Pending
  <2>5. QED
    BY <2>2, <2>3, <2>4 DEF IInv
<1>2. CASE Next
  BY <1>2, Beginning, Committing, TheRest DEF Next
<1>3. QED
  BY <1>1, <1>2

-----------------------------------------------------------------------------
\* The sweeps pass over what is not pending, in the row as it is when they write; what
\* writes a row by its key makes it accepted or rejected, or leaves its status.
LEMMA StepKeepsAnswers ==
  ASSUME IInv, [Next]_vars, NEW o \in Offers, offer[o].status \in {"accepted", "rejected"}
  PROVE  offer'[o].status \in {"accepted", "rejected"}
<1> USE DEF IInv
<1>1. CASE UNCHANGED offer
  BY <1>1
<1>2. CASE Expire
  BY <1>2 DEF Expire, Settled, Overdue
<1>3. ASSUME NEW t \in Txs, Commit(t) PROVE offer'[o].status \in {"accepted", "rejected"}
  <2> DEFINE r == tx[t]
  <2>1. offer[o] \in Rows /\ \A n \in Moot(r) : offer[n].status = "pending"
    BY PendingShape DEF Shape, Pending, Moot
  <2>2. CASE AssignWrites(t, r)
    <3>1. Settled(Moot(r), "superseded")[o] = offer[o]
      BY <2>1 DEF Settled
    <3>2. \A n \in Offers : Fresh(n) => n # o
      BY DEF Fresh, NoOffer
    <3>3. \A n \in Offers : \A x :
            n # o => [Settled(Moot(r), "superseded") EXCEPT ![n] = x][o] = offer[o]
      BY <3>1 DEF Settled
    <3>4. \/ offer' = Settled(Moot(r), "superseded")
          \/ \E n \in Offers : \E x :
                Fresh(n) /\ offer' = [Settled(Moot(r), "superseded") EXCEPT ![n] = x]
      BY ONLY <2>2 DEF AssignWrites
    <3> HIDE DEF r
    <3>5. ASSUME NEW n \in Offers, NEW x, Fresh(n),
                 offer' = [Settled(Moot(r), "superseded") EXCEPT ![n] = x]
          PROVE  offer'[o] = offer[o]
      BY <3>2, <3>3, <3>5
    <3>6. offer'[o] = offer[o]
      BY <3>1, <3>4, <3>5
    <3>7. QED
      BY <3>6
  <2>3. CASE AcceptWrites(t, r)
    <3>1. r.offer \in Offers
      BY <2>3, RequestFields DEF AcceptWrites, Shape
    <3>2. o \notin Pending(r.bud)
      BY DEF Pending
    <3>3. QED
      BY <2>1, <2>3, <3>1, <3>2 DEF AcceptWrites, Settled, Rows
  <2>4. CASE RejectWrites(r)
    BY <2>1, <2>4 DEF RejectWrites, Settled, Rows
  <2>5. CASE RetargetWrites(r)
    <3>1. r.offer \in Offers
      BY <2>5, RequestFields DEF RetargetWrites, Shape
    <3>2. QED
      BY <2>1, <2>5, <3>1 DEF RetargetWrites, Shape, Rows
  <2>6. QED
    BY <1>3, <2>2, <2>3, <2>4, <2>5 DEF Commit
<1>4. QED
  <2>1. \/ UNCHANGED offer \/ Expire \/ \E t \in Txs : Commit(t)
    BY DEF Next, vars, Patches, Reads, Locks, AsksReplacement, Answers, Retargets, Begins,
       RollBack, Ages, Reboot
  <2>2. QED
    BY <1>1, <1>2, <1>3, <2>1

-----------------------------------------------------------------------------
\* Owners, offers and locks have their type, and an offer gives up a BUD of strictly
\* lower priority, however requests interleave and whatever is re-targeted.
THEOREM YieldTypeCorrect == Spec => []YieldTypeOK
BY InitIInv, StepIInv, PTL DEF Spec, IInv

\* The event that locks the menu of a BUD belongs to an offer that can be answered.
THEOREM LocksAreReleased == Spec => []LockedMeansPending
BY InitIInv, StepIInv, PTL DEF Spec, IInv

\* However many assignments run at a time, a BUD has one open offer at most: each asks
\* for open offers while it holds the BUD's row.
THEOREM NobodyIsAskedTwice == Spec => []AskedOnce
BY InitIInv, StepIInv, PTL DEF Spec, IInv

\* What is asked is asked for a BUD that has nobody, unless the run that asks had read
\* the owner before it held the row.
THEOREM OffersHaveAReason == Spec => []AskedForTheUnassigned
BY InitIInv, StepIInv, PTL DEF Spec, IInv

\* No expiry and no assignment writes over an answer.
THEOREM AnswersStand == Spec => AnswersOutliveSweeps
<1>1. IInv /\ [Next]_vars =>
        [\A o \in Offers : offer[o].status \in {"accepted", "rejected"} =>
            offer'[o].status \in {"accepted", "rejected"}]_vars
  BY StepKeepsAnswers
<1>2. QED
  BY <1>1, InitIInv, StepIInv, PTL DEF Spec, AnswersOutliveSweeps
===============================================================================
