------------------------------ MODULE YieldOffer ------------------------------
(***************************************************************************)
(* Yield offers: who owns each BUD, the offers that ask a developer to give   *)
(* one up for a BUD of higher priority, and the phase_assigner event that an  *)
(* open offer leaves parked (yield_offer_service.py, yield_offer_lock.py,     *)
(* bud_assignment.py).  A request is a READ COMMITTED transaction: it reads   *)
(* and decides, others commit, and it writes and commits.  What its UPDATE    *)
(* statements ask of a row is asked of the row as it is then.  Whoever runs    *)
(* the assignment of a BUD holds the BUD's row from before it asks for open    *)
(* offers until it commits.                                                   *)
(***************************************************************************)
EXTENDS Naturals, FiniteSets

CONSTANTS
    Users,       \* the developers, all of the role that the phase wants
    Buds,        \* the BUDs, none of them in a terminal status
    Weight,      \* BUD_PRIORITY_WEIGHTS of each BUD
    Cap,         \* max_active_buds_for
    Txs,         \* the requests that run at a time
    MaxOffers,   \* bound: rows in yield_offers
    MaxRequests, \* bound: requests
    Nobody

Offers == 1 .. MaxOffers
Final == {"accepted", "rejected", "expired", "superseded"}

ASSUME YieldAssumption ==
    /\ Weight \in [Buds -> Nat] /\ Cap \in Nat /\ MaxOffers \in Nat /\ MaxRequests \in Nat
    /\ Nobody \notin Users \cup Buds \cup Offers

VARIABLES
    owner,       \* bud_documents.assignee_id
    offer,       \* yield_offers
    overdue,     \* the offers created more than YIELD_OFFER_TTL ago
    parked,      \* the offer whose skill_invoked is the newest phase_assigner event
    tx,          \* what each request has read and decided
    requests,    \* how many there were
    stale        \* history: the offers raised on an outdated reading of the owner

vars == <<owner, offer, overdue, parked, tx, requests, stale>>

NoOffer == [status |-> "none", bud |-> Nobody, yields |-> Nobody, target |-> Nobody]
Idle == [op |-> "idle"]
Pending(b) == {o \in Offers : offer[o].status = "pending" /\ offer[o].bud = b}

\* An offer gives up a BUD of strictly lower priority.
YieldTypeOK ==
    /\ owner \in [Buds -> Users \cup {Nobody}]
    /\ \A o \in Offers : offer[o] = NoOffer \/
          /\ offer[o].status \in Final \cup {"pending"} /\ offer[o].target \in Users
          /\ Weight[offer[o].yields] < Weight[offer[o].bud]
    /\ overdue \subseteq Offers
    /\ \A b \in Buds : parked[b] \in Offers => offer[parked[b]].bud = b
    /\ requests \in 0 .. MaxRequests
    /\ stale \subseteq Offers

Init ==
    /\ owner \in [Buds -> Users \cup {Nobody}]
    /\ offer = [o \in Offers |-> NoOffer]
    /\ overdue = {}
    /\ parked = [b \in Buds |-> Nobody]
    /\ tx = [t \in Txs |-> Idle]
    /\ requests = 0
    /\ stale = {}

-----------------------------------------------------------------------------
(* What a request reads and decides.                                         *)

Begins(t, request) ==
    /\ tx[t] = Idle /\ requests < MaxRequests
    /\ requests' = requests + 1
    /\ tx' = [tx EXCEPT ![t] = request]
    /\ UNCHANGED <<owner, offer, overdue, parked, stale>>

\* An attribute that is set to the value it was read with is not written.
Written(old, saw, u) == IF saw = u THEN old ELSE u

\* No other request holds the row of this BUD: no other "assign", which takes it first.
RowFree(t, b) == \A s \in Txs \ {t} : ~(tx[s].op = "assign" /\ tx[s].bud = b)

\* Who holds what, in the eyes of a transaction to which the owners are "own".
Held(own, u) == {b \in Buds : own[b] = u}

\* The lowest of a developer's BUDs, and the developer with the widest gap.
Lowest(own, u) == {b \in Held(own, u) : \A c \in Held(own, u) : Weight[b] <= Weight[c]}
Yieldable(own, b) == {y \in UNION {Lowest(own, u) : u \in Users} : Weight[y] < Weight[b]}
Best(own, b) == {y \in Yieldable(own, b) : \A z \in Yieldable(own, b) : Weight[y] <= Weight[z]}

\* A user is set by hand: assign_bud closes the offers for the BUD at once.
ByHand(saw, given) == given \in Users /\ given # saw

\* auto_assign_for_phase, by a transaction that has set the assignee to "given": a
\* developer under the cap, whether by continuity, by skill or in turn; an offer when
\* all are at it and none is pending; or nobody, at once when there are no candidates.
\* When the choice itself raises, the assignee stays as it was given.
Runs(b, saw, given) ==
    LET own  == [owner EXCEPT ![b] = Written(@, saw, given)]
        open == IF ByHand(saw, given) THEN {} ELSE Pending(b)
        Free == {u \in Users : Cardinality(Held(own, u)) < Cap}
        Run(run, last) == [run |-> run, last |-> last, yields |-> Nobody, target |-> Nobody]
    IN {Run("auto", u) : u \in Free} \cup {Run("skip", Nobody)}
       \cup (IF Free # {} THEN {Run("fail", given)} ELSE {})
       \cup {[run |-> "raise", last |-> Nobody, yields |-> y, target |-> own[y]] :
                 y \in IF Free = {} /\ open = {} THEN Best(own, b) ELSE {}}

\* The manual assignment alone.
NoRun(given) == [run |-> "none", last |-> given, yields |-> Nobody, target |-> Nobody]

Assignment(op, b, saw, given, r) ==
    [op |-> op, bud |-> b, saw |-> saw, given |-> given, run |-> r.run,
     last |-> r.last, yields |-> r.yields, target |-> r.target]

\* Mutant: the PATCH reads and decides without lock_for_edit.
PatchesUnlocked(t, b) ==
    \E given \in Users \cup {Nobody} :
      \E r \in Runs(b, owner[b], given) \cup (IF given = owner[b] THEN {} ELSE {NoRun(given)}) :
          Begins(t, Assignment("replace", b, owner[b], given, r))

\* update_bud: under the row's lock, of the assignee, of the status, or of both.
Patches(t, b) ==
    /\ RowFree(t, b)
    /\ \E given \in Users \cup {Nobody} :
         \E r \in Runs(b, owner[b], given) \cup (IF given = owner[b] THEN {} ELSE {NoRun(given)}) :
             Begins(t, Assignment("assign", b, owner[b], given, r))

\* approve_tech_arch and check_bug_threshold read the BUD ...
Reads(t, b) == Begins(t, [op |-> "read", bud |-> b, saw |-> owner[b]])

\* ... and take its row with the UPDATE of its status, before they run the assignment;
\* the second one takes the tester off it first.
Locks(t) ==
    /\ tx[t].op = "read" /\ RowFree(t, tx[t].bud)
    /\ \E given \in {tx[t].saw, Nobody} : \E r \in Runs(tx[t].bud, tx[t].saw, given) :
          tx' = [tx EXCEPT ![t] = Assignment("assign", tx[t].bud, tx[t].saw, given, r)]
    /\ UNCHANGED <<owner, offer, overdue, parked, requests, stale>>

\* request_reassignment, of the assignee: the next developer under the cap.
AsksReplacement(t, b, u) ==
    /\ owner[b] \in Users /\ u # owner[b] /\ Cardinality(Held(owner, u)) < Cap
    /\ Begins(t, Assignment("replace", b, owner[b], u, NoRun(u)))

\* _guard_actor
GuardActor(o, u) == offer[o].target = u /\ offer[o].status = "pending"

Answers(t, o, u) ==
    /\ GuardActor(o, u)
    /\ \/ Begins(t, [op |-> "accept", offer |-> o, user |-> u, bud |-> offer[o].bud,
                     saw |-> owner[offer[o].bud], yields |-> offer[o].yields,
                     held |-> owner[offer[o].yields]])
       \/ Begins(t, [op |-> "reject", offer |-> o])

\* Mutant: the new developer's BUD may be as urgent as the incoming one.
RetargetsAny(t, o, u) ==
    /\ offer[o].status = "pending" /\ offer[o].target # u
    /\ \E y \in Lowest(owner, u) :
          /\ y # offer[o].bud
          /\ Begins(t, [op |-> "retarget", offer |-> o, user |-> u, yields |-> y])

\* reassign_offer
Retargets(t, o, u) ==
    /\ offer[o].status = "pending" /\ offer[o].target # u
    /\ \E y \in Lowest(owner, u) :
          /\ Weight[y] < Weight[offer[o].bud]
          /\ Begins(t, [op |-> "retarget", offer |-> o, user |-> u, yields |-> y])

-----------------------------------------------------------------------------
(* What a request writes.                                                    *)

Settled(O, status) ==
    [o \in Offers |-> IF o \in O THEN [offer[o] EXCEPT !.status = status] ELSE offer[o]]

\* Mutant: the lock is left to the next restart.
ReleaseNever(O) == parked

\* close_phase_assigner, of the BUDs whose newest event one of these offers parked.
Release(O) == [b \in Buds |-> IF parked[b] \in O THEN Nobody ELSE parked[b]]

\* Mutant: the automatic assignment leaves the offers for its BUD open.
MootByHand(r) == IF ByHand(r.saw, r.given) THEN Pending(r.bud) ELSE {}

\* supersede_offers_for_assigned_bud: the offers for a BUD that was given a user.
Moot(r) == IF ByHand(r.saw, r.given) \/ r.run = "auto" THEN Pending(r.bud) ELSE {}

\* The first free row of yield_offers.
Fresh(o) == offer[o] = NoOffer /\ \A n \in Offers : n < o => offer[n] # NoOffer

\* An assignment run logs a phase_assigner event of its own, which is the newest: what
\* was parked is not any more, but for the offer that the run raises itself.
AssignWrites(t, r) ==
    /\ r.op \in {"assign", "replace"} /\ RowFree(t, r.bud)
    /\ owner' = [owner EXCEPT ![r.bud] = Written(Written(@, r.saw, r.given), r.given, r.last)]
    /\ \/ /\ r.run = "raise"
          /\ \E o \in Offers :
               /\ Fresh(o)
               /\ offer' = [Settled(Moot(r), "superseded") EXCEPT
                      ![o] = [status |-> "pending", bud |-> r.bud,
                              yields |-> r.yields, target |-> r.target]]
               /\ parked' = [parked EXCEPT ![r.bud] = o]
               /\ stale' = stale \cup (IF r.saw = owner[r.bud] THEN {} ELSE {o})
       \/ /\ r.run # "raise"
          /\ offer' = Settled(Moot(r), "superseded")
          /\ parked' = IF r.run = "none" THEN Release(Moot(r))
                       ELSE [parked EXCEPT ![r.bud] = Nobody]
          /\ UNCHANGED stale

\* accept_offer writes ACCEPTED by primary key, whatever is there, takes the
\* yielded BUD off its owner and supersedes the other offers for the incoming BUD.
\* An UPDATE of a BUD waits for the one who holds its row.
AcceptWrites(t, r) ==
    LET moot == Pending(r.bud) \ {r.offer}
    IN /\ r.op = "accept"
       /\ r.held # Nobody => RowFree(t, r.yields)
       /\ r.saw # r.user => RowFree(t, r.bud)
       /\ owner' = [owner EXCEPT ![r.yields] = Written(@, r.held, Nobody),
                                 ![r.bud] = Written(@, r.saw, r.user)]
       /\ offer' = [Settled(moot, "superseded") EXCEPT ![r.offer].status = "accepted"]
       /\ parked' = Release(moot \cup {r.offer})
       /\ UNCHANGED stale

RejectWrites(r) ==
    /\ r.op = "reject"
    /\ offer' = Settled({r.offer}, "rejected")
    /\ parked' = Release({r.offer})
    /\ UNCHANGED <<owner, stale>>

RetargetWrites(r) ==
    /\ r.op = "retarget"
    /\ offer' = [offer EXCEPT ![r.offer].target = r.user, ![r.offer].yields = r.yields]
    /\ UNCHANGED <<owner, parked, stale>>

Commit(t) ==
    LET r == tx[t]
    IN /\ AssignWrites(t, r) \/ AcceptWrites(t, r) \/ RejectWrites(r) \/ RetargetWrites(r)
       /\ tx' = [tx EXCEPT ![t] = Idle]
       /\ UNCHANGED <<overdue, requests>>

\* get_db: what raises is rolled back, the loser of a deadlock included.
RollBack(t) ==
    /\ tx[t] # Idle
    /\ tx' = [tx EXCEPT ![t] = Idle]
    /\ UNCHANGED <<owner, offer, overdue, parked, requests, stale>>

Ages(o) ==
    /\ offer[o].status = "pending"
    /\ overdue' = overdue \cup {o}
    /\ UNCHANGED <<owner, offer, parked, tx, requests, stale>>

\* Mutant: the status is asked by the probe alone, not by the UPDATE.
OverdueAny == {o \in overdue : \E n \in overdue : offer[n].status = "pending"}

Overdue == {o \in overdue : offer[o].status = "pending"}

\* Every listing of offers: one UPDATE of those that are pending and overdue.
Expire ==
    /\ Overdue # {}
    /\ offer' = Settled(Overdue, "expired")
    /\ parked' = Release(Overdue)
    /\ UNCHANGED <<owner, overdue, tx, requests, stale>>

\* reconcile_orphan_phase_workers closes what is parked, but for the BUDs whose event
\* cannot be written; the offers stay open.
Reboot ==
    /\ \E failed \in SUBSET Buds :
          parked' = [b \in Buds |-> IF b \in failed THEN parked[b] ELSE Nobody]
    /\ tx' = [t \in Txs |-> Idle]
    /\ UNCHANGED <<owner, offer, overdue, requests, stale>>

Next ==
    \/ \E t \in Txs :
        \/ \E b \in Buds : Patches(t, b) \/ Reads(t, b)
        \/ \E b \in Buds, u \in Users : AsksReplacement(t, b, u)
        \/ \E o \in Offers, u \in Users : Answers(t, o, u) \/ Retargets(t, o, u)
        \/ Locks(t) \/ Commit(t) \/ RollBack(t)
    \/ \E o \in Offers : Ages(o)
    \/ Expire \/ Reboot

Spec == Init /\ [][Next]_vars

-----------------------------------------------------------------------------
\* "Everything that ends that wait has to release the lock": the event that locks a
\* BUD's menu belongs to an offer that somebody can still answer.
LockedMeansPending ==
    \A b \in Buds : parked[b] \in Offers => offer[parked[b]].status = "pending"

\* has_pending_for_incoming_bud "prevents creating duplicate offers for the same BUD
\* across concurrent assignment attempts": a BUD has one open offer, or none.
AskedOnce == \A b \in Buds : Cardinality(Pending(b)) <= 1

\* "A yield offer exists to find somebody for a BUD that has nobody": what is asked has
\* no answer yet, unless the run that raised the offer had read the owner before it
\* had the row.
AskedForTheUnassigned ==
    \A o \in Offers \ stale : offer[o].status = "pending" => owner[offer[o].bud] = Nobody

\* An answer that was given stands: no sweep of the offers makes it expired or
\* superseded, whatever the sweep and the answer had read of the row.
AnswersOutliveSweeps ==
    [][\A o \in Offers :
         offer[o].status \in {"accepted", "rejected"} =>
             offer'[o].status \in {"accepted", "rejected"}]_vars

-----------------------------------------------------------------------------
\* Promises of the comments that the code does not keep.

\* "A yield offer exists to find somebody for a BUD that has nobody. The moment that BUD
\* is assigned, the question it asks is already answered": without the excuse of a
\* reading that was outdated.
OffersAreForTheUnassigned ==
    \A o \in Offers : offer[o].status = "pending" => owner[offer[o].bud] = Nobody

\* "An Accept on that dead offer would unassign their current BUD and take the incoming
\* one back off whoever now owns it", and is refused: it is not, when the offer died
\* after it was read.
DeadOffersStayDead ==
    [][\A o \in Offers :
         offer[o].status \in {"expired", "superseded"} => offer'[o].status = offer[o].status]_vars

\* "The candidate's currently-held lower-priority BUD that would be released back to
\* the queue on acceptance": an answer takes a BUD off nobody but the one who gave it.
AcceptReleasesOwnBud ==
    [][\A t \in Txs :
         (tx[t].op = "accept" /\ tx'[t] = Idle /\ owner' # owner) =>
             owner[tx[t].yields] \in {tx[t].user, Nobody}]_vars
=============================================================================
