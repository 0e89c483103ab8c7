----------------------- MODULE PrMergeDeliveryProofs ------------------------
(* Proofs about the delivery of merged pull requests, for any repositories,   *)
(* deliveries, batch limit and number of boots: no delivery is lost without   *)
(* one of the named faults, and DONE and head_sha are true.                  *)
EXTENDS PrMergeDelivery, FiniteSetTheorems, TLAPS

\* A consumer has a delivery in hand exactly while it processes one, of its own
\* repository; what it is about to record as DONE has been handled; and a stream
\* carries the deliveries of its repository.
InPlaceAt(r) ==
    /\ consumer[r] \in {"none", "starting", "polling"} <=> inhand[r] = NoDelivery
    /\ inhand[r] # NoDelivery => RepoOf[inhand[r]] = r
    /\ consumer[r] = "recording" => inhand[r] \in handled
    /\ \A i \in DOMAIN stream[r] : RepoOf[stream[r][i]] = r

InPlace == \A r \in Repos : InPlaceAt(r)

IInv == TypeOK /\ InPlace /\ Accounted /\ DoneWasHandled

-----------------------------------------------------------------------------
\* What a boot puts on a stream.  A finite set of deliveries has an ascending
\* enumeration: the element of rank i is the i-th.
LEMMA AscendingExists ==
  ASSUME NEW S \in SUBSET Deliveries
  PROVE  \E q \in [1 .. Cardinality(S) -> S] : \A i, k \in DOMAIN q : i < k => q[i] < q[k]
<1> DEFINE Below(d) == {e \in S : e <= d}
           n == Cardinality(S)
           rank == [d \in S |-> Cardinality(Below(d))]
<1>1. LastDelivery \in Nat
  BY DeliveryAssumption
<1>2. S \subseteq Nat /\ IsFiniteSet(S) /\ n \in Nat
  <2>1. IsFiniteSet(Deliveries) /\ Deliveries \subseteq Nat
    BY <1>1, FS_Interval DEF Deliveries
  <2>2. IsFiniteSet(S)
    BY <2>1, FS_Subset
  <2>3. QED BY <2>1, <2>2, FS_CardinalityType
<1>3. \A d \in S : /\ IsFiniteSet(Below(d))
                   /\ Cardinality(Below(d)) \in Nat
                   /\ Cardinality(Below(d)) <= n
  BY <1>2, FS_Subset, FS_CardinalityType
<1>4. ASSUME NEW d \in S, NEW e \in S, d < e
      PROVE  rank[d] < rank[e]
  <2>u. d \in Nat /\ e \in Nat /\ \A x \in S : x \in Nat
    BY <1>2
  <2>v. Below(d) \subseteq Below(e)
    <3>1. ASSUME NEW x \in S, x <= d PROVE x <= e
      <4>1. x \in Nat
        BY <2>u
      <4>2. QED BY ONLY <4>1, <2>u, <3>1, <1>4
    <3>2. QED BY <3>1
  <2>w. e \in Below(e) /\ e \notin Below(d)
    BY <2>u, <1>4
  <2>1. Below(d) \subseteq Below(e) /\ e \in Below(e) /\ e \notin Below(d)
    BY <2>v, <2>w
  <2>2. Cardinality(Below(d)) <= Cardinality(Below(e)) /\ Cardinality(Below(d)) # Cardinality(Below(e))
    BY <1>3, <2>1, FS_Subset
  <2>3. QED BY <1>3, <2>2
<1>5. \A d \in S : rank[d] \in 1 .. n
  <2>1. ASSUME NEW d \in S PROVE Cardinality(Below(d)) # 0
    <3>1. d \in Below(d)
      BY <1>2
    <3>2. QED BY <1>3, <3>1, FS_EmptySet
  <2>2. QED BY <1>2, <1>3, <2>1
<1>6. rank \in Injection(S, 1 .. n)
  <2> HIDE DEF rank
  <2>1. \A d, e \in S : d # e => d < e \/ e < d
    BY <1>2
  <2>2. \A d, e \in S : rank[d] = rank[e] => d = e
    BY <1>2, <1>4, <1>5, <2>1
  <2>3. rank \in [S -> 1 .. n]
    BY <1>5 DEF rank
  <2>4. QED BY <2>2, <2>3 DEF Injection, IsInjective
<1>7. IsFiniteSet(1 .. n) /\ Cardinality(1 .. n) = n
  BY <1>2, FS_Interval
<1>8. rank \in Surjection(S, 1 .. n)
  <2> HIDE DEF rank
  <2>1. QED BY <1>6, <1>7, FS_Injection
<1> HIDE DEF rank, n
<1>9. \A i \in 1 .. n : \E d \in S : rank[d] = i
  BY <1>8 DEF Surjection
<1> DEFINE q == [i \in 1 .. n |-> CHOOSE d \in S : rank[d] = i]
<1>10. \A i \in 1 .. n : q[i] \in S /\ rank[q[i]] = i
  BY <1>9
<1>11. ASSUME NEW i \in 1 .. n, NEW k \in 1 .. n, i < k PROVE q[i] < q[k]
  <2>1. q[i] \in S /\ q[k] \in S /\ rank[q[i]] = i /\ rank[q[k]] = k
    BY <1>10
  <2> HIDE DEF q
  <2>2. PICK d \in S, e \in S : d = q[i] /\ e = q[k]
    BY <2>1
  <2>3. d \in Nat /\ e \in Nat /\ i \in Nat /\ k \in Nat
    BY <1>2
  <2>4. rank[d] = i /\ rank[e] = k
    BY <2>1, <2>2
  <2>5. ~(e < d)
    <3>1. ASSUME e < d PROVE FALSE
      <4>1. rank[e] < rank[d]
        BY <3>1, <1>4
      <4>2. QED BY <4>1, <2>3, <2>4, <1>11
    <3>2. QED BY <3>1
  <2>6. d # e
    BY <2>3, <2>4, <1>11
  <2>7. d < e
    BY <2>3, <2>5, <2>6
  <2>8. QED BY <2>2, <2>7
<1>12. q \in [1 .. n -> S] /\ DOMAIN q = 1 .. n
  BY <1>10
<1> HIDE DEF q
<1>13. QED BY <1>11, <1>12 DEF n

\* The enumeration misses no element.
LEMMA AscendingListsAll ==
  ASSUME NEW S \in SUBSET Deliveries
  PROVE  /\ Ascending(S) \in Seq(S)
         /\ \A d \in S : \E i \in DOMAIN Ascending(S) : Ascending(S)[i] = d
<1> DEFINE q == Ascending(S)
           n == Cardinality(S)
<1>1. q \in [1 .. n -> S] /\ \A i, k \in DOMAIN q : i < k => q[i] < q[k]
  BY AscendingExists DEF Ascending
<1>2. S \subseteq Nat /\ IsFiniteSet(S) /\ n \in Nat
  <2>1. IsFiniteSet(Deliveries) /\ Deliveries \subseteq Nat
    BY DeliveryAssumption, FS_Interval DEF Deliveries
  <2>2. IsFiniteSet(S)
    BY <2>1, FS_Subset
  <2>3. QED BY <2>1, <2>2, FS_CardinalityType
<1> HIDE DEF q, n
<1>3. q \in Injection(1 .. n, S)
  <2>1. \A i, k \in 1 .. n : i # k => i < k \/ k < i
    BY <1>2
  <2>2. \A i, k \in 1 .. n : q[i] = q[k] => i = k
    <3>1. ASSUME NEW i \in 1 .. n, NEW k \in 1 .. n, i < k PROVE q[i] # q[k]
      <4>1. q[i] \in Nat /\ q[k] \in Nat /\ q[i] < q[k]
        BY <1>1, <1>2, <3>1
      <4>2. QED BY <4>1
    <3>2. QED BY <2>1, <3>1
  <2>3. QED BY <1>1, <2>2 DEF Injection, IsInjective
<1>4. IsFiniteSet(1 .. n) /\ Cardinality(1 .. n) = Cardinality(S)
  BY <1>2, FS_Interval DEF n
<1>5. q \in Surjection(1 .. n, S)
  BY <1>2, <1>3, <1>4, FS_Injection
<1>6. q \in Seq(S)
  BY <1>1, <1>2
<1>7. \A d \in S : \E i \in DOMAIN q : q[i] = d
  BY <1>1, <1>5 DEF Surjection
<1>8. QED BY <1>6, <1>7 DEF q

\* What Republished puts on a stream: deliveries of that repository, each of the
\* sent ones that is an orphan of the repository among them.
LEMMA RepublishedListsOrphans ==
  ASSUME NEW sent \in SUBSET Deliveries, NEW r \in Repos
  PROVE  /\ Republished(sent, r) \in Seq(Deliveries)
         /\ \A i \in DOMAIN Republished(sent, r) : RepoOf[Republished(sent, r)[i]] = r
         /\ \A d \in sent : RepoOf[d] = r /\ row[d] \in Orphan =>
               \E i \in DOMAIN Republished(sent, r) : Republished(sent, r)[i] = d
<1> DEFINE A == {d \in sent : RepoOf[d] = r /\ row[d] = "running"}
           B == {d \in sent : RepoOf[d] = r /\ row[d] = "pending"}
<1>1. A \in SUBSET Deliveries /\ B \in SUBSET Deliveries
  OBVIOUS
<1>2. \A d \in A \cup B : RepoOf[d] = r
  OBVIOUS
<1>3. \A d \in sent : RepoOf[d] = r /\ row[d] \in Orphan => d \in A \/ d \in B
  BY DEF Orphan
<1>4. Republished(sent, r) = Ascending(A) \o Ascending(B)
  BY DEF Republished
<1> HIDE DEF A, B
<1>5. /\ Ascending(A) \in Seq(A)
      /\ \A d \in A : \E i \in DOMAIN Ascending(A) : Ascending(A)[i] = d
  BY <1>1, AscendingListsAll
<1>6. /\ Ascending(B) \in Seq(B)
      /\ \A d \in B : \E i \in DOMAIN Ascending(B) : Ascending(B)[i] = d
  BY <1>1, AscendingListsAll
<1> SUFFICES ASSUME NEW a, NEW b, a = Ascending(A), b = Ascending(B)
             PROVE  /\ a \o b \in Seq(Deliveries)
                    /\ \A i \in DOMAIN (a \o b) : RepoOf[(a \o b)[i]] = r
                    /\ \A d \in sent : RepoOf[d] = r /\ row[d] \in Orphan =>
                          \E i \in DOMAIN (a \o b) : (a \o b)[i] = d
  BY <1>4
<1>7. a \in Seq(Deliveries) /\ b \in Seq(Deliveries)
  BY <1>1, <1>5, <1>6
<1>8. \A i \in DOMAIN a : a[i] \in A
  BY <1>5
<1>9. \A i \in DOMAIN b : b[i] \in B
  BY <1>6
<1>10. /\ a \o b \in Seq(Deliveries)
       /\ DOMAIN (a \o b) = 1 .. Len(a) + Len(b)
       /\ DOMAIN a = 1 .. Len(a) /\ DOMAIN b = 1 .. Len(b)
       /\ Len(a) \in Nat /\ Len(b) \in Nat
       /\ \A i \in 1 .. Len(a) + Len(b) :
             (a \o b)[i] = IF i <= Len(a) THEN a[i] ELSE b[i - Len(a)]
  BY <1>7
<1>11. ASSUME NEW i \in DOMAIN (a \o b) PROVE (a \o b)[i] \in A \cup B
  <2>1. CASE i <= Len(a)
    <3>1. i \in DOMAIN a /\ (a \o b)[i] = a[i]
      BY <1>10, <2>1
    <3>2. QED BY <3>1, <1>8
  <2>2. CASE ~(i <= Len(a))
    <3>1. i - Len(a) \in DOMAIN b /\ (a \o b)[i] = b[i - Len(a)]
      BY <1>10, <2>2
    <3>2. QED BY <3>1, <1>9
  <2>3. QED BY <2>1, <2>2
<1>12. ASSUME NEW d \in A PROVE \E i \in DOMAIN (a \o b) : (a \o b)[i] = d
  <2>1. PICK i \in DOMAIN a : a[i] = d
    BY <1>5
  <2>2. i \in DOMAIN (a \o b) /\ (a \o b)[i] = a[i]
    BY <1>10
  <2>3. QED BY <2>1, <2>2
<1>13. ASSUME NEW d \in B PROVE \E i \in DOMAIN (a \o b) : (a \o b)[i] = d
  <2>1. PICK i \in DOMAIN b : b[i] = d
    BY <1>6
  <2>2. Len(a) + i \in DOMAIN (a \o b) /\ (a \o b)[Len(a) + i] = b[i]
    BY <1>10
  <2>3. QED BY <2>1, <2>2
<1>14. \A i \in DOMAIN (a \o b) : RepoOf[(a \o b)[i]] = r
  BY <1>11, <1>2
<1>15. \A d \in sent : RepoOf[d] = r /\ row[d] \in Orphan => \E i \in DOMAIN (a \o b) : (a \o b)[i] = d
  BY <1>3, <1>12, <1>13
<1>16. QED BY <1>10, <1>14, <1>15

-----------------------------------------------------------------------------
\* Where a delivery that is not settled is, while the backend runs.
Kept(d) == d \in publishing \cup dropped \/ Unread(d) \/ InHand(d)

\* A consumer without a delivery has none of the deliveries in hand.
LEMMA NoDeliveryIsNone == NoDelivery \notin Deliveries
BY DEF NoDelivery, Deliveries

\* Before the first boot nothing is recorded, published or worked on.
LEMMA InitIInv == Init => IInv
<1> SUFFICES ASSUME Init PROVE IInv
  OBVIOUS
<1>1. TypeOK
  <2>1. boots \in 0 .. MaxBoots
    BY DeliveryAssumption DEF Init
  <2>2. QED BY <2>1 DEF Init, TypeOK
<1>2. InPlace
  BY DEF Init, InPlace, InPlaceAt
<1>3. Accounted
  BY DEF Init, Accounted
<1>4. DoneWasHandled
  BY DEF Init, DoneWasHandled
<1>5. QED BY <1>1, <1>2, <1>3, <1>4 DEF IInv

\* A step that touches neither rows, heads nor history keeps DONE true.
LEMMA DoneUnchanged ==
  ASSUME DoneWasHandled, UNCHANGED <<row, head, handled>>
  PROVE  DoneWasHandled'
BY DEF DoneWasHandled

\* The webhook's commit: a new row, which its request is about to publish.
LEMMA ReceiveKeeps ==
  ASSUME IInv, NEW d \in Deliveries, Receive(d)
  PROVE  IInv'
<1>1. /\ backend # "down" /\ row[d] = "none"
      /\ row' = [row EXCEPT ![d] = "pending"]
      /\ publishing' = publishing \cup {d}
      /\ UNCHANGED <<gone, head, registry, stream, group, backend, boots, consumer,
                     inhand, handled, runs, dropped>>
  BY DEF Receive, redis, history
<1>2. TypeOK' 
  BY <1>1 DEF IInv, TypeOK, Orphan
<1>3. InPlace'
  BY <1>1 DEF IInv, InPlace, InPlaceAt
<1>4. Accounted'
  <2> SUFFICES ASSUME NEW e \in Deliveries, row'[e] \in Orphan PROVE Kept(e)'
    BY DEF Accounted, Kept
  <2>1. CASE e = d
    BY <2>1, <1>1 DEF Kept
  <2>2. CASE e # d
    <3>1. row[e] \in Orphan
      BY <2>2, <1>1 DEF IInv, TypeOK
    <3>2. Kept(e)
      BY <3>1, <1>1 DEF IInv, Accounted, Kept
    <3>3. QED BY <3>2, <1>1 DEF Kept, Unread, InHand
  <2>3. QED BY <2>1, <2>2
<1>5. DoneWasHandled'
  <2>1. \A e \in Deliveries : row'[e] = "done" => row[e] = "done"
    BY <1>1 DEF IInv, TypeOK
  <2>2. QED BY <1>1, <2>1 DEF IInv, DoneWasHandled
<1>6. QED BY <1>2, <1>3, <1>4, <1>5 DEF IInv

\* The request leaves its delivery unread on the stream of its repository.
LEMMA PublishKeeps ==
  ASSUME IInv, NEW d \in Deliveries, Publish(d)
  PROVE  IInv'
<1>1. /\ d \in publishing /\ backend = "serving"
      /\ registry' = registry \cup {RepoOf[d]}
      /\ stream' = [stream EXCEPT ![RepoOf[d]] = Append(stream[RepoOf[d]], d)]
      /\ publishing' = publishing \ {d}
      /\ UNCHANGED <<row, gone, head, group, backend, boots, consumer,
                     inhand, handled, runs, dropped>>
  BY DEF Publish, durable, history
<1> DEFINE r == RepoOf[d]
           q == stream[r]
<1>2. r \in Repos
  BY DeliveryAssumption
<1> HIDE DEF r
<1>3. q \in Seq(Deliveries)
  BY <1>2 DEF IInv, TypeOK
<1> HIDE DEF q
<1>4. /\ Append(q, d) \in Seq(Deliveries)
      /\ DOMAIN Append(q, d) = 1 .. Len(q) + 1
      /\ DOMAIN q = 1 .. Len(q) /\ Len(q) \in Nat
      /\ \A i \in 1 .. Len(q) : Append(q, d)[i] = q[i]
      /\ Append(q, d)[Len(q) + 1] = d
  BY <1>3
<1>5. /\ stream' = [stream EXCEPT ![r] = Append(q, d)]
      /\ stream \in [Repos -> Seq(Deliveries)]
  BY <1>1 DEF r, q, IInv, TypeOK
<1>6. stream' \in [Repos -> Seq(Deliveries)] /\ stream'[r] = Append(q, d)
  BY <1>5, <1>4, <1>2
<1>7. TypeOK'
  BY <1>1, <1>2, <1>6 DEF IInv, TypeOK, r
<1>8. InPlace'
  <2> SUFFICES ASSUME NEW s \in Repos PROVE InPlaceAt(s)'
    BY DEF InPlace
  <2>0. InPlaceAt(s)
    BY DEF IInv, InPlace
  <2>1. CASE s # r
    <3>1. stream'[s] = stream[s]
      BY <1>5, <2>1
    <3>2. QED BY <3>1, <2>0, <1>1 DEF InPlaceAt
  <2>2. CASE s = r
    <3>1. \A i \in DOMAIN stream'[s] : RepoOf[stream'[s][i]] = s
      <4>1. ASSUME NEW i \in DOMAIN Append(q, d) PROVE RepoOf[Append(q, d)[i]] = r
        <5>1. CASE i \in 1 .. Len(q)
          <6>1. RepoOf[q[i]] = r
            BY <5>1, <1>4, <2>0, <2>2 DEF InPlaceAt, q
          <6>2. QED BY <6>1, <5>1, <1>4
        <5>2. CASE i = Len(q) + 1
          <6>1. Append(q, d)[i] = d
            BY <5>2, <1>4
          <6>2. QED BY <6>1 DEF r
        <5>3. QED BY <5>1, <5>2, <1>4
      <4>2. QED BY <4>1, <1>6, <2>2
    <3>2. QED BY <3>1, <2>0, <1>1 DEF InPlaceAt
  <2>3. QED BY <2>1, <2>2
<1>9. Accounted'
  <2> SUFFICES ASSUME NEW e \in Deliveries, row'[e] \in Orphan PROVE Kept(e)'
    BY DEF Accounted, Kept
  <2>1. Kept(e)
    BY <1>1 DEF IInv, Accounted, Kept
  <2>2. CASE e = d
    <3>1. Len(q) + 1 \in DOMAIN stream'[r] /\ stream'[r][Len(q) + 1] = d
      BY <1>4, <1>6
    <3>2. Unread(e)'
      BY <3>1, <2>2 DEF Unread, r
    <3>3. QED BY <3>2 DEF Kept
  <2>3. CASE e # d /\ ~Unread(e)
    BY <2>1, <2>3, <1>1 DEF Kept, InHand
  <2>4. CASE Unread(e)
    <3>1. CASE RepoOf[e] = r
      <4>1. PICK i \in DOMAIN q : q[i] = e
        BY <2>4, <3>1 DEF Unread, q
      <4>2. i \in DOMAIN stream'[r] /\ stream'[r][i] = e
        BY <4>1, <1>4, <1>6
      <4>3. QED BY <4>2, <3>1 DEF Kept, Unread
    <3>2. CASE RepoOf[e] # r
      <4>1. RepoOf[e] \in Repos
        BY DeliveryAssumption
      <4>2. stream'[RepoOf[e]] = stream[RepoOf[e]]
        BY <3>2, <4>1, <1>5
      <4>3. QED BY <4>2, <2>4 DEF Kept, Unread
    <3>3. QED BY <3>1, <3>2
  <2>5. QED BY <2>2, <2>3, <2>4
<1>10. DoneWasHandled'
  BY <1>1, DoneUnchanged DEF IInv
<1>11. QED BY <1>7, <1>8, <1>9, <1>10 DEF IInv

\* A publish that fails is a named fault: the row is left to the next boot.
LEMMA PublishFailsKeeps ==
  ASSUME IInv, NEW d \in Deliveries, PublishFails(d)
  PROVE  IInv'
<1>1. /\ registry' = registry \/ registry' = registry \cup {RepoOf[d]}
      /\ publishing' = publishing \ {d}
      /\ dropped' = dropped \cup {d}
      /\ UNCHANGED <<row, gone, head, stream, group, backend, boots, consumer,
                     inhand, handled, runs>>
  BY DEF PublishFails, durable, history
<1>2. RepoOf[d] \in Repos
  BY DeliveryAssumption
<1>3. TypeOK'
  BY <1>1, <1>2 DEF IInv, TypeOK
<1>4. InPlace'
  BY <1>1 DEF IInv, InPlace, InPlaceAt
<1>5. Accounted'
  <2> SUFFICES ASSUME backend' # "down", NEW e \in Deliveries, row'[e] \in Orphan PROVE Kept(e)'
    BY DEF Accounted, Kept
  <2>1. Kept(e)
    BY <1>1 DEF IInv, Accounted, Kept
  <2>2. QED BY <2>1, <1>1 DEF Kept, Unread, InHand
<1>6. DoneWasHandled'
  BY <1>1, DoneUnchanged DEF IInv
<1>7. QED BY <1>3, <1>4, <1>5, <1>6 DEF IInv

\* A delivery stays accounted for where neither its row nor its place changes.
LEMMA StaysAccounted ==
  ASSUME Accounted, UNCHANGED <<row, stream, inhand, publishing>>,
         dropped \subseteq dropped', backend' # "down" => backend # "down"
  PROVE  Accounted'
<1> SUFFICES ASSUME backend' # "down", NEW e \in Deliveries, row'[e] \in Orphan PROVE Kept(e)'
  BY DEF Accounted, Kept
<1>1. Kept(e)
  BY DEF Accounted, Kept
<1>2. QED BY <1>1 DEF Kept, Unread, InHand

\* The supervisor starts a consumer, and it makes its group or does not: it has
\* no delivery yet.
LEMMA StartingKeeps ==
  ASSUME IInv, NEW r \in Repos, Spawns(r) \/ EnsuresGroup(r)
  PROVE  IInv'
<1> DEFINE Idle == {"none", "starting", "polling"}
<1>1. PICK step \in Idle : consumer' = [consumer EXCEPT ![r] = step]
  BY DEF Spawns, EnsuresGroup, Becomes
<1>2. /\ consumer[r] \in Idle
      /\ group' = group \/ group' = group \cup {r}
      /\ UNCHANGED <<row, gone, head, registry, stream, backend, boots, publishing,
                     inhand, handled, runs, dropped>>
  BY DEF Spawns, EnsuresGroup, durable, redis, history
<1>3. consumer'[r] = step /\ \A s \in Repos : s # r => consumer'[s] = consumer[s]
  BY <1>1 DEF IInv, TypeOK
<1>4. TypeOK'
  BY <1>1, <1>2 DEF IInv, TypeOK
<1>5. InPlace'
  <2> SUFFICES ASSUME NEW s \in Repos PROVE InPlaceAt(s)'
    BY DEF InPlace
  <2>0. InPlaceAt(s)
    BY DEF IInv, InPlace
  <2>1. CASE s # r
    BY <2>0, <2>1, <1>2, <1>3 DEF InPlaceAt
  <2>2. CASE s = r
    BY <2>0, <2>2, <1>2, <1>3 DEF InPlaceAt
  <2>3. QED BY <2>1, <2>2
<1>6. Accounted'
  BY <1>2, StaysAccounted DEF IInv
<1>7. DoneWasHandled'
  BY <1>2, DoneUnchanged DEF IInv
<1>8. QED BY <1>4, <1>5, <1>6, <1>7 DEF IInv

\* XREADGROUP moves the head of the stream into the hand of the consumer, or
\* loses it with the reply.
LEMMA ReadsKeeps ==
  ASSUME IInv, NEW r \in Repos, Reads(r)
  PROVE  IInv'
<1>0. stream[r] \in Seq(Deliveries) /\ stream[r] # <<>>
  BY DEF Reads, IInv, TypeOK
<1>q. ASSUME NEW q \in Seq(Deliveries), q # <<>>
      PROVE  /\ Head(q) \in Deliveries /\ Tail(q) \in Seq(Deliveries)
             /\ \A i \in DOMAIN q : q[i] = Head(q) \/ \E k \in DOMAIN Tail(q) : Tail(q)[k] = q[i]
             /\ \A k \in DOMAIN Tail(q) : \E i \in DOMAIN q : Tail(q)[k] = q[i]
             /\ \E i \in DOMAIN q : q[i] = Head(q)
  <2>1. /\ Len(q) \in Nat /\ Len(q) >= 1 /\ DOMAIN q = 1 .. Len(q)
        /\ Head(q) = q[1] /\ Head(q) \in Deliveries
        /\ Tail(q) \in Seq(Deliveries) /\ DOMAIN Tail(q) = 1 .. Len(q) - 1
        /\ \A k \in 1 .. Len(q) - 1 : Tail(q)[k] = q[k + 1]
    BY <1>q
  <2>2. ASSUME NEW i \in DOMAIN q, i # 1 PROVE \E k \in DOMAIN Tail(q) : Tail(q)[k] = q[i]
    <3>1. i - 1 \in DOMAIN Tail(q) /\ Tail(q)[i - 1] = q[i]
      BY <2>1, <2>2
    <3>2. QED BY <3>1
  <2>3. ASSUME NEW k \in DOMAIN Tail(q) PROVE \E i \in DOMAIN q : Tail(q)[k] = q[i]
    <3>1. k + 1 \in DOMAIN q /\ Tail(q)[k] = q[k + 1]
      BY <2>1
    <3>2. QED BY <3>1
  <2>4. 1 \in DOMAIN q /\ q[1] = Head(q)
    BY <2>1
  <2>5. QED BY <2>1, <2>2, <2>3, <2>4
<1>p. PICK q \in Seq(Deliveries) : q = stream[r]
  BY <1>0
<1>t. PICK h \in Deliveries, t \in Seq(Deliveries) : h = Head(q) /\ t = Tail(q)
  BY <1>0, <1>p, <1>q
<1>h. /\ h = Head(stream[r]) /\ t = Tail(stream[r])
      /\ \A i \in DOMAIN stream[r] : stream[r][i] = h \/ \E k \in DOMAIN t : t[k] = stream[r][i]
      /\ \A k \in DOMAIN t : \E i \in DOMAIN stream[r] : t[k] = stream[r][i]
      /\ \E i \in DOMAIN stream[r] : stream[r][i] = h
  <2>1. /\ \A i \in DOMAIN q : q[i] = Head(q) \/ \E k \in DOMAIN Tail(q) : Tail(q)[k] = q[i]
        /\ \A k \in DOMAIN Tail(q) : \E i \in DOMAIN q : Tail(q)[k] = q[i]
        /\ \E i \in DOMAIN q : q[i] = Head(q)
    BY <1>0, <1>p, <1>q
  <2>2. QED BY ONLY <2>1, <1>p, <1>t
<1>1. /\ consumer[r] = "polling"
      /\ stream' = [stream EXCEPT ![r] = t]
      /\ UNCHANGED <<row, gone, head, registry, group, backend, boots, publishing, handled, runs>>
  BY <1>h DEF Reads, durable, history
<1>2. \/ /\ consumer' = [consumer EXCEPT ![r] = "marking"]
         /\ inhand' = [inhand EXCEPT ![r] = h]
         /\ dropped' = dropped
      \/ /\ dropped' = dropped \cup {h}
         /\ UNCHANGED <<consumer, inhand>>
  BY <1>h DEF Reads, Becomes
<1>3. RepoOf[h] = r
  BY <1>h DEF IInv, InPlace, InPlaceAt
<1>4. h # NoDelivery
  BY NoDeliveryIsNone
<1>5. stream'[r] = t /\ \A s \in Repos : s # r => stream'[s] = stream[s]
  BY <1>1 DEF IInv, TypeOK
<1>6. TypeOK'
  <2>1. stream' \in [Repos -> Seq(Deliveries)]
    BY <1>1 DEF IInv, TypeOK
  <2>2. consumer' \in [Repos -> {"none", "starting", "polling", "marking", "handling",
                               "recording", "failing"}]
    BY <1>2 DEF IInv, TypeOK
  <2>3. inhand' \in [Repos -> Deliveries \cup {NoDelivery}]
    BY <1>2 DEF IInv, TypeOK
  <2>4. dropped' \subseteq Deliveries
    BY <1>2 DEF IInv, TypeOK
  <2>5. QED BY <2>1, <2>2, <2>3, <2>4, <1>1 DEF IInv, TypeOK
<1>7. InPlace'
  <2> SUFFICES ASSUME NEW s \in Repos PROVE InPlaceAt(s)'
    BY DEF InPlace
  <2>0. InPlaceAt(s)
    BY DEF IInv, InPlace
  <2>1. \A i \in DOMAIN stream'[s] : RepoOf[stream'[s][i]] = s
    <3>1. CASE s = r
      BY <3>1, <1>h, <1>5, <2>0 DEF InPlaceAt
    <3>2. CASE s # r
      BY <3>2, <1>5, <2>0 DEF InPlaceAt
    <3>3. QED BY <3>1, <3>2
  <2>2. CASE UNCHANGED <<consumer, inhand>>
    BY <2>0, <2>1, <2>2, <1>1 DEF InPlaceAt
  <2>3. CASE /\ consumer' = [consumer EXCEPT ![r] = "marking"]
             /\ inhand' = [inhand EXCEPT ![r] = h]
    <3>1. CASE s = r
      <4>1. consumer'[s] = "marking" /\ inhand'[s] = h
        BY <2>3, <3>1 DEF IInv, TypeOK
      <4>2. QED BY <4>1, <3>1, <1>3, <1>4, <2>1 DEF InPlaceAt
    <3>2. CASE s # r
      <4>1. consumer'[s] = consumer[s] /\ inhand'[s] = inhand[s]
        BY <2>3, <3>2 DEF IInv, TypeOK
      <4>2. QED BY <4>1, <2>0, <2>1, <1>1 DEF InPlaceAt
    <3>3. QED BY <3>1, <3>2
  <2>4. QED BY <2>2, <2>3, <1>2
<1>8. Accounted'
  <2> SUFFICES ASSUME backend' # "down", NEW e \in Deliveries, row'[e] \in Orphan PROVE Kept(e)'
    BY DEF Accounted, Kept
  <2>1. Kept(e)
    BY <1>1 DEF IInv, Accounted, Kept
  <2>2. CASE e = h
    <3>1. InHand(e)' \/ e \in dropped'
      <4>1. CASE inhand' = [inhand EXCEPT ![r] = h]
        <5>1. inhand'[r] = h
          BY <4>1 DEF IInv, TypeOK
        <5>2. QED BY <5>1, <2>2 DEF InHand
      <4>2. QED BY <4>1, <2>2, <1>2
    <3>2. QED BY <3>1 DEF Kept
  <2>3. CASE e # h /\ Unread(e)
    <3>1. RepoOf[e] \in Repos
      BY DeliveryAssumption
    <3>2. Unread(e)'
      <4>1. CASE RepoOf[e] = r
        <5>1. PICK i \in DOMAIN stream[r] : stream[r][i] = e
          BY <2>3, <4>1 DEF Unread
        <5>2. \E k \in DOMAIN t : t[k] = e
          BY <5>1, <2>3, <1>h
        <5>3. QED BY <5>2, <4>1, <1>5 DEF Unread
      <4>2. CASE RepoOf[e] # r
        <5>1. stream'[RepoOf[e]] = stream[RepoOf[e]]
          BY <3>1, <4>2, <1>5
        <5>2. QED BY <5>1, <2>3 DEF Unread
      <4>3. QED BY <4>1, <4>2
    <3>3. QED BY <3>2 DEF Kept
  <2>4. CASE InHand(e)
    <3>1. PICK s \in Repos : inhand[s] = e
      BY <2>4 DEF InHand
    <3>2. inhand[r] = NoDelivery /\ e # NoDelivery
      BY <1>1, NoDeliveryIsNone DEF IInv, InPlace, InPlaceAt
    <3>3. inhand'[s] = e
      BY <3>1, <3>2, <1>2 DEF IInv, TypeOK
    <3>4. QED BY <3>3 DEF Kept, InHand
  <2>5. CASE e \in publishing \cup dropped
    BY <2>5, <1>1, <1>2 DEF Kept
  <2>6. QED BY <2>1, <2>2, <2>3, <2>4, <2>5 DEF Kept
<1>9. DoneWasHandled'
  BY <1>1, DoneUnchanged DEF IInv
<1>10. QED BY <1>6, <1>7, <1>8, <1>9 DEF IInv

\* RUNNING is written for the delivery in hand, or that fails.
LEMMA MarksKeeps ==
  ASSUME IInv, NEW r \in Repos, Marks(r)
  PROVE  IInv'
<1> PICK h \in Deliveries : h = inhand[r]
  BY DEF Marks, IInv, InPlace, InPlaceAt, TypeOK
<1>1. /\ consumer[r] = "marking"
      /\ UNCHANGED <<gone, head, registry, stream, group, backend, boots, publishing,
                     inhand, handled, dropped>>
  BY DEF Marks, redis
<1>2. PICK step \in {"handling", "failing"} : consumer' = [consumer EXCEPT ![r] = step]
  BY DEF Marks, Becomes
<1>3. row' = [row EXCEPT ![h] = "running"] \/ row' = row
  BY DEF Marks
<1>r. runs' = [runs EXCEPT ![h] = runs[h] + 1] \/ runs' = runs
  BY DEF Marks
<1>4. consumer'[r] = step /\ \A s \in Repos : s # r => consumer'[s] = consumer[s]
  BY <1>2 DEF IInv, TypeOK
<1>5. TypeOK'
  <2>0. runs \in [Deliveries -> Nat] /\ runs[h] + 1 \in Nat
    BY DEF IInv, TypeOK
  <2>1. runs' \in [Deliveries -> Nat]
    BY ONLY <1>r, <2>0
  <2>2. QED BY <2>1, <1>1, <1>2, <1>3 DEF IInv, TypeOK, Orphan
<1>6. InPlace'
  <2> SUFFICES ASSUME NEW s \in Repos PROVE InPlaceAt(s)'
    BY DEF InPlace
  <2>0. InPlaceAt(s)
    BY DEF IInv, InPlace
  <2>1. CASE s # r
    BY <2>0, <2>1, <1>1, <1>4 DEF InPlaceAt
  <2>2. CASE s = r
    BY <2>0, <2>2, <1>1, <1>4 DEF InPlaceAt
  <2>3. QED BY <2>1, <2>2
<1>7. Accounted'
  <2> SUFFICES ASSUME backend' # "down", NEW e \in Deliveries, row'[e] \in Orphan PROVE Kept(e)'
    BY DEF Accounted, Kept
  <2>1. CASE e = h
    BY <2>1, <1>1 DEF Kept, InHand
  <2>2. CASE e # h
    <3>1. row[e] \in Orphan
      BY <2>2, <1>3 DEF IInv, TypeOK
    <3>2. Kept(e)
      BY <3>1, <1>1 DEF IInv, Accounted, Kept
    <3>3. QED BY <3>2, <1>1 DEF Kept, Unread, InHand
  <2>3. QED BY <2>1, <2>2
<1>8. DoneWasHandled'
  <2>1. \A e \in Deliveries : row'[e] = "done" => row[e] = "done"
    BY <1>3 DEF IInv, TypeOK
  <2>2. QED BY <1>1, <2>1 DEF IInv, DoneWasHandled
<1>9. QED BY <1>5, <1>6, <1>7, <1>8 DEF IInv

\* The handler raises, or is through with the delivery and may have advanced the
\* head of its repository to it.
LEMMA HandlesKeeps ==
  ASSUME IInv, NEW r \in Repos, Handles(r)
  PROVE  IInv'
<1> PICK h \in Deliveries : h = inhand[r]
  BY DEF Handles, IInv, InPlace, InPlaceAt, TypeOK
<1>1. /\ consumer[r] = "handling"
      /\ UNCHANGED <<row, gone, registry, stream, group, backend, boots, publishing,
                     inhand, runs, dropped>>
  BY DEF Handles, redis
<1>2. \/ /\ consumer' = [consumer EXCEPT ![r] = "failing"]
         /\ UNCHANGED <<head, handled>>
      \/ /\ consumer' = [consumer EXCEPT ![r] = "recording"]
         /\ handled' = handled \cup {h}
         /\ head' = [head EXCEPT ![r] = h] \/ head' = head
  BY DEF Handles, Becomes
<1>3. RepoOf[h] = r
  BY NoDeliveryIsNone DEF IInv, InPlace, InPlaceAt
<1>4. TypeOK'
  BY <1>1, <1>2 DEF IInv, TypeOK
<1>5. InPlace'
  <2> SUFFICES ASSUME NEW s \in Repos PROVE InPlaceAt(s)'
    BY DEF InPlace
  <2>0. InPlaceAt(s)
    BY DEF IInv, InPlace
  <2>1. CASE s # r
    <3>1. consumer'[s] = consumer[s] /\ handled \subseteq handled'
      BY <2>1, <1>2 DEF IInv, TypeOK
    <3>2. QED BY <3>1, <2>0, <1>1 DEF InPlaceAt
  <2>2. CASE s = r
    <3>1. \/ consumer'[s] = "failing"
          \/ consumer'[s] = "recording" /\ h \in handled'
      BY <2>2, <1>2 DEF IInv, TypeOK
    <3>2. QED BY <3>1, <2>0, <2>2, <1>1 DEF InPlaceAt
  <2>3. QED BY <2>1, <2>2
<1>6. Accounted'
  BY <1>1, StaysAccounted DEF IInv
<1>7. DoneWasHandled'
  <2>1. handled \subseteq handled'
    BY <1>2
  <2>2. \A e \in Deliveries : row'[e] = "done" => e \in handled'
    BY <2>1, <1>1 DEF IInv, DoneWasHandled
  <2>3. ASSUME NEW s \in Repos, head'[s] # NoDelivery
        PROVE  head'[s] \in handled' /\ RepoOf[head'[s]] = s
    <3>1. CASE head'[s] = head[s]
      BY <3>1, <2>1, <2>3 DEF IInv, DoneWasHandled
    <3>2. CASE head'[s] # head[s]
      <4>1. s = r /\ head'[s] = h /\ h \in handled'
        BY <3>2, <1>2 DEF IInv, TypeOK
      <4>2. QED BY <4>1, <1>3
    <3>3. QED BY <3>1, <3>2
  <2>4. QED BY <2>2, <2>3 DEF DoneWasHandled
<1>8. QED BY <1>4, <1>5, <1>6, <1>7 DEF IInv

\* A consumer that is through with its delivery: the row is DONE, which only
\* follows the handler, or FAILED, or left to the next boot.
LEMMA EndsKeeps ==
  ASSUME IInv, NEW r \in Repos, Records(r) \/ Fails(r)
  PROVE  IInv'
<1> PICK h \in Deliveries : h = inhand[r]
  BY DEF Records, Fails, IInv, InPlace, InPlaceAt, TypeOK
<1>1. /\ consumer[r] \in {"recording", "failing"}
      /\ UNCHANGED <<gone, head, registry, stream, group, backend, boots, publishing, handled, runs>>
  BY DEF Records, Fails, Finishes, durable, redis, history
<1>2. \/ /\ consumer[r] = "recording" /\ consumer' = [consumer EXCEPT ![r] = "failing"]
         /\ UNCHANGED <<row, inhand, dropped>>
      \/ /\ consumer' = [consumer EXCEPT ![r] = "polling"]
         /\ inhand' = [inhand EXCEPT ![r] = NoDelivery]
         /\ \/ /\ \/ row' = [row EXCEPT ![h] = "failed"]
                  \/ consumer[r] = "recording" /\ row' = [row EXCEPT ![h] = "done"]
               /\ dropped' = dropped
            \/ row' = row /\ dropped' = dropped \cup {h}
  BY DEF Records, Fails, Finishes, Becomes, durable
<1>3. consumer[r] = "recording" => h \in handled
  BY DEF IInv, InPlace, InPlaceAt
<1>4. TypeOK'
  <2>1. row' \in [Deliveries -> {"none"} \cup Orphan \cup Settled]
    BY <1>2 DEF IInv, TypeOK, Settled
  <2>2. consumer' \in [Repos -> {"none", "starting", "polling", "marking", "handling",
                               "recording", "failing"}]
    BY <1>2 DEF IInv, TypeOK
  <2>3. inhand' \in [Repos -> Deliveries \cup {NoDelivery}] /\ dropped' \subseteq Deliveries
    BY <1>2 DEF IInv, TypeOK
  <2>4. QED BY <2>1, <2>2, <2>3, <1>1 DEF IInv, TypeOK
<1>5. InPlace'
  <2> SUFFICES ASSUME NEW s \in Repos PROVE InPlaceAt(s)'
    BY DEF InPlace
  <2>0. InPlaceAt(s)
    BY DEF IInv, InPlace
  <2>1. CASE s # r
    <3>1. consumer'[s] = consumer[s] /\ inhand'[s] = inhand[s]
      BY <2>1, <1>2 DEF IInv, TypeOK
    <3>2. QED BY <3>1, <2>0, <1>1 DEF InPlaceAt
  <2>2. CASE s = r
    <3>1. \/ consumer'[s] = "failing" /\ consumer[s] = "recording" /\ inhand'[s] = inhand[s]
          \/ consumer'[s] = "polling" /\ inhand'[s] = NoDelivery
      BY <2>2, <1>2 DEF IInv, TypeOK
    <3>2. QED BY <3>1, <2>0, <1>1 DEF InPlaceAt
  <2>3. QED BY <2>1, <2>2
<1>6. Accounted'
  <2> SUFFICES ASSUME backend' # "down", NEW e \in Deliveries, row'[e] \in Orphan PROVE Kept(e)'
    BY DEF Accounted, Kept
  <2>1. CASE e = h
    <3>2. CASE inhand' = inhand
      BY <3>2, <2>1 DEF Kept, InHand
    <3>3. CASE h \in dropped'
      BY <3>3, <2>1 DEF Kept
    <3>4. row'[h] \notin {"failed", "done"}
      BY <2>1 DEF Orphan
    <3>5. h \in DOMAIN row
      BY DEF IInv, TypeOK
    <3>6. row' # [row EXCEPT ![h] = "failed"] /\ row' # [row EXCEPT ![h] = "done"]
      BY <3>4, <3>5
    <3>7. QED BY <3>2, <3>3, <3>6, <1>2
  <2>2. CASE e # h
    <3>1. row[e] \in Orphan
      BY <2>2, <1>2 DEF IInv, TypeOK
    <3>2. Kept(e)
      BY <3>1, <1>1 DEF IInv, Accounted, Kept
    <3>3. dropped \subseteq dropped'
      BY <1>2
    <3>4. InHand(e) => InHand(e)'
      <4>1. ASSUME NEW s \in Repos, inhand[s] = e PROVE inhand'[s] = e
        BY <2>2, <4>1, <1>2 DEF IInv, TypeOK
      <4>2. QED BY <4>1 DEF InHand
    <3>5. QED BY <3>2, <3>3, <3>4, <1>1 DEF Kept, Unread
  <2>3. QED BY <2>1, <2>2
<1>7. DoneWasHandled'
  <2>1. ASSUME NEW e \in Deliveries, row'[e] = "done" PROVE e \in handled
    <3>1. CASE row[e] = "done"
      BY <3>1 DEF IInv, DoneWasHandled
    <3>2. CASE row[e] # "done"
      <4>1. e = h /\ consumer[r] = "recording"
        BY <2>1, <3>2, <1>2 DEF IInv, TypeOK
      <4>2. QED BY <4>1, <1>3
    <3>3. QED BY <3>1, <3>2
  <2>2. QED BY <2>1, <1>1 DEF IInv, DoneWasHandled
<1>8. QED BY <1>4, <1>5, <1>6, <1>7 DEF IInv

\* With the backend go its requests and its consumers.
LEMMA ExitsKeeps ==
  ASSUME IInv, Exits
  PROVE  IInv'
<1>1. /\ backend' = "down" /\ publishing' = {}
      /\ consumer' = [r \in Repos |-> "none"]
      /\ inhand' = [r \in Repos |-> NoDelivery]
      /\ UNCHANGED <<row, gone, head, registry, stream, group, boots, handled, runs, dropped>>
  BY DEF Exits, durable, redis, history
<1>2. TypeOK'
  BY <1>1 DEF IInv, TypeOK
<1>3. InPlace'
  BY <1>1 DEF IInv, InPlace, InPlaceAt
<1>4. Accounted'
  BY <1>1 DEF Accounted
<1>5. DoneWasHandled'
  BY <1>1, DoneUnchanged DEF IInv
<1>6. QED BY <1>2, <1>3, <1>4, <1>5 DEF IInv

\* What a Redis that comes back empty had unread is left to the next boot.
LEMMA RedisLosesDataKeeps ==
  ASSUME IInv, RedisLosesData
  PROVE  IInv'
<1>1. /\ registry' = {} /\ group' = {}
      /\ stream' = [r \in Repos |-> <<>>]
      /\ dropped' = dropped \cup {d \in Deliveries : \E r \in Repos :
                                    \E i \in DOMAIN stream[r] : stream[r][i] = d}
      /\ UNCHANGED <<row, gone, head, backend, boots, publishing, consumer, inhand, handled, runs>>
  BY DEF RedisLosesData, durable, process, history
<1>2. TypeOK'
  BY <1>1 DEF IInv, TypeOK
<1>3. InPlace'
  BY <1>1 DEF IInv, InPlace, InPlaceAt
<1>4. Accounted'
  <2> SUFFICES ASSUME backend' # "down", NEW e \in Deliveries, row'[e] \in Orphan PROVE Kept(e)'
    BY DEF Accounted, Kept
  <2>1. Kept(e)
    BY <1>1 DEF IInv, Accounted, Kept
  <2>2. RepoOf[e] \in Repos
    BY DeliveryAssumption
  <2>3. CASE Unread(e)
    BY <2>2, <2>3, <1>1 DEF Unread, Kept
  <2>4. CASE ~Unread(e)
    BY <2>1, <2>4, <1>1 DEF Kept, InHand
  <2>5. QED BY <2>3, <2>4
<1>5. DoneWasHandled'
  BY <1>1, DoneUnchanged DEF IInv
<1>6. QED BY <1>2, <1>3, <1>4, <1>5 DEF IInv

\* A repository that is deleted leaves its rows and its stream behind.
LEMMA RepoDeletedKeeps ==
  ASSUME IInv, NEW r \in Repos, RepoDeleted(r)
  PROVE  IInv'
<1>1. /\ gone' = gone \cup {r}
      /\ UNCHANGED <<row, head, registry, stream, group, backend, boots, publishing,
                     consumer, inhand, handled, runs, dropped>>
  BY DEF RepoDeleted, redis, process, history
<1>2. TypeOK'
  BY <1>1 DEF IInv, TypeOK
<1>3. InPlace'
  BY <1>1 DEF IInv, InPlace, InPlaceAt
<1>4. Accounted'
  BY <1>1, StaysAccounted DEF IInv
<1>5. DoneWasHandled'
  BY <1>1, DoneUnchanged DEF IInv
<1>6. QED BY <1>2, <1>3, <1>4, <1>5 DEF IInv

\* What a boot writes: the orphans it fails, those it registers and those it sends.
BootWrites(failed, reached, sent) ==
    /\ row' = [d \in Deliveries |-> IF d \in failed THEN "failed" ELSE row[d]]
    /\ stream' = [r \in Repos |-> stream[r] \o Republished(sent, r)]
    /\ registry' = registry \cup {RepoOf[d] : d \in reached}
    /\ dropped' = {d \in Deliveries : row[d] \in Orphan} \ (failed \cup sent)

LEMMA BootPicks ==
  ASSUME Boot
  PROVE  \E failed, reached, sent \in SUBSET Deliveries : BootWrites(failed, reached, sent)
<1> DEFINE listed == list_in_status("running") \cup list_in_status("pending")
           lost   == {d \in listed : RepoOf[d] \in gone}
<1>1. listed \in SUBSET Deliveries /\ lost \in SUBSET Deliveries
  BY DEF list_in_status
<1>2. Tried(listed, lost) \subseteq SUBSET Deliveries
  BY <1>1 DEF Tried
<1>3. \E tried \in Tried(listed, lost) :
      \E reached \in IF RedisMayFail THEN SUBSET (tried \ lost) ELSE {tried \ lost} :
      \E sent \in IF RedisMayFail THEN SUBSET reached ELSE {reached} :
         BootWrites(lost \cap tried, reached, sent)
  BY DEF Boot, BootWrites
<1> HIDE DEF listed, lost
<1>4. PICK tried \in Tried(listed, lost) :
      \E reached \in IF RedisMayFail THEN SUBSET (tried \ lost) ELSE {tried \ lost} :
      \E sent \in IF RedisMayFail THEN SUBSET reached ELSE {reached} :
         BootWrites(lost \cap tried, reached, sent)
  BY <1>3
<1>5. PICK reached \in IF RedisMayFail THEN SUBSET (tried \ lost) ELSE {tried \ lost} :
      \E sent \in IF RedisMayFail THEN SUBSET reached ELSE {reached} :
         BootWrites(lost \cap tried, reached, sent)
  BY <1>4
<1>6. PICK sent \in IF RedisMayFail THEN SUBSET reached ELSE {reached} :
         BootWrites(lost \cap tried, reached, sent)
  BY <1>5
<1>7. tried \in SUBSET Deliveries
  BY <1>2, <1>4
<1>8. reached \in SUBSET Deliveries
  BY <1>5, <1>7
<1>9. sent \in SUBSET Deliveries
  BY <1>6, <1>8
<1>10. lost \cap tried \in SUBSET Deliveries
  BY <1>7
<1>11. QED BY <1>6, <1>8, <1>9, <1>10

\* A boot publishes the orphans it looks at, and names those it leaves.
LEMMA BootKeeps ==
  ASSUME IInv, Boot
  PROVE  IInv'
<1>1. /\ boots < MaxBoots /\ boots' = boots + 1 /\ backend' = "serving"
      /\ UNCHANGED <<gone, head, group, publishing, consumer, inhand, handled, runs>>
  BY DEF Boot, history
<1>2. PICK lost \in SUBSET Deliveries, reached \in SUBSET Deliveries, sent \in SUBSET Deliveries :
        BootWrites(lost, reached, sent)
  BY BootPicks
<1> USE DEF BootWrites
<1>3. \A r \in Repos : stream[r] \in Seq(Deliveries) /\ Republished(sent, r) \in Seq(Deliveries)
  BY RepublishedListsOrphans DEF IInv, TypeOK
<1>4. \A r \in Repos : stream'[r] = stream[r] \o Republished(sent, r)
  BY <1>2
<1>5. TypeOK'
  <2>1. row' \in [Deliveries -> {"none"} \cup Orphan \cup Settled]
    BY <1>2 DEF IInv, TypeOK, Settled
  <2>2. stream' \in [Repos -> Seq(Deliveries)]
    <3>1. ASSUME NEW r \in Repos PROVE stream[r] \o Republished(sent, r) \in Seq(Deliveries)
      BY <1>3
    <3>2. QED BY <3>1, <1>2
  <2>3. registry' \subseteq Repos
    <3>1. \A d \in Deliveries : RepoOf[d] \in Repos
      BY DeliveryAssumption
    <3>2. QED BY <3>1, <1>2 DEF IInv, TypeOK
  <2>4. dropped' \subseteq Deliveries
    BY <1>2
  <2>5. boots' \in 0 .. MaxBoots
    BY <1>1, DeliveryAssumption DEF IInv, TypeOK
  <2>6. QED BY <2>1, <2>2, <2>3, <2>4, <2>5, <1>1 DEF IInv, TypeOK
<1>6. InPlace'
  <2> SUFFICES ASSUME NEW r \in Repos PROVE InPlaceAt(r)'
    BY DEF InPlace
  <2>0. InPlaceAt(r)
    BY DEF IInv, InPlace
  <2>1. ASSUME NEW i \in DOMAIN stream'[r] PROVE RepoOf[stream'[r][i]] = r
    <3>1. PICK q \in Seq(Deliveries), a \in Seq(Deliveries) : q = stream[r] /\ a = Republished(sent, r)
      BY <1>3
    <3>2. PICK c : c = stream'[r] /\ c = q \o a
      BY <1>4, <3>1
    <3>3. (\E k \in DOMAIN q : q[k] = c[i]) \/ (\E k \in DOMAIN a : a[k] = c[i])
      <4>1. q \in Seq(Deliveries) /\ a \in Seq(Deliveries) /\ c = q \o a /\ i \in DOMAIN c
        BY <2>1, <3>1, <3>2
      <4>2. /\ Len(q) \in Nat /\ Len(a) \in Nat /\ i \in 1 .. Len(q) + Len(a)
            /\ DOMAIN q = 1 .. Len(q) /\ DOMAIN a = 1 .. Len(a)
            /\ c[i] = IF i <= Len(q) THEN q[i] ELSE a[i - Len(q)]
        BY ONLY <4>1
      <4>3. CASE i <= Len(q)
        <5>1. i \in DOMAIN q /\ q[i] = c[i]
          BY ONLY <4>2, <4>3
        <5>2. QED BY <5>1
      <4>4. CASE ~(i <= Len(q))
        <5>1. i - Len(q) \in DOMAIN a /\ a[i - Len(q)] = c[i]
          BY ONLY <4>2, <4>4
        <5>2. QED BY <5>1
      <4>5. QED BY <4>3, <4>4
    <3>4. \A k \in DOMAIN q : RepoOf[q[k]] = r
      BY <2>0, <3>1 DEF InPlaceAt
    <3>5. \A k \in DOMAIN a : RepoOf[a[k]] = r
      BY <3>1, RepublishedListsOrphans
    <3>6. QED BY <3>2, <3>3, <3>4, <3>5
  <2>2. QED BY <2>0, <2>1, <1>1 DEF InPlaceAt
<1>7. Accounted'
  <2> SUFFICES ASSUME NEW e \in Deliveries, row'[e] \in Orphan PROVE Kept(e)'
    BY DEF Accounted, Kept
  <2>1. e \notin lost /\ row[e] \in Orphan
    BY <1>2 DEF Orphan
  <2>2. CASE e \in sent
    <3>1. PICK r \in Repos : r = RepoOf[e]
      BY DeliveryAssumption
    <3>2. PICK q \in Seq(Deliveries), a \in Seq(Deliveries) : q = stream[r] /\ a = Republished(sent, r)
      BY <1>3
    <3>3. PICK c : c = stream'[r] /\ c = q \o a
      BY <1>4, <3>2
    <3>4. \E i \in DOMAIN a : a[i] = e
      <4>1. \A d \in sent : RepoOf[d] = r /\ row[d] \in Orphan =>
               \E i \in DOMAIN Republished(sent, r) : Republished(sent, r)[i] = d
        BY RepublishedListsOrphans
      <4>2. QED BY ONLY <4>1, <2>1, <2>2, <3>1, <3>2
    <3>5. \E i \in DOMAIN c : c[i] = e
      <4>1. q \in Seq(Deliveries) /\ a \in Seq(Deliveries) /\ c = q \o a /\ e \in Deliveries
        BY <3>2, <3>3
      <4>2. PICK k \in DOMAIN a : a[k] = e
        BY <3>4
      <4>3. Len(q) + k \in DOMAIN c /\ c[Len(q) + k] = a[k]
        BY <4>1
      <4>4. QED BY <4>2, <4>3
    <3>6. QED BY <3>1, <3>3, <3>5 DEF Kept, Unread
  <2>3. CASE e \notin sent
    BY <2>1, <2>3, <1>2 DEF Kept
  <2>4. QED BY <2>2, <2>3
<1>8. DoneWasHandled'
  <2>1. \A e \in Deliveries : row'[e] = "done" => row[e] = "done"
    BY <1>2
  <2>2. QED BY <1>1, <2>1 DEF IInv, DoneWasHandled
<1>9. QED BY <1>5, <1>6, <1>7, <1>8 DEF IInv

\* A boot without Redis looks at no orphan.
LEMMA BootWithoutRedisKeeps ==
  ASSUME IInv, BootWithoutRedis
  PROVE  IInv'
<1>1. /\ boots < MaxBoots /\ boots' = boots + 1 /\ backend' = "no_pool"
      /\ dropped' = {d \in Deliveries : row[d] \in Orphan}
      /\ UNCHANGED <<row, gone, head, registry, stream, group, publishing, consumer,
                     inhand, handled, runs>>
  BY DEF BootWithoutRedis, durable, redis, history
<1>2. TypeOK'
  <2>1. boots' \in 0 .. MaxBoots
    BY <1>1, DeliveryAssumption DEF IInv, TypeOK
  <2>2. QED BY <1>1, <2>1 DEF IInv, TypeOK
<1>3. InPlace'
  BY <1>1 DEF IInv, InPlace, InPlaceAt
<1>4. Accounted'
  BY <1>1 DEF Accounted
<1>5. DoneWasHandled'
  BY <1>1, DoneUnchanged DEF IInv
<1>6. QED BY <1>2, <1>3, <1>4, <1>5 DEF IInv

-----------------------------------------------------------------------------
\* Every step keeps the invariant.
LEMMA StepIInv == IInv /\ [Next]_vars => IInv'
<1> SUFFICES ASSUME IInv, [Next]_vars PROVE IInv'
  OBVIOUS
<1>1. CASE \E d \in Deliveries : Receive(d)
  BY <1>1, ReceiveKeeps
<1>2. CASE \E d \in Deliveries : Request(d)
  BY <1>2, PublishKeeps, PublishFailsKeeps DEF Request
<1>3. CASE \E r \in Repos : Consumer(r)
  BY <1>3, StartingKeeps, ReadsKeeps, MarksKeeps, HandlesKeeps, EndsKeeps DEF Consumer
<1>4. CASE \E r \in Repos : RepoDeleted(r)
  BY <1>4, RepoDeletedKeeps
<1>5. CASE Exits \/ RedisLosesData
  BY <1>5, ExitsKeeps, RedisLosesDataKeeps
<1>6. CASE Boot \/ BootWithoutRedis
  BY <1>6, BootKeeps, BootWithoutRedisKeeps
<1>7. CASE UNCHANGED vars
  <2>1. TypeOK'
    BY <1>7 DEF IInv, TypeOK, vars
  <2>2. InPlace'
    BY <1>7 DEF IInv, InPlace, InPlaceAt, vars
  <2>3. Accounted'
    BY <1>7, StaysAccounted DEF IInv, vars
  <2>4. DoneWasHandled'
    BY <1>7, DoneUnchanged DEF IInv, vars
  <2>5. QED BY <2>1, <2>2, <2>3, <2>4 DEF IInv
<1>8. QED BY <1>1, <1>2, <1>3, <1>4, <1>5, <1>6, <1>7 DEF Next

\* The invariant holds for any repositories, deliveries, batch limit, boots and
\* faults.
THEOREM DeliveryIInvAlways == Safety => []IInv
BY InitIInv, StepIInv, PTL DEF Safety

\* Every row, stream and consumer of pr_merge_worker.py is well formed: Republished
\* and Head never hand out anything but a delivery.
THEOREM DeliveryTypeCorrect == Safety => []TypeOK
BY DeliveryIInvAlways, PTL DEF IInv

\* While the backend runs, a delivery whose row is RUNNING or PENDING is about to
\* be published, on its stream, in the hand of its consumer, or named as dropped
\* by a fault: no interleaving of requests, consumers, crashes and boots loses one.
THEOREM DeliveriesAreAccounted == Safety => []Accounted
BY DeliveryIInvAlways, PTL DEF IInv

-----------------------------------------------------------------------------
\* The attempts that a delivery has still to come: the request that is about to
\* publish it, the messages that carry it, and the consumer about to mark it.
Copies(q, d) == {i \in DOMAIN q : q[i] = d}

ToPublish(d) == IF d \in publishing THEN 1 ELSE 0
ToMark(d) == IF consumer[RepoOf[d]] = "marking" /\ inhand[RepoOf[d]] = d THEN 1 ELSE 0
ToRead(d) == Cardinality(Copies(stream[RepoOf[d]], d))

\* Each start of the backend pays for one attempt, and a delivery that is not
\* recorded has used none.  A backend that runs has been started.
Paid ==
    /\ \A d \in Deliveries : runs[d] + ToPublish(d) + ToRead(d) + ToMark(d) <= boots
    /\ \A d \in Deliveries : row[d] = "none" =>
          runs[d] + ToPublish(d) + ToRead(d) + ToMark(d) = 0
    /\ backend # "down" => boots >= 1

LEMMA CopiesFinite ==
  ASSUME NEW q \in Seq(Deliveries), NEW d
  PROVE  IsFiniteSet(Copies(q, d)) /\ Cardinality(Copies(q, d)) \in Nat
<1>1. DOMAIN q = 1 .. Len(q) /\ Len(q) \in Nat
  OBVIOUS
<1>2. IsFiniteSet(DOMAIN q)
  BY <1>1, FS_Interval
<1>3. Copies(q, d) \subseteq DOMAIN q
  BY DEF Copies
<1>4. QED BY <1>2, <1>3, FS_Subset, FS_CardinalityType

\* A message is a copy in a concatenation exactly where it is one in a part.
LEMMA CopiesAdd ==
  ASSUME NEW q \in Seq(Deliveries), NEW a \in Seq(Deliveries), NEW d
  PROVE  Cardinality(Copies(q \o a, d)) = Cardinality(Copies(q, d)) + Cardinality(Copies(a, d))
<1> DEFINE C == Copies(q, d)
           A == Copies(a, d)
           n == Len(q)
           S == {n + i : i \in A}
           shift == [i \in A |-> n + i]
<1>1. /\ n \in Nat /\ Len(a) \in Nat
      /\ DOMAIN q = 1 .. n /\ DOMAIN a = 1 .. Len(a) /\ DOMAIN (q \o a) = 1 .. n + Len(a)
      /\ \A i \in 1 .. n + Len(a) : (q \o a)[i] = IF i <= n THEN q[i] ELSE a[i - n]
  OBVIOUS
<1>2. C \subseteq 1 .. n /\ A \subseteq 1 .. Len(a)
  BY <1>1 DEF Copies
<1>3. Copies(q \o a, d) = C \cup S
  <2>1. ASSUME NEW i \in Copies(q \o a, d) PROVE i \in C \cup S
    <3>1. i \in 1 .. n + Len(a) /\ (q \o a)[i] = d
      BY <2>1, <1>1 DEF Copies
    <3>2. CASE i <= n
      <4>1. i \in DOMAIN q /\ q[i] = d
        BY <3>1, <3>2, <1>1
      <4>2. QED BY <4>1 DEF Copies
    <3>3. CASE ~(i <= n)
      <4>1. i - n \in DOMAIN a /\ a[i - n] = d /\ i = n + (i - n)
        BY <3>1, <3>3, <1>1
      <4>2. i - n \in A
        BY <4>1 DEF Copies
      <4>3. QED BY <4>1, <4>2
    <3>4. QED BY <3>2, <3>3
  <2>2. ASSUME NEW i \in C PROVE i \in Copies(q \o a, d)
    <3>1. i \in 1 .. n /\ q[i] = d
      BY <2>2, <1>1 DEF Copies
    <3>2. i \in 1 .. n + Len(a) /\ (q \o a)[i] = d
      BY <3>1, <1>1
    <3>3. QED BY <3>2, <1>1 DEF Copies
  <2>3. ASSUME NEW k \in A PROVE n + k \in Copies(q \o a, d)
    <3>1. k \in 1 .. Len(a) /\ a[k] = d
      BY <2>3, <1>1 DEF Copies
    <3>2. n + k \in 1 .. n + Len(a) /\ (q \o a)[n + k] = d
      BY <3>1, <1>1
    <3>3. QED BY <3>2, <1>1 DEF Copies
  <2>4. QED BY <2>1, <2>2, <2>3
<1>4. IsFiniteSet(C) /\ IsFiniteSet(A) /\ Cardinality(C) \in Nat /\ Cardinality(A) \in Nat
  BY CopiesFinite
<1> HIDE DEF C, A
<1>5. shift \in Bijection(A, S)
  <2>1. \A i \in A : i \in Nat
    BY <1>1, <1>2
  <2>2. \A i, k \in A : n + i = n + k => i = k
    BY <1>1, <2>1
  <2>3. QED BY <2>2 DEF Bijection, Injection, Surjection, IsInjective
<1>6. IsFiniteSet(S) /\ Cardinality(S) = Cardinality(A)
  <2>1. ExistsBijection(A, S)
    BY <1>5 DEF ExistsBijection
  <2> HIDE DEF S
  <2>2. QED BY <1>4, <2>1, FS_Bijection
<1>7. C \cap S = {}
  <2>1. ASSUME NEW k \in A PROVE n + k \notin C
    <3>1. n + k \notin 1 .. n
      BY <1>1, <1>2
    <3>2. QED BY <3>1, <1>2
  <2>2. QED BY <2>1
<1> HIDE DEF S, n
<1>8. Cardinality(C \cup S) = Cardinality(C) + Cardinality(S) - Cardinality(C \cap S)
  BY <1>4, <1>6, FS_Union
<1>9. Cardinality(C \cap S) = 0
  BY <1>7, FS_EmptySet
<1>10. QED BY <1>3, <1>4, <1>6, <1>8, <1>9 DEF C, A

\* One message more, or less, at either end.
LEMMA CopiesOfOne ==
  ASSUME NEW h \in Deliveries, NEW d
  PROVE  Cardinality(Copies(<<h>>, d)) = IF h = d THEN 1 ELSE 0
<1>1. CASE h = d
  <2>1. Copies(<<h>>, d) = {1}
    BY <1>1 DEF Copies
  <2>2. QED BY <1>1, <2>1, FS_Singleton
<1>2. CASE h # d
  <2>1. Copies(<<h>>, d) = {}
    BY <1>2 DEF Copies
  <2>2. QED BY <1>2, <2>1, FS_EmptySet
<1>3. QED BY <1>1, <1>2

LEMMA CopiesAppended ==
  ASSUME NEW q \in Seq(Deliveries), NEW h \in Deliveries, NEW d
  PROVE  Cardinality(Copies(Append(q, h), d)) =
            Cardinality(Copies(q, d)) + (IF h = d THEN 1 ELSE 0)
<1>1. Append(q, h) = q \o <<h>> /\ <<h>> \in Seq(Deliveries)
  OBVIOUS
<1>2. Cardinality(Copies(q \o <<h>>, d)) = Cardinality(Copies(q, d)) + Cardinality(Copies(<<h>>, d))
  BY <1>1, CopiesAdd
<1>3. Cardinality(Copies(<<h>>, d)) = IF h = d THEN 1 ELSE 0
  BY CopiesOfOne
<1>4. QED BY ONLY <1>1, <1>2, <1>3

LEMMA CopiesRead ==
  ASSUME NEW q \in Seq(Deliveries), q # <<>>, NEW d
  PROVE  Cardinality(Copies(q, d)) =
            Cardinality(Copies(Tail(q), d)) + (IF Head(q) = d THEN 1 ELSE 0)
<1>1. /\ q = <<Head(q)>> \o Tail(q)
      /\ Head(q) \in Deliveries /\ Tail(q) \in Seq(Deliveries)
      /\ <<Head(q)>> \in Seq(Deliveries)
  OBVIOUS
<1>2. PICK h \in Deliveries, t \in Seq(Deliveries) : h = Head(q) /\ t = Tail(q) /\ q = <<h>> \o t
  BY <1>1
<1>3. Cardinality(Copies(<<h>> \o t, d)) = Cardinality(Copies(<<h>>, d)) + Cardinality(Copies(t, d))
  <2>1. <<h>> \in Seq(Deliveries)
    OBVIOUS
  <2>2. QED BY <2>1, CopiesAdd
<1>4. Cardinality(Copies(<<h>>, d)) = IF h = d THEN 1 ELSE 0
  BY CopiesOfOne
<1>5. Cardinality(Copies(t, d)) \in Nat
  BY CopiesFinite
<1>6. Cardinality(Copies(q, d)) = Cardinality(Copies(<<h>> \o t, d))
  BY <1>2
<1>7. Cardinality(Copies(q, d)) = Cardinality(Copies(t, d)) + (IF h = d THEN 1 ELSE 0)
  BY ONLY <1>3, <1>4, <1>5, <1>6
<1>8. QED BY ONLY <1>2, <1>7

\* An enumeration in ascending order lists nothing twice.
LEMMA AscendingCopies ==
  ASSUME NEW S \in SUBSET Deliveries, NEW d
  PROVE  /\ Ascending(S) \in Seq(Deliveries)
         /\ Cardinality(Copies(Ascending(S), d)) = IF d \in S THEN 1 ELSE 0
<1> DEFINE q == Ascending(S)
           n == Cardinality(S)
<1>1. q \in [1 .. n -> S] /\ \A i, k \in DOMAIN q : i < k => q[i] < q[k]
  BY AscendingExists DEF Ascending
<1>2. q \in Seq(S) /\ \A e \in S : \E i \in DOMAIN q : q[i] = e
  BY AscendingListsAll
<1>3. LastDelivery \in Nat /\ Deliveries \subseteq Nat /\ IsFiniteSet(Deliveries)
  BY DeliveryAssumption, FS_Interval DEF Deliveries
<1>4. IsFiniteSet(S) /\ n \in Nat
  BY <1>3, FS_Subset, FS_CardinalityType
<1> HIDE DEF q, n
<1>5. q \in Seq(Deliveries)
  BY <1>2
<1>6. CASE d \in S
  <2>1. PICK i \in DOMAIN q : q[i] = d
    BY <1>2, <1>6
  <2>2. ASSUME NEW k \in DOMAIN q, q[k] = d PROVE k = i
    <3>1. i \in Nat /\ k \in Nat /\ d \in Nat
      BY <1>1, <1>3, <1>4, <1>6
    <3>2. ~(i < k) /\ ~(k < i)
      <4>1. i < k => d < d
        BY <1>1, <2>1, <2>2
      <4>2. k < i => d < d
        BY <1>1, <2>1, <2>2
      <4>3. QED BY <3>1, <4>1, <4>2
    <3>3. QED BY <3>1, <3>2
  <2>3. Copies(q, d) = {i}
    BY <2>1, <2>2 DEF Copies
  <2>4. QED BY <1>5, <1>6, <2>3, FS_Singleton DEF q
<1>7. CASE d \notin S
  <2>1. Copies(q, d) = {}
    BY <1>1, <1>7 DEF Copies
  <2>2. QED BY <1>5, <1>7, <2>1, FS_EmptySet DEF q
<1>8. QED BY <1>6, <1>7

\* A boot publishes an orphan at most once, and nothing that is no orphan.
LEMMA RepublishedOnce ==
  ASSUME NEW sent \in SUBSET Deliveries, NEW r \in Repos, NEW d \in Deliveries
  PROVE  /\ Cardinality(Copies(Republished(sent, r), d)) \in {0, 1}
         /\ row[d] \notin Orphan => Cardinality(Copies(Republished(sent, r), d)) = 0
<1> DEFINE A == {e \in sent : RepoOf[e] = r /\ row[e] = "running"}
           B == {e \in sent : RepoOf[e] = r /\ row[e] = "pending"}
<1>1. A \in SUBSET Deliveries /\ B \in SUBSET Deliveries
  OBVIOUS
<1>2. Republished(sent, r) = Ascending(A) \o Ascending(B)
  BY DEF Republished
<1>3. ~(d \in A /\ d \in B) /\ (row[d] \notin Orphan => d \notin A /\ d \notin B)
  BY DEF Orphan
<1> HIDE DEF A, B
<1>4. /\ Ascending(A) \in Seq(Deliveries)
      /\ Cardinality(Copies(Ascending(A), d)) = IF d \in A THEN 1 ELSE 0
  BY <1>1, AscendingCopies
<1>5. /\ Ascending(B) \in Seq(Deliveries)
      /\ Cardinality(Copies(Ascending(B), d)) = IF d \in B THEN 1 ELSE 0
  BY <1>1, AscendingCopies
<1>6. Cardinality(Copies(Ascending(A) \o Ascending(B), d)) =
         Cardinality(Copies(Ascending(A), d)) + Cardinality(Copies(Ascending(B), d))
  BY <1>4, <1>5, CopiesAdd
<1>7. QED BY <1>2, <1>3, <1>4, <1>5, <1>6


-----------------------------------------------------------------------------
\* What the proofs below need of the types.
LEMMA Countable ==
  ASSUME TypeOK, NEW d \in Deliveries
  PROVE  /\ RepoOf[d] \in Repos /\ stream[RepoOf[d]] \in Seq(Deliveries)
         /\ runs[d] \in Nat /\ boots \in Nat
         /\ ToPublish(d) \in {0, 1} /\ ToMark(d) \in {0, 1} /\ ToRead(d) \in Nat
<1>1. RepoOf[d] \in Repos
  BY DeliveryAssumption
<1>2. stream[RepoOf[d]] \in Seq(Deliveries)
  BY <1>1 DEF TypeOK
<1>3. ToRead(d) \in Nat
  BY <1>2, CopiesFinite DEF ToRead
<1>4. boots \in Nat
  BY DeliveryAssumption DEF TypeOK
<1>5. QED BY <1>1, <1>2, <1>3, <1>4 DEF TypeOK, ToPublish, ToMark

\* The same one step later.
LEMMA CountableNext ==
  ASSUME TypeOK', NEW d \in Deliveries
  PROVE  /\ RepoOf[d] \in Repos /\ stream'[RepoOf[d]] \in Seq(Deliveries)
         /\ runs'[d] \in Nat /\ boots' \in Nat
         /\ ToPublish(d)' \in {0, 1} /\ ToMark(d)' \in {0, 1} /\ ToRead(d)' \in Nat
<1>1. RepoOf[d] \in Repos
  BY DeliveryAssumption
<1>2. stream'[RepoOf[d]] \in Seq(Deliveries)
  BY <1>1 DEF TypeOK
<1>3. Cardinality(Copies(stream'[RepoOf[d]], d)) \in Nat
  BY <1>2, CopiesFinite
<1>4. ToRead(d)' \in Nat
  BY <1>3 DEF ToRead, Copies
<1>5. boots' \in Nat
  BY DeliveryAssumption DEF TypeOK
<1>6. QED BY <1>1, <1>2, <1>4, <1>5 DEF TypeOK, ToPublish, ToMark

\* Before the first boot no attempt is paid for and none is to come.
LEMMA InitPaid == Init => Paid
<1> SUFFICES ASSUME Init PROVE Paid
  OBVIOUS
<1>1. ASSUME NEW d \in Deliveries
      PROVE  runs[d] = 0 /\ ToPublish(d) = 0 /\ ToRead(d) = 0 /\ ToMark(d) = 0
  <2>1. RepoOf[d] \in Repos
    BY DeliveryAssumption
  <2>2. stream[RepoOf[d]] = <<>>
    BY <2>1 DEF Init
  <2>3. Copies(stream[RepoOf[d]], d) = {}
    BY <2>2 DEF Copies
  <2>4. ToRead(d) = 0
    BY <2>3, FS_EmptySet DEF ToRead
  <2>5. QED BY <2>1, <2>4 DEF Init, ToPublish, ToMark
<1>2. boots = 0 /\ backend = "down"
  BY DEF Init
<1>3. QED BY <1>1, <1>2 DEF Paid

\* Where no start is made, no row is recorded and no delivery has more attempts
\* behind it and ahead of it than before, all stays paid for.
LEMMA StaysPaid ==
  ASSUME TypeOK, TypeOK', Paid, boots' = boots, backend' # "down" => backend # "down",
         \A d \in Deliveries : row'[d] = "none" => row[d] = "none",
         \A d \in Deliveries :
             runs'[d] + ToPublish(d)' + ToRead(d)' + ToMark(d)'
                <= runs[d] + ToPublish(d) + ToRead(d) + ToMark(d)
  PROVE  Paid'
<1>1. ASSUME NEW d \in Deliveries
      PROVE  /\ runs'[d] + ToPublish(d)' + ToRead(d)' + ToMark(d)' <= boots'
             /\ row'[d] = "none" => runs'[d] + ToPublish(d)' + ToRead(d)' + ToMark(d)' = 0
  <2>1. PICK x \in Nat, y \in Nat : /\ x = runs[d] + ToPublish(d) + ToRead(d) + ToMark(d)
                                    /\ y = runs'[d] + ToPublish(d)' + ToRead(d)' + ToMark(d)'
    <3>1. runs[d] + ToPublish(d) + ToRead(d) + ToMark(d) \in Nat
      BY Countable
    <3>2. runs'[d] + ToPublish(d)' + ToRead(d)' + ToMark(d)' \in Nat
      <4>1. runs'[d] \in Nat /\ ToPublish(d)' \in {0, 1} /\ ToMark(d)' \in {0, 1} /\ ToRead(d)' \in Nat
        BY CountableNext
      <4>2. QED BY <4>1
    <3>3. QED BY <3>1, <3>2
  <2>2. y <= x
    BY <2>1
  <2>3. x <= boots /\ boots' = boots /\ boots \in Nat
    BY <2>1, Countable DEF Paid
  <2>4. row'[d] = "none" => x = 0
    BY <2>1 DEF Paid
  <2>5. QED BY <2>1, <2>2, <2>3, <2>4
<1>2. backend' # "down" => boots' >= 1
  BY DEF Paid
<1>3. QED BY <1>1, <1>2 DEF Paid

\* The webhook's commit pays for the attempt that its request will publish: the
\* backend that serves it has been started.
LEMMA ReceivePaid ==
  ASSUME IInv, TypeOK', Paid, NEW d \in Deliveries, Receive(d)
  PROVE  Paid'
<1>1. /\ backend # "down" /\ row[d] = "none"
      /\ row' = [row EXCEPT ![d] = "pending"]
      /\ publishing' = publishing \cup {d}
      /\ UNCHANGED <<stream, backend, boots, consumer, inhand, runs>>
  BY DEF Receive, redis, history
<1>2. \A e \in Deliveries : ToRead(e)' = ToRead(e) /\ ToMark(e)' = ToMark(e)
  BY <1>1 DEF ToRead, Copies, ToMark
<1>3. boots \in Nat /\ boots >= 1
  BY <1>1 DEF IInv, TypeOK, Paid
<1>4. ASSUME NEW e \in Deliveries
      PROVE  /\ runs'[e] + ToPublish(e)' + ToRead(e)' + ToMark(e)' <= boots'
             /\ row'[e] = "none" => runs'[e] + ToPublish(e)' + ToRead(e)' + ToMark(e)' = 0
  <2>0. /\ runs[e] \in Nat /\ ToPublish(e) \in {0, 1} /\ ToMark(e) \in {0, 1} /\ ToRead(e) \in Nat
        /\ runs[e] + ToPublish(e) + ToRead(e) + ToMark(e) <= boots
        /\ row[e] = "none" => runs[e] + ToPublish(e) + ToRead(e) + ToMark(e) = 0
    BY Countable DEF IInv, Paid
  <2>1. CASE e = d
    <3>1. ToPublish(e)' = 1 /\ row'[e] # "none"
      BY <2>1, <1>1 DEF ToPublish, IInv, TypeOK
    <3>2. runs[e] = 0 /\ ToRead(e) = 0 /\ ToMark(e) = 0
      BY <2>0, <2>1, <1>1
    <3>3. QED BY <3>1, <3>2, <1>1, <1>2, <1>3
  <2>2. CASE e # d
    <3>1. ToPublish(e)' = ToPublish(e) /\ row'[e] = row[e]
      BY <2>2, <1>1 DEF ToPublish, IInv, TypeOK
    <3>2. QED BY <3>1, <2>0, <1>1, <1>2
  <2>3. QED BY <2>1, <2>2
<1>5. QED BY <1>1, <1>3, <1>4 DEF Paid

\* The request's attempt becomes that of a message, or is lost.
LEMMA RequestPaid ==
  ASSUME IInv, TypeOK', Paid, NEW d \in Deliveries, Publish(d) \/ PublishFails(d)
  PROVE  Paid'
<1>1. /\ d \in publishing /\ publishing' = publishing \ {d}
      /\ \/ stream' = stream
         \/ stream' = [stream EXCEPT ![RepoOf[d]] = Append(stream[RepoOf[d]], d)]
      /\ UNCHANGED <<row, backend, boots, consumer, inhand, runs>>
  BY DEF Publish, PublishFails, durable, history
<1>2. ASSUME NEW e \in Deliveries
      PROVE  runs'[e] + ToPublish(e)' + ToRead(e)' + ToMark(e)'
                <= runs[e] + ToPublish(e) + ToRead(e) + ToMark(e)
  <2>0. /\ RepoOf[e] \in Repos /\ stream[RepoOf[e]] \in Seq(Deliveries)
        /\ runs[e] \in Nat /\ ToPublish(e) \in {0, 1} /\ ToMark(e) \in {0, 1} /\ ToRead(e) \in Nat
    BY Countable DEF IInv
  <2>1. runs'[e] = runs[e] /\ ToMark(e)' = ToMark(e)
    BY <1>1 DEF ToMark
  <2>2. ToPublish(e)' = ToPublish(e) - (IF e = d THEN 1 ELSE 0)
    BY <1>1 DEF ToPublish
  <2>3. ToRead(e)' <= ToRead(e) + (IF e = d THEN 1 ELSE 0)
    <3>1. CASE stream'[RepoOf[e]] = stream[RepoOf[e]]
      <4>1. ToRead(e)' = ToRead(e)
        BY <3>1 DEF ToRead, Copies
      <4>2. QED BY <4>1, <2>0
    <3>2. CASE stream'[RepoOf[e]] # stream[RepoOf[e]]
      <4>1. stream \in [Repos -> Seq(Deliveries)]
        BY DEF IInv, TypeOK
      <4>2. stream'[RepoOf[e]] = Append(stream[RepoOf[e]], d)
        BY <1>1, <2>0, <3>2, <4>1
      <4>3. Cardinality(Copies(Append(stream[RepoOf[e]], d), e)) =
               Cardinality(Copies(stream[RepoOf[e]], e)) + (IF d = e THEN 1 ELSE 0)
        BY <2>0, CopiesAppended
      <4>4. ToRead(e)' = Cardinality(Copies(stream'[RepoOf[e]], e))
        BY DEF ToRead, Copies
      <4>5. ToRead(e) = Cardinality(Copies(stream[RepoOf[e]], e))
        BY DEF ToRead
      <4>6. QED BY <4>2, <4>3, <4>4, <4>5, <2>0
    <3>3. QED BY <3>1, <3>2
  <2>4. ToRead(e)' \in Nat
    BY CountableNext
  <2>5. QED BY <2>0, <2>1, <2>2, <2>3, <2>4
<1>3. QED BY <1>1, <1>2, StaysPaid DEF IInv

\* The message's attempt becomes the consumer's, or is lost.
LEMMA ReadsPaid ==
  ASSUME IInv, TypeOK', Paid, NEW r \in Repos, Reads(r)
  PROVE  Paid'
<1>1. /\ consumer[r] = "polling" /\ stream[r] # <<>>
      /\ stream' = [stream EXCEPT ![r] = Tail(stream[r])]
      /\ \/ /\ consumer' = [consumer EXCEPT ![r] = "marking"]
            /\ inhand' = [inhand EXCEPT ![r] = Head(stream[r])]
         \/ UNCHANGED <<consumer, inhand>>
      /\ UNCHANGED <<row, backend, boots, publishing, runs>>
  BY DEF Reads, Becomes, durable, history
<1>2. /\ stream \in [Repos -> Seq(Deliveries)] /\ inhand \in [Repos -> Deliveries \cup {NoDelivery}]
      /\ DOMAIN consumer = Repos
  BY DEF IInv, TypeOK
<1>3. ASSUME NEW e \in Deliveries
      PROVE  runs'[e] + ToPublish(e)' + ToRead(e)' + ToMark(e)'
                <= runs[e] + ToPublish(e) + ToRead(e) + ToMark(e)
  <2>0. /\ RepoOf[e] \in Repos /\ stream[RepoOf[e]] \in Seq(Deliveries)
        /\ runs[e] \in Nat /\ ToPublish(e) \in {0, 1} /\ ToMark(e) \in {0, 1} /\ ToRead(e) \in Nat
    BY Countable DEF IInv
  <2>1. runs'[e] = runs[e] /\ ToPublish(e)' = ToPublish(e)
    BY <1>1 DEF ToPublish
  <2>2. CASE RepoOf[e] # r
    <3>1. /\ stream'[RepoOf[e]] = stream[RepoOf[e]]
          /\ consumer'[RepoOf[e]] = consumer[RepoOf[e]]
          /\ inhand'[RepoOf[e]] = inhand[RepoOf[e]]
      BY <2>2, <2>0, <1>1, <1>2
    <3>2. ToRead(e)' = ToRead(e) /\ ToMark(e)' = ToMark(e)
      BY <3>1 DEF ToRead, Copies, ToMark
    <3>3. QED BY <3>2, <2>0, <2>1
  <2>3. CASE RepoOf[e] = r
    <3>1. PICK q \in Seq(Deliveries) : q = stream[r] /\ q # <<>>
      BY <1>1, <1>2
    <3>2. stream'[r] = Tail(q) /\ Tail(q) \in Seq(Deliveries)
      BY <3>1, <1>1, <1>2
    <3>3. Cardinality(Copies(q, e)) = Cardinality(Copies(Tail(q), e)) + (IF Head(q) = e THEN 1 ELSE 0)
      BY <3>1, CopiesRead
    <3>4. ToRead(e)' = Cardinality(Copies(Tail(q), e)) /\ ToRead(e) = Cardinality(Copies(q, e))
      BY <2>3, <3>1, <3>2 DEF ToRead, Copies
    <3>5. ToMark(e)' <= IF Head(q) = e THEN 1 ELSE 0
      <4>1. CASE UNCHANGED <<consumer, inhand>>
        <5>1. ToMark(e)' = 0
          BY <4>1, <2>3, <1>1 DEF ToMark
        <5>2. QED BY <5>1
      <4>2. CASE inhand' = [inhand EXCEPT ![r] = Head(stream[r])]
        <5>1. inhand'[r] = Head(q)
          BY <4>2, <3>1, <1>2
        <5>2. QED BY <5>1, <2>3 DEF ToMark
      <4>3. QED BY <4>1, <4>2, <1>1
    <3>6. ToMark(e)' \in {0, 1} /\ ToRead(e)' \in Nat
      BY CountableNext
    <3>7. QED BY <3>3, <3>4, <3>5, <3>6, <2>0, <2>1
  <2>4. QED BY <2>2, <2>3
<1>4. QED BY <1>1, <1>3, StaysPaid DEF IInv

\* The consumer's attempt is made, or fails before it is.
LEMMA MarksPaid ==
  ASSUME IInv, TypeOK', Paid, NEW r \in Repos, Marks(r)
  PROVE  Paid'
<1>1. PICK h \in Deliveries : h = inhand[r] /\ RepoOf[h] = r
  BY NoDeliveryIsNone DEF Marks, IInv, InPlace, InPlaceAt, TypeOK
<1>2. PICK step \in {"handling", "failing"} : consumer' = [consumer EXCEPT ![r] = step]
  BY DEF Marks, Becomes
<1>3. /\ consumer[r] = "marking"
      /\ row' = [row EXCEPT ![h] = "running"] \/ row' = row
      /\ runs' = [runs EXCEPT ![h] = runs[h] + 1] \/ runs' = runs
      /\ UNCHANGED <<stream, backend, boots, publishing, inhand>>
  BY <1>1 DEF Marks, redis
<1>4. ASSUME NEW e \in Deliveries
      PROVE  runs'[e] + ToPublish(e)' + ToRead(e)' + ToMark(e)'
                <= runs[e] + ToPublish(e) + ToRead(e) + ToMark(e)
  <2>0. /\ RepoOf[e] \in Repos
        /\ runs[e] \in Nat /\ ToPublish(e) \in {0, 1} /\ ToMark(e) \in {0, 1} /\ ToRead(e) \in Nat
    BY Countable DEF IInv
  <2>1. ToRead(e)' = ToRead(e) /\ ToPublish(e)' = ToPublish(e)
    BY <1>3 DEF ToRead, Copies, ToPublish
  <2>2. DOMAIN consumer = Repos /\ runs \in [Deliveries -> Nat]
    BY DEF IInv, TypeOK
  <2>3. CASE e = h
    <3>1. ToMark(e) = 1
      BY <2>3, <1>1, <1>3 DEF ToMark
    <3>2. consumer'[r] # "marking"
      BY <1>2, <2>2
    <3>3. ToMark(e)' = 0
      BY <3>2, <2>3, <1>1 DEF ToMark
    <3>4. runs'[e] <= runs[e] + 1 /\ runs'[e] \in Nat
      BY <2>0, <2>2, <2>3, <1>3
    <3>5. QED BY <3>1, <3>3, <3>4, <2>0, <2>1
  <2>4. CASE e # h
    <3>1. runs'[e] = runs[e]
      BY <2>2, <2>4, <1>3
    <3>2. ToMark(e)' = 1 => ToMark(e) = 1
      BY <1>2, <1>3, <2>0, <2>2 DEF ToMark
    <3>3. ToMark(e)' \in {0, 1}
      BY CountableNext
    <3>4. ToMark(e)' <= ToMark(e)
      BY <3>2, <3>3, <2>0
    <3>5. QED BY <3>1, <3>3, <3>4, <2>0, <2>1
  <2>5. QED BY <2>3, <2>4
<1>5. \A e \in Deliveries : row'[e] = "none" => row[e] = "none"
  BY <1>3 DEF IInv, TypeOK
<1>6. QED BY <1>3, <1>4, <1>5, StaysPaid DEF IInv

\* The other steps of a consumer, the end of the backend, the loss of Redis's data
\* and the deletion of a repository make no attempt and give none.
LEMMA OthersPaid ==
  ASSUME IInv, TypeOK', Paid, UNCHANGED runs, UNCHANGED boots, publishing' \subseteq publishing,
         stream' = stream \/ stream' = [r \in Repos |-> <<>>],
         backend' # "down" => backend # "down",
         \A d \in Deliveries : row'[d] = "none" => row[d] = "none",
         \A d \in Deliveries : ToMark(d)' = 1 => ToMark(d) = 1
  PROVE  Paid'
<1>1. ASSUME NEW e \in Deliveries
      PROVE  runs'[e] + ToPublish(e)' + ToRead(e)' + ToMark(e)'
                <= runs[e] + ToPublish(e) + ToRead(e) + ToMark(e)
  <2>1. /\ RepoOf[e] \in Repos
        /\ runs[e] \in Nat /\ ToPublish(e) \in {0, 1} /\ ToMark(e) \in {0, 1} /\ ToRead(e) \in Nat
    BY Countable DEF IInv
  <2>2. ToMark(e)' \in {0, 1} /\ ToRead(e)' \in Nat /\ ToPublish(e)' \in {0, 1}
    BY CountableNext
  <2>3. ToRead(e)' <= ToRead(e)
    <3>1. CASE stream' = stream
      <4>1. ToRead(e)' = ToRead(e)
        BY <3>1 DEF ToRead, Copies
      <4>2. QED BY <4>1, <2>1
    <3>2. CASE stream' = [r \in Repos |-> <<>>]
      <4>1. stream'[RepoOf[e]] = <<>>
        BY <3>2, <2>1
      <4>2. Copies(stream'[RepoOf[e]], e) = {}
        BY <4>1 DEF Copies
      <4>3. ToRead(e)' = Cardinality(Copies(stream'[RepoOf[e]], e))
        BY DEF ToRead, Copies
      <4>4. ToRead(e)' = 0
        BY <4>2, <4>3, FS_EmptySet
      <4>5. QED BY <4>4, <2>1
    <3>3. QED BY <3>1, <3>2
  <2>4. ToPublish(e)' <= ToPublish(e)
    BY DEF ToPublish
  <2>5. ToMark(e)' <= ToMark(e)
    BY <2>1, <2>2
  <2>6. runs'[e] = runs[e]
    OBVIOUS
  <2>7. QED BY ONLY <2>1, <2>2, <2>3, <2>4, <2>5, <2>6
<1>2. QED BY <1>1, StaysPaid DEF IInv

\* A boot pays for one attempt at each orphan.
LEMMA BootPaid ==
  ASSUME IInv, TypeOK', Paid, Boot \/ BootWithoutRedis
  PROVE  Paid'
<1>1. /\ boots' = boots + 1 /\ backend' # "down"
      /\ UNCHANGED <<publishing, consumer, inhand, runs>>
  BY DEF Boot, BootWithoutRedis, durable, history, redis
<1>2. ASSUME NEW e \in Deliveries
      PROVE  /\ ToRead(e)' <= ToRead(e) + 1
             /\ row'[e] = "none" => row[e] = "none" /\ ToRead(e)' = ToRead(e)
  <2>0. RepoOf[e] \in Repos /\ stream[RepoOf[e]] \in Seq(Deliveries) /\ ToRead(e) \in Nat
    BY Countable DEF IInv
  <2>1. CASE BootWithoutRedis
    <3>1. UNCHANGED <<row, stream>>
      BY <2>1 DEF BootWithoutRedis, durable, redis
    <3>2. ToRead(e)' = ToRead(e)
      BY <3>1 DEF ToRead, Copies
    <3>3. QED BY <3>1, <3>2, <2>0
  <2>2. CASE Boot
    <3>1. PICK failed \in SUBSET Deliveries, reached \in SUBSET Deliveries, sent \in SUBSET Deliveries :
             BootWrites(failed, reached, sent)
      BY <2>2, BootPicks
    <3>2. PICK r \in Repos : r = RepoOf[e]
      BY <2>0
    <3>3. PICK q \in Seq(Deliveries), a \in Seq(Deliveries) : q = stream[r] /\ a = Republished(sent, r)
      BY <2>0, <3>2, RepublishedListsOrphans
    <3>4. stream'[r] = q \o a
      BY <3>1, <3>3 DEF BootWrites
    <3>5. Cardinality(Copies(q \o a, e)) = Cardinality(Copies(q, e)) + Cardinality(Copies(a, e))
      BY CopiesAdd
    <3>6. /\ Cardinality(Copies(a, e)) \in {0, 1}
          /\ row[e] \notin Orphan => Cardinality(Copies(a, e)) = 0
      BY <3>3, RepublishedOnce
    <3>7. ToRead(e)' = Cardinality(Copies(q \o a, e)) /\ ToRead(e) = Cardinality(Copies(q, e))
      BY <3>2, <3>3, <3>4 DEF ToRead, Copies
    <3>8. row'[e] = "none" => row[e] = "none"
      BY <3>1 DEF BootWrites
    <3>9. row[e] = "none" => row[e] \notin Orphan
      BY DEF Orphan
    <3>10. QED BY <2>0, <3>5, <3>6, <3>7, <3>8, <3>9
  <2>3. QED BY <2>1, <2>2
<1>3. ASSUME NEW e \in Deliveries
      PROVE  /\ runs'[e] + ToPublish(e)' + ToRead(e)' + ToMark(e)' <= boots'
             /\ row'[e] = "none" => runs'[e] + ToPublish(e)' + ToRead(e)' + ToMark(e)' = 0
  <2>1. /\ runs[e] \in Nat /\ boots \in Nat
        /\ ToPublish(e) \in {0, 1} /\ ToMark(e) \in {0, 1} /\ ToRead(e) \in Nat
    BY Countable DEF IInv
  <2>2. ToRead(e)' \in Nat
    BY CountableNext
  <2>3. ToPublish(e)' = ToPublish(e) /\ ToMark(e)' = ToMark(e) /\ runs'[e] = runs[e]
    BY <1>1 DEF ToPublish, ToMark
  <2>4. /\ runs[e] + ToPublish(e) + ToRead(e) + ToMark(e) <= boots
        /\ row[e] = "none" => runs[e] + ToPublish(e) + ToRead(e) + ToMark(e) = 0
    BY DEF Paid
  <2>5. QED BY <2>1, <2>2, <2>3, <2>4, <1>1, <1>2
<1>4. backend' # "down" => boots' >= 1
  BY <1>1, DeliveryAssumption DEF IInv, TypeOK
<1>5. QED BY <1>3, <1>4 DEF Paid

\* Every step keeps the attempts paid for.
LEMMA StepPaid == IInv /\ IInv' /\ Paid /\ [Next]_vars => Paid'
<1> SUFFICES ASSUME IInv, IInv', Paid, [Next]_vars PROVE Paid'
  OBVIOUS
<1>0. TypeOK'
  BY DEF IInv
<1>1. CASE \E d \in Deliveries : Receive(d)
  BY <1>0, <1>1, ReceivePaid
<1>2. CASE \E d \in Deliveries : Request(d)
  BY <1>0, <1>2, RequestPaid DEF Request
<1>3. ASSUME NEW r \in Repos, Spawns(r) \/ EnsuresGroup(r) \/ Handles(r) \/ Records(r) \/ Fails(r)
      PROVE  Paid'
  <2>1. /\ consumer[r] # "marking"
        /\ \E step \in {"none", "starting", "polling", "recording", "failing"} :
              consumer' = [consumer EXCEPT ![r] = step]
        /\ inhand' = inhand \/ inhand' = [inhand EXCEPT ![r] = NoDelivery]
        /\ UNCHANGED <<stream, backend, boots, publishing, runs>>
    BY <1>3 DEF Spawns, EnsuresGroup, Handles, Records, Fails, Finishes, Becomes, durable, redis, history
  <2>2. ASSUME NEW d \in Deliveries, ToMark(d)' = 1 PROVE ToMark(d) = 1
    <3>1. consumer'[RepoOf[d]] = "marking" /\ inhand'[RepoOf[d]] = d /\ RepoOf[d] \in Repos
      BY <2>2, DeliveryAssumption DEF ToMark
    <3>2. DOMAIN consumer = Repos /\ inhand \in [Repos -> Deliveries \cup {NoDelivery}]
      BY DEF IInv, TypeOK
    <3>3. RepoOf[d] # r
      BY <2>1, <3>1, <3>2
    <3>4. consumer[RepoOf[d]] = "marking" /\ inhand[RepoOf[d]] = d
      BY <2>1, <3>1, <3>2, <3>3
    <3>5. QED BY <3>4 DEF ToMark
  <2>3. \A d \in Deliveries : row'[d] = "none" => row[d] = "none"
    <3>1. row' = row \/ \E x \in Deliveries \cup {NoDelivery} : \E status \in {"done", "failed"} : row' = [row EXCEPT ![x] = status]
      BY <1>3 DEF Spawns, EnsuresGroup, Handles, Records, Fails, Finishes, durable, IInv, TypeOK
    <3>2. QED BY <3>1 DEF IInv, TypeOK
  <2>4. QED BY <1>0, <2>1, <2>2, <2>3, OthersPaid
<1>4. ASSUME NEW r \in Repos, Reads(r) PROVE Paid'
  BY <1>0, <1>4, ReadsPaid
<1>5. ASSUME NEW r \in Repos, Marks(r) PROVE Paid'
  BY <1>0, <1>5, MarksPaid
<1>6. CASE Exits
  <2>1. /\ backend' = "down" /\ publishing' = {} /\ consumer' = [r \in Repos |-> "none"]
        /\ UNCHANGED <<row, stream, boots, runs>>
    BY <1>6 DEF Exits, durable, redis, history
  <2>2. \A d \in Deliveries : ToMark(d)' = 0
    <3>1. ASSUME NEW d \in Deliveries PROVE ToMark(d)' = 0
      <4>1. RepoOf[d] \in Repos
        BY DeliveryAssumption
      <4>2. consumer'[RepoOf[d]] = "none"
        BY <4>1, <2>1
      <4>3. QED BY <4>2 DEF ToMark
    <3>2. QED BY <3>1
  <2>3. QED BY <1>0, <2>1, <2>2, OthersPaid
<1>7. CASE RedisLosesData \/ (\E r \in Repos : RepoDeleted(r)) \/ UNCHANGED vars
  <2>1. /\ stream' = stream \/ stream' = [r \in Repos |-> <<>>]
        /\ UNCHANGED <<row, backend, boots, publishing, consumer, inhand, runs>>
    BY <1>7 DEF RedisLosesData, RepoDeleted, vars, durable, redis, process, history
  <2>2. \A d \in Deliveries : ToMark(d)' = ToMark(d)
    BY <2>1 DEF ToMark
  <2>3. QED BY <1>0, <2>1, <2>2, OthersPaid
<1>8. CASE Boot \/ BootWithoutRedis
  BY <1>0, <1>8, BootPaid
<1>9. QED BY <1>1, <1>2, <1>3, <1>4, <1>5, <1>6, <1>7, <1>8 DEF Next, Consumer

\* The handler of pr_merge_worker.py is started on a delivery at most once for
\* each start of the backend, however often a restart finds it RUNNING or PENDING
\* and whatever was left unread on its stream.
THEOREM RunsAreBounded == Safety => []RunsWithinBoots
<1>1. IInv /\ Paid => RunsWithinBoots
  <2> SUFFICES ASSUME IInv, Paid, NEW d \in Deliveries PROVE runs[d] <= boots
    BY DEF RunsWithinBoots
  <2>1. /\ runs[d] \in Nat /\ boots \in Nat
        /\ ToPublish(d) \in {0, 1} /\ ToMark(d) \in {0, 1} /\ ToRead(d) \in Nat
    BY Countable DEF IInv
  <2>2. runs[d] + ToPublish(d) + ToRead(d) + ToMark(d) <= boots
    BY DEF Paid
  <2>3. QED BY <2>1, <2>2
<1>2. QED BY <1>1, InitPaid, StepPaid, DeliveryIInvAlways, PTL DEF Safety

\* DONE is only written, and head_sha only set, for a delivery of that repository
\* whose handler has returned.
THEOREM DoneIsTrue == Safety => []DoneWasHandled
BY DeliveryIInvAlways, PTL DEF IInv
===============================================================================
