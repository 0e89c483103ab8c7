---------------------------- MODULE RaceRoomProofs ----------------------------
(* Proofs about one race room, for any members, bots and limits: what holds of   *)
(* its lanes, its banner and its results whatever its handlers, timers and hooks *)
(* do in whatever order.                                                        *)
EXTENDS RaceRoom, FiniteSetTheorems, TLAPS

\* What the proofs need of the clock and the post: a delayed call belongs to its
\* phase, results are placed once and late, and a post is of placed results.
ClockFollowsPhase ==
    /\ "countdown" \in timers => phase = "countdown"
    /\ "tick" \in timers => phase = "running" /\ ~placed
    /\ placed => phase \in {"running", "finished"}
    /\ post # "none" => placed

Shape ==
    /\ racers \in [Racing -> [lane : 0 .. MaxRacers - 1, connected : BOOLEAN]]
    /\ physics \in [People \cup Bots -> {0, 1}]

IInv ==
    /\ RaceTypeOK /\ Shape /\ ClockFollowsPhase
    /\ EachRacesOnce /\ BannerFollowsRace /\ ResultsBeforeFinish

\* The lobby that a room is created with: no racer, no physics entry, no banner.
LEMMA InitIInv == Init => IInv
<1> SUFFICES ASSUME Init PROVE IInv
  OBVIOUS
<1> USE RaceAssumption DEF Init, Racing, People
<1>1. PICK lane \in Bijection(Bots, 0 .. Cardinality(Bots) - 1) :
        racers = [b \in Bots |-> [lane |-> lane[b], connected |-> TRUE]]
  OBVIOUS
<1>2. Cardinality(Bots) \in Nat
  BY FS_CardinalityType
<1>3. \A b \in Bots : lane[b] \in 0 .. MaxRacers - 1
  BY <1>1, <1>2 DEF Bijection, Injection
<1>4. Racing = Bots
  BY <1>1
<1>5. RaceTypeOK
  <2>1. \A u \in Racing : racers[u].lane \in 0 .. MaxRacers - 1 /\ racers[u].connected \in BOOLEAN
    BY <1>1, <1>3, <1>4
  <2>2. invited \subseteq Guests /\ tabs \in [People -> 0 .. MaxTabs]
    BY SMT
  <2>3. {placed, saved} \subseteq BOOLEAN /\ autoDispose \in BOOLEAN
    OBVIOUS
  <2>4. QED
    BY <1>4, <2>1, <2>2, <2>3 DEF RaceTypeOK, Phases
<1>6. Shape
  BY <1>1, <1>3, <1>4 DEF Shape
<1>7. EachRacesOnce
  BY <1>2, <1>4 DEF EachRacesOnce
<1>8. QED
  BY <1>5, <1>6, <1>7 DEF IInv, ClockFollowsPhase, BannerFollowsRace, ResultsBeforeFinish

\* Nothing but the lobby touches the lanes, and what it does leaves the results alone.
LEMMA RacingIsFinite ==
  ASSUME RaceTypeOK
  PROVE  IsFiniteSet(Racing) /\ Cardinality(Racing) \in Nat
<1>1. IsFiniteSet(People \cup Bots)
  BY RaceAssumption, FS_Union
<1>2. Racing \subseteq People \cup Bots
  BY DEF RaceTypeOK
<1>3. QED BY <1>1, <1>2, FS_Subset, FS_CardinalityType

\* Members come and go: only the connected flags change.
LEMMA ComingAndGoing ==
  ASSUME IInv, NEW u \in People, Joins(u) \/ Leaves(u) \/ (Rebinds(u) /\ RaceJoin(u))
  PROVE  IInv'
<1> USE DEF IInv
<1>1. Racing' = Racing
  BY DEF Joins, Leaves, Rebinds, RaceJoin, TakesLane, Racing, Disconnected, lobbyVars
<1>2. racers' \in [Racing -> [lane : 0 .. MaxRacers - 1, connected : BOOLEAN]]
  <2>1. racers \in [Racing -> [lane : 0 .. MaxRacers - 1, connected : BOOLEAN]]
    BY DEF Shape
  <2>2. CASE Joins(u)
    BY <2>1, <2>2 DEF Joins, lobbyVars
  <2>3. CASE Leaves(u)
    BY <2>1, <2>3 DEF Leaves, Disconnected, lobbyVars
  <2>4. CASE Rebinds(u) /\ RaceJoin(u)
    BY <2>1, <2>4 DEF Rebinds, RaceJoin, TakesLane
  <2>5. QED BY <2>2, <2>3, <2>4
<1>3. /\ tabs' \in [People -> 0 .. MaxTabs]
      /\ UNCHANGED <<phase, invited, physics, home, placed, post, saved, autoDispose,
                     door, timers, banner>>
  BY RaceAssumption
  DEF Joins, Leaves, RaceJoin, Rebinds, lobbyVars, resultVars, roomVars, RaceTypeOK, TakesLane
<1>4. RaceTypeOK' /\ Shape'
  BY <1>1, <1>2, <1>3 DEF RaceTypeOK, Shape
<1>5. QED
  BY <1>1, <1>3, <1>4 DEF ClockFollowsPhase, EachRacesOnce, BannerFollowsRace,
     ResultsBeforeFinish, Payload

\* A member that takes a lane was not simulated before, and there was a lane left.
LEMMA TakingALane ==
  ASSUME IInv, NEW u \in People, RaceJoin(u), TakesLane(u)
  PROVE  IInv'
<1> USE DEF IInv
<1>1. /\ racers' = [v \in Racing \cup {u} |->
                      IF v = u THEN [lane |-> Cardinality(Racing), connected |-> TRUE]
                      ELSE racers[v]]
      /\ physics' = [physics EXCEPT ![u] = @ + 1]
      /\ u \notin Racing /\ phase = "lobby" /\ (u = Host \/ u \in invited)
      /\ Cardinality(Racing) < MaxRacers
  BY DEF TakesLane, MayRace
<1>2. UNCHANGED <<phase, invited, home, placed, post, saved, tabs, autoDispose, door,
                  timers, banner>>
  BY DEF RaceJoin, resultVars, roomVars
<1>3. Racing' = Racing \cup {u}
  BY <1>1 DEF Racing
<1>4. IsFiniteSet(Racing) /\ Cardinality(Racing) \in Nat
  BY RacingIsFinite
<1>5. Cardinality(Racing') = Cardinality(Racing) + 1
  BY <1>1, <1>3, <1>4, FS_AddElement
<1>6. Shape'
  BY <1>1, <1>3, <1>4, RaceAssumption DEF Shape, EachRacesOnce
<1>7. RaceTypeOK'
  <2>1. \A v \in Racing' : racers'[v].lane \in 0 .. MaxRacers - 1 /\ racers'[v].connected \in BOOLEAN
    BY <1>6 DEF Shape
  <2>2. QED
    BY <1>2, <1>3, <2>1 DEF RaceTypeOK
<1>8. EachRacesOnce'
  <2>1. \A v \in People \cup Bots : physics'[v] = IF v \in Racing' THEN 1 ELSE 0
    BY <1>1, <1>3 DEF EachRacesOnce, Shape
  <2>2. Racing' \ Bots \subseteq invited' \cup {Host}
    BY <1>1, <1>2, <1>3 DEF EachRacesOnce
  <2>3. Cardinality(Racing') <= MaxRacers
    BY <1>1, <1>4, <1>5, RaceAssumption
  <2>4. QED
    BY <1>1, <1>2, <2>1, <2>2, <2>3 DEF EachRacesOnce
<1>9. QED
  BY <1>1, <1>2, <1>6, <1>7, <1>8
  DEF ClockFollowsPhase, BannerFollowsRace, ResultsBeforeFinish, Payload

\* A decline in the lobby takes the lane with the simulation entry.
LEMMA Declining ==
  ASSUME IInv, NEW u \in Guests, Declines(u)
  PROVE  IInv'
<1> USE DEF IInv
<1>1. /\ phase = "lobby"
      /\ invited' = invited \ {u}
      /\ racers' = [v \in Racing \ {u} |-> racers[v]]
      /\ physics' = IF u \in Racing THEN [physics EXCEPT ![u] = 0] ELSE physics
  BY DEF Declines, RemoveInvitee, Restrict
<1>2. UNCHANGED <<phase, home, placed, post, saved, tabs, autoDispose, door, timers, banner>>
  BY DEF Declines, resultVars, roomVars
<1>3. Racing' = Racing \ {u}
  BY <1>1 DEF Racing
<1>4. IsFiniteSet(Racing) /\ Cardinality(Racing) \in Nat
  BY RacingIsFinite
<1>5. Cardinality(Racing') <= Cardinality(Racing) /\ Cardinality(Racing') \in Nat
  BY <1>3, <1>4, FS_Subset, FS_CardinalityType
<1>6. Shape'
  BY <1>1, <1>3 DEF Shape
<1>7. RaceTypeOK'
  <2>1. \A v \in Racing' : racers'[v].lane \in 0 .. MaxRacers - 1 /\ racers'[v].connected \in BOOLEAN
    BY <1>6 DEF Shape
  <2>2. home' \subseteq Racing' /\ (home' # {} => phase' \in {"running", "finished"})
    BY <1>1, <1>2, <1>3 DEF RaceTypeOK
  <2>3. QED
    BY <1>1, <1>2, <1>3, <2>1, <2>2 DEF RaceTypeOK
<1>8. EachRacesOnce'
  <2>1. \A v \in People \cup Bots : physics'[v] = IF v \in Racing' THEN 1 ELSE 0
    BY <1>1, <1>3 DEF EachRacesOnce, Shape, People
  <2>2. Racing' \ Bots \subseteq invited' \cup {Host}
    BY <1>1, <1>3 DEF EachRacesOnce
  <2>3. Cardinality(Racing') <= MaxRacers
    BY <1>4, <1>5, RaceAssumption DEF EachRacesOnce
  <2>4. QED
    BY <1>1, <1>2, <2>1, <2>2, <2>3 DEF EachRacesOnce
<1>9. QED
  BY <1>1, <1>2, <1>6, <1>7, <1>8
  DEF ClockFollowsPhase, BannerFollowsRace, ResultsBeforeFinish, Payload

\* What happens to a race that keeps its racers: the lobby's other handlers, the
\* delayed calls and the post.
LEMMA LanesStay ==
  ASSUME IInv, UNCHANGED <<racers, physics>>, invited \subseteq invited', invited' \subseteq Guests,
         phase # "lobby" \/ phase' = "lobby" \/ Cardinality(Racing) >= MinRacers,
         RaceTypeOK'
  PROVE  Racing' = Racing /\ EachRacesOnce' /\ Shape'
BY DEF IInv, Racing, EachRacesOnce, Shape

\* The host's handlers of the lobby, and the delayed calls that end it.
LEMMA TheLobby ==
  ASSUME IInv,
         \/ \E ids \in SUBSET Guests : AddsInvitees(ids)
         \/ Starts \/ Cancels \/ GraceEnds \/ LobbyExpires
  PROVE  IInv'
<1> USE DEF IInv
<1>1. CASE \E ids \in SUBSET Guests : AddsInvitees(ids)
  <2>1. /\ phase = "lobby" /\ invited \subseteq invited' /\ invited' \subseteq Guests
        /\ UNCHANGED <<phase, racers, physics, resultVars, roomVars, banner>>
    BY <1>1 DEF AddsInvitees, Additions, RaceTypeOK
  <2>2. RaceTypeOK'
    BY <2>1 DEF RaceTypeOK, Racing, resultVars, roomVars
  <2>3. Racing' = Racing /\ EachRacesOnce' /\ Shape'
    BY <2>1, <2>2, LanesStay
  <2>4. QED
    BY <2>1, <2>2, <2>3 DEF ClockFollowsPhase, BannerFollowsRace, ResultsBeforeFinish,
       Payload, resultVars, roomVars
<1>2. CASE Starts
  <2>1. /\ phase = "lobby" /\ door = "open" /\ Cardinality(Racing) >= MinRacers
        /\ phase' = "countdown" /\ banner' = "countdown"
        /\ autoDispose' = TRUE /\ timers' = timers \cup {"countdown"}
        /\ UNCHANGED <<lobbyVars, resultVars, tabs, door>>
    BY <1>2 DEF Starts, Asks, SetPhase, Shows, BannerFollowsRace
  <2>2. RaceTypeOK'
    BY <2>1 DEF RaceTypeOK, Racing, resultVars, lobbyVars, Phases
  <2>3. Racing' = Racing /\ EachRacesOnce' /\ Shape'
    BY <2>1, <2>2, LanesStay DEF lobbyVars, RaceTypeOK
  <2>4. "tick" \notin timers' /\ ~placed' /\ post' = "none"
    BY <2>1 DEF ClockFollowsPhase, resultVars, RaceTypeOK
  <2>5. QED
    BY <2>1, <2>2, <2>3, <2>4 DEF ClockFollowsPhase, BannerFollowsRace, ResultsBeforeFinish
<1>3. CASE Cancels \/ GraceEnds \/ LobbyExpires
  <2>1. /\ timers' \subseteq timers \cup {"grace"} /\ autoDispose' \in BOOLEAN
        /\ door' = door \/ (door = "open" /\ door' = "closing")
        /\ UNCHANGED <<phase, lobbyVars, resultVars, tabs, banner>>
    BY <1>3 DEF Cancels, GraceEnds, LobbyExpires, Disconnect, RaceTypeOK
  <2>2. RaceTypeOK'
    BY <2>1 DEF RaceTypeOK, Racing, resultVars, lobbyVars
  <2>3. Racing' = Racing /\ EachRacesOnce' /\ Shape'
    BY <2>1, <2>2, LanesStay DEF lobbyVars, RaceTypeOK
  <2>4. QED
    BY <2>1, <2>2, <2>3 DEF ClockFollowsPhase, BannerFollowsRace, ResultsBeforeFinish,
       Payload, resultVars, lobbyVars
<1>4. QED
  BY <1>1, <1>2, <1>3

\* The countdown is of a race that has its racers, so the race starts with them.
LEMMA TheCountdown ==
  ASSUME IInv, BeginRunning
  PROVE  IInv'
<1> USE DEF IInv
<1>1. /\ phase = "countdown" /\ ~placed /\ post = "none"
      /\ phase' = "running" /\ timers' = (timers \ {"countdown"}) \cup {"tick"}
      /\ banner' = IF door = "gone" THEN "none" ELSE "running"
      /\ UNCHANGED <<lobbyVars, resultVars, tabs, autoDispose, door>>
  BY DEF BeginRunning, ClockFollowsPhase, RaceTypeOK, SetPhase, Shows, BannerFollowsRace
<1>2. RaceTypeOK'
  BY <1>1 DEF RaceTypeOK, Racing, resultVars, lobbyVars, Phases
<1>3. Racing' = Racing /\ EachRacesOnce' /\ Shape'
  BY <1>1, <1>2, LanesStay DEF lobbyVars, RaceTypeOK
<1>4. QED
  BY <1>1, <1>2, <1>3
  DEF ClockFollowsPhase, BannerFollowsRace, ResultsBeforeFinish, resultVars

\* A tick of the race: what it places is posted first, and shown when answered.
LEMMA TheRace ==
  ASSUME IInv,
         \/ \E crossing \in SUBSET Racing, timedOut \in BOOLEAN : SimStep(crossing, timedOut)
         \/ AbandonBrokenRace
  PROVE  IInv'
<1> USE DEF IInv
<1>1. CASE \E crossing \in SUBSET Racing, timedOut \in BOOLEAN : SimStep(crossing, timedOut)
  <2>1. PICK crossing \in SUBSET Racing, timedOut \in BOOLEAN : SimStep(crossing, timedOut)
    BY <1>1
  <2>2. /\ phase = "running" /\ ~placed /\ post = "none" /\ "tick" \in timers
        /\ home' = home \cup crossing
        /\ UNCHANGED <<lobbyVars, saved, tabs, autoDispose, door>>
    BY <2>1 DEF SimStep, ClockFollowsPhase, RaceTypeOK
  <2>3. CASE Over(home', timedOut)
    <3>1. /\ placed' = TRUE /\ timers' = timers \ {"tick"}
          /\ \/ Payload(home') /\ post' = "sending" /\ UNCHANGED <<phase, banner>>
             \/ /\ ~Payload(home') /\ post' = post /\ phase' = "finished"
                /\ banner' = Shows("finished")
      BY <2>1, <2>3 DEF SimStep, FinishRound, SetPhase
    <3>2. "countdown" \notin timers'
      BY <2>2, <3>1 DEF ClockFollowsPhase
    <3>3. RaceTypeOK'
      BY <2>2, <3>1 DEF RaceTypeOK, Racing, lobbyVars, Phases, Shows
    <3>4. Racing' = Racing /\ EachRacesOnce' /\ Shape'
      BY <2>2, <3>3, LanesStay DEF lobbyVars, RaceTypeOK
    <3>5. BannerFollowsRace' /\ ResultsBeforeFinish'
      BY <2>2, <3>1 DEF BannerFollowsRace, ResultsBeforeFinish, Shows, Payload
    <3>6. QED
      BY <2>2, <3>1, <3>2, <3>3, <3>4, <3>5 DEF ClockFollowsPhase
  <2>4. CASE ~Over(home', timedOut)
    <3>1. UNCHANGED <<phase, placed, post, timers, banner>>
      BY <2>1, <2>4 DEF SimStep
    <3>2. RaceTypeOK'
      BY <2>2, <3>1 DEF RaceTypeOK, Racing, lobbyVars
    <3>3. Racing' = Racing /\ EachRacesOnce' /\ Shape'
      BY <2>2, <3>1, <3>2, LanesStay DEF lobbyVars, RaceTypeOK
    <3>4. QED
      BY <2>2, <3>1, <3>2, <3>3
      DEF ClockFollowsPhase, BannerFollowsRace, ResultsBeforeFinish
  <2>5. QED
    BY <2>3, <2>4
<1>2. CASE AbandonBrokenRace
  <2>1. /\ phase = "running" /\ ~placed /\ post = "none"
        /\ phase' = "finished" /\ banner' = "none" /\ timers' = timers \ {"tick"}
        /\ UNCHANGED <<lobbyVars, resultVars, tabs, autoDispose, door>>
    BY <1>2 DEF AbandonBrokenRace, ClockFollowsPhase, RaceTypeOK, SetPhase, Shows,
       BannerFollowsRace
  <2>2. RaceTypeOK'
    BY <2>1 DEF RaceTypeOK, Racing, resultVars, lobbyVars, Phases
  <2>3. Racing' = Racing /\ EachRacesOnce' /\ Shape'
    BY <2>1, <2>2, LanesStay DEF lobbyVars, RaceTypeOK
  <2>4. QED
    BY <2>1, <2>2, <2>3
    DEF ClockFollowsPhase, BannerFollowsRace, ResultsBeforeFinish, resultVars
<1>3. QED
  BY <1>1, <1>2

\* The answer to the post ends the race, unless the room is gone; and a room that is
\* disposed of, or gone with the process, shows no banner, whichever comes first.
LEMMA TheEnd ==
  ASSUME IInv, \E ok \in BOOLEAN : PostAnswers(ok) \/ Dispose(ok) \/ ProcessExits(ok)
  PROVE  IInv'
<1> USE DEF IInv
<1>1. CASE \E ok \in BOOLEAN : PostAnswers(ok)
  <2>1. /\ post = "sending" /\ placed /\ phase \in {"running", "finished"}
        /\ post' = "answered" /\ saved' \in BOOLEAN
        /\ phase' = "finished" /\ banner' = "none"
        /\ UNCHANGED <<lobbyVars, home, placed, roomVars>>
    BY <1>1 DEF PostAnswers, ClockFollowsPhase, SetPhase, Shows, BannerFollowsRace, RaceTypeOK
  <2>2. "tick" \notin timers /\ "countdown" \notin timers
    BY <2>1 DEF ClockFollowsPhase
  <2>3. RaceTypeOK'
    BY <2>1, <2>2 DEF RaceTypeOK, Racing, roomVars, lobbyVars, Phases
  <2>4. Racing' = Racing /\ EachRacesOnce' /\ Shape'
    BY <2>1, <2>3, LanesStay DEF lobbyVars, RaceTypeOK
  <2>5. QED
    BY <2>1, <2>2, <2>3, <2>4
    DEF ClockFollowsPhase, BannerFollowsRace, ResultsBeforeFinish, roomVars
<1>2. CASE \E ok \in BOOLEAN : Dispose(ok) \/ ProcessExits(ok)
  <2>1. /\ door' = "gone" /\ timers' = {} /\ banner' = "none" /\ saved' \in BOOLEAN
        /\ post' = post \/ (post = "sending" /\ post' = "none")
        /\ UNCHANGED <<phase, lobbyVars, home, placed, tabs, autoDispose>>
    <3>1. CASE \E ok \in BOOLEAN : Dispose(ok)
      BY <3>1 DEF Dispose, RaceTypeOK
    <3>2. CASE \E ok \in BOOLEAN : ProcessExits(ok)
      BY <3>2 DEF ProcessExits, RaceTypeOK
    <3>3. QED
      BY <1>2, <3>1, <3>2
  <2>2. RaceTypeOK'
    BY <2>1 DEF RaceTypeOK, Racing, lobbyVars
  <2>3. Racing' = Racing /\ EachRacesOnce' /\ Shape'
    BY <2>1, <2>2, LanesStay DEF lobbyVars, RaceTypeOK
  <2>4. QED
    BY <2>1, <2>2, <2>3
    DEF ClockFollowsPhase, BannerFollowsRace, ResultsBeforeFinish, Payload
<1>3. QED
  BY <1>1, <1>2

\* Every step of the room keeps the inductive invariant.
LEMMA StepIInv == IInv /\ [Next]_vars => IInv'
<1> SUFFICES ASSUME IInv, [Next]_vars PROVE IInv'
  OBVIOUS
<1>1. CASE \E u \in People : Joins(u) \/ Leaves(u) \/ RaceJoin(u)
  BY <1>1, ComingAndGoing, TakingALane DEF RaceJoin
<1>2. CASE \/ \E ids \in SUBSET Guests : AddsInvitees(ids)
           \/ Starts \/ Cancels \/ GraceEnds \/ LobbyExpires
  BY <1>2, TheLobby
<1>3. CASE \E u \in Guests : Declines(u)
  BY <1>3, Declining
<1>4. CASE BeginRunning
  BY <1>4, TheCountdown
<1>5. CASE \/ \E crossing \in SUBSET Racing, timedOut \in BOOLEAN : SimStep(crossing, timedOut)
           \/ AbandonBrokenRace
  BY <1>5, TheRace
<1>6. CASE \E ok \in BOOLEAN : PostAnswers(ok) \/ Dispose(ok) \/ ProcessExits(ok)
  BY <1>6, TheEnd
<1>7. CASE UNCHANGED vars
  <2>1. UNCHANGED <<phase, invited, racers, physics, home, placed, post, saved, tabs,
                    autoDispose, door, timers, banner>>
    BY <1>7 DEF vars, lobbyVars, resultVars, roomVars
  <2>2. RaceTypeOK' /\ Shape' /\ ClockFollowsPhase'
    BY <2>1 DEF IInv, RaceTypeOK, Racing, Shape, ClockFollowsPhase
  <2>3. EachRacesOnce' /\ BannerFollowsRace' /\ ResultsBeforeFinish'
    BY <2>1 DEF IInv, Racing, EachRacesOnce, BannerFollowsRace, ResultsBeforeFinish, Payload
  <2>4. QED
    BY <2>2, <2>3 DEF IInv
<1>8. QED
  BY <1>1, <1>2, <1>3, <1>4, <1>5, <1>6, <1>7 DEF Next

-----------------------------------------------------------------------------
\* Every value of the room has its type, whatever its members and timers do.
THEOREM RaceTypeCorrect == Spec => []RaceTypeOK
BY InitIInv, StepIInv, PTL DEF Spec, IInv

\* Who has a lane is simulated once and who has none is not, there are lanes for all,
\* each is the host's or of somebody still invited, and a started race keeps enough
\* racers: for any number of members, bots, tabs and lanes.
THEOREM LanesMatchSimulation == Spec => []EachRacesOnce
BY InitIInv, StepIInv, PTL DEF Spec, IInv

\* The banner of the garden shows the phase of a race that goes on and nothing else,
\* also when the room is gone before its post is answered.
THEOREM BannerIsTrue == Spec => []BannerFollowsRace
BY InitIInv, StepIInv, PTL DEF Spec, IInv

\* Results that have something to post are shown only after the backend's answer.
THEOREM ResultsAreAnsweredFirst == Spec => []ResultsBeforeFinish
BY InitIInv, StepIInv, PTL DEF Spec, IInv
===============================================================================
