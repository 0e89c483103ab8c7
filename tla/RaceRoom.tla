------------------------------- MODULE RaceRoom -------------------------------
(***************************************************************************)
(* One race room of the multiplayer server (rooms/RaceRoom.ts), from the      *)
(* lobby that OrgRaceHandler opens until Colyseus disposes of it, with the    *)
(* banner that the garden shows of it (bridge/RaceRegistry.ts) and the rows   *)
(* it posts to the backend.  Handlers, timers and hooks of a room run one at  *)
(* a time; a post is awaited, so others run while it is under way.  How fast  *)
(* a racer runs is left out: any racer may cross the line on any tick.        *)
(***************************************************************************)
EXTENDS Naturals, FiniteSets, Functions

CONSTANTS
    Host, Guests,  \* who opened the race, and the other members of the org
    Bots,          \* the racers of dev mode, seeded into the first lanes
    MinRacers, MaxRacers,
    MaxTabs        \* bound: sessions that one member has in the room

People == {Host} \cup Guests
Phases == {"lobby", "countdown", "running", "finished"}

ASSUME RaceAssumption ==
    /\ Host \notin Guests /\ Bots \cap People = {}
    /\ IsFiniteSet(People) /\ IsFiniteSet(Bots)
    /\ MinRacers \in Nat /\ MaxRacers \in Nat /\ MaxTabs \in Nat
    /\ Cardinality(Bots) < MaxRacers

VARIABLES
    phase,       \* state.phase
    invited,     \* state.invitedUserIds
    racers,      \* state.racers: the lane of each and whether it is connected
    physics,     \* how many entries of physicsRacers are of whom
    home,        \* the entries of physicsRacers that are finished
    placed,      \* state.placings has been filled
    tabs,        \* how many sessions each member has in the room
    autoDispose,
    door,        \* "open", "closing" after disconnect(), "gone" after onDispose, or
                 \* with the process
    timers,      \* the delayed calls of the room's clock that are still to come
    post,        \* the post that finishRound awaits: "none", "sending", "answered"
    saved,       \* the backend has the rows of this race
    banner       \* the phase that the ActiveRaceSummary shows, or "none"

lobbyVars == <<invited, racers, physics>>
resultVars == <<home, placed, post, saved>>
roomVars == <<tabs, autoDispose, door, timers>>
vars == <<phase, lobbyVars, resultVars, roomVars, banner>>

Racing == DOMAIN racers
Empty == \A u \in People : tabs[u] = 0

RaceTypeOK ==
    /\ phase \in Phases /\ banner \in Phases \cup {"none"} /\ invited \subseteq Guests
    /\ Racing \subseteq People \cup Bots
    /\ \A u \in Racing : racers[u].lane \in 0 .. MaxRacers - 1 /\ racers[u].connected \in BOOLEAN
    /\ home \subseteq Racing /\ (home # {} => phase \in {"running", "finished"})
    /\ tabs \in [People -> 0 .. MaxTabs]
    /\ door \in {"open", "closing", "gone"} /\ autoDispose \in BOOLEAN
    /\ timers \subseteq {"lobby", "countdown", "grace", "tick"}
    /\ ("tick" \in timers => phase = "running")
    /\ post \in {"none", "sending", "answered"} /\ {placed, saved} \subseteq BOOLEAN

\* seedState and seedBots, after handleRaceCreate counted host, invitees and bots;
\* the lobby stays open while nobody is in it.
Init ==
    /\ phase = "lobby" /\ banner = "lobby"
    /\ invited \in {S \in SUBSET Guests : 1 + Cardinality(S) + Cardinality(Bots) <= MaxRacers}
    /\ \E lane \in Bijection(Bots, 0 .. Cardinality(Bots) - 1) :
          racers = [b \in Bots |-> [lane |-> lane[b], connected |-> TRUE]]
    /\ physics = [u \in People \cup Bots |-> IF u \in Bots THEN 1 ELSE 0]
    /\ home = {} /\ placed = FALSE /\ post = "none" /\ saved = FALSE
    /\ tabs = [u \in People |-> 0] /\ autoDispose = FALSE /\ door = "open"
    /\ timers = {"lobby"}

\* onPhase of the hooks that the race was registered with, until onDispose took them.
Shows(p) == IF door = "gone" \/ banner = "none" THEN banner
            ELSE IF p = "finished" THEN "none" ELSE p

SetPhase(p) == phase' = p /\ banner' = Shows(p)

-----------------------------------------------------------------------------
(* Members come and go.                                                       *)

Joins(u) ==
    /\ door = "open" /\ tabs[u] < MaxTabs
    /\ tabs' = [tabs EXCEPT ![u] = @ + 1]
    /\ UNCHANGED <<phase, lobbyVars, resultVars, autoDispose, door, timers, banner>>

\* A racer keeps the lane, and is connected as long as one of its tabs is.
Disconnected(u) ==
    IF u \in Racing /\ tabs[u] = 1 THEN [racers EXCEPT ![u].connected = FALSE] ELSE racers

Leaves(u) ==
    /\ door # "gone" /\ tabs[u] > 0
    /\ tabs' = [tabs EXCEPT ![u] = @ - 1]
    /\ racers' = Disconnected(u)
    /\ UNCHANGED <<phase, invited, physics, resultVars, autoDispose, door, timers, banner>>

\* The library disposes of an empty room, unless autoDispose is off.
Disposable == door # "gone" /\ Empty /\ autoDispose

-----------------------------------------------------------------------------
(* The lobby.                                                                 *)

Asks(u) == door = "open" /\ tabs[u] > 0
MayRace(u) == u = Host \/ u \in invited

\* A member that races already is bound to its lane again, in any phase.
Rebinds(u) ==
    /\ Asks(u) /\ u \in Racing
    /\ racers' = [racers EXCEPT ![u].connected = TRUE]
    /\ UNCHANGED physics

TakesLane(u) ==
    /\ Asks(u) /\ u \notin Racing
    /\ phase = "lobby" /\ MayRace(u) /\ Cardinality(Racing) < MaxRacers
    /\ racers' = [v \in Racing \cup {u} |->
                    IF v = u THEN [lane |-> Cardinality(Racing), connected |-> TRUE]
                    ELSE racers[v]]
    /\ physics' = [physics EXCEPT ![u] = @ + 1]

RaceJoin(u) ==
    /\ Rebinds(u) \/ TakesLane(u)
    /\ UNCHANGED <<phase, invited, resultVars, roomVars, banner>>

\* What is left below MAX_RACERS beside the invited and those who have a lane; ids
\* that are known are passed over, and those beyond the slots are dropped.
SlotsLeft == IF Cardinality(invited \cup Racing) < MaxRacers
        THEN MaxRacers - Cardinality(invited \cup Racing) ELSE 0

Additions(ids) ==
    LET new == ids \ (invited \cup Racing)
        n == IF Cardinality(new) < SlotsLeft THEN Cardinality(new) ELSE SlotsLeft
    IN {S \in SUBSET new : Cardinality(S) = n}

AddsInvitees(ids) ==
    /\ phase = "lobby" /\ Asks(Host)
    /\ \E more \in Additions(ids) : invited' = invited \cup more
    /\ UNCHANGED <<phase, racers, physics, resultVars, roomVars, banner>>

\* Mutant: the decline is honoured after the lobby too.
RemoveInviteeLate(u) ==
    /\ u \in invited
    /\ invited' = invited \ {u}
    /\ racers' = Restrict(racers, Racing \ {u})
    /\ physics' = IF u \in Racing THEN [physics EXCEPT ![u] = 0] ELSE physics

\* A decline, passed on by the backend: the slot and a lane taken before it go.
RemoveInvitee(u) ==
    /\ phase = "lobby" /\ u \in invited
    /\ invited' = invited \ {u}
    /\ racers' = Restrict(racers, Racing \ {u})
    /\ physics' = IF u \in Racing THEN [physics EXCEPT ![u] = 0] ELSE physics

Declines(u) ==
    /\ door # "gone"
    /\ RemoveInvitee(u)
    /\ UNCHANGED <<phase, resultVars, roomVars, banner>>

Starts ==
    /\ phase = "lobby" /\ Asks(Host) /\ Cardinality(Racing) >= MinRacers
    /\ autoDispose' = TRUE
    /\ SetPhase("countdown")
    /\ timers' = timers \cup {"countdown"}
    /\ UNCHANGED <<lobbyVars, resultVars, tabs, door>>

\* The clients are told at once and disconnected a moment later, in whatever phase.
Cancels ==
    /\ phase \in {"lobby", "countdown"} /\ Asks(Host)
    /\ autoDispose' = TRUE
    /\ timers' = timers \cup {"grace"}
    /\ UNCHANGED <<phase, lobbyVars, resultVars, tabs, door, banner>>

Disconnect == door' = IF door = "open" THEN "closing" ELSE door

GraceEnds ==
    /\ "grace" \in timers /\ timers' = timers \ {"grace"}
    /\ Disconnect
    /\ UNCHANGED <<phase, lobbyVars, resultVars, tabs, autoDispose, banner>>

\* Mutant: an expired lobby is disconnected with autoDispose still off.
LobbyExpiresLingering ==
    /\ "lobby" \in timers /\ timers' = timers \ {"lobby"}
    /\ IF phase = "lobby" THEN Disconnect ELSE UNCHANGED door
    /\ UNCHANGED <<phase, lobbyVars, resultVars, tabs, autoDispose, banner>>

LobbyExpires ==
    /\ "lobby" \in timers /\ timers' = timers \ {"lobby"}
    /\ IF phase = "lobby" THEN autoDispose' = TRUE /\ Disconnect
       ELSE UNCHANGED <<autoDispose, door>>
    /\ UNCHANGED <<phase, lobbyVars, resultVars, tabs, banner>>

-----------------------------------------------------------------------------
(* The race.                                                                  *)

BeginRunning ==
    /\ "countdown" \in timers
    /\ SetPhase("running")
    /\ timers' = (timers \ {"countdown"}) \cup {"tick"}
    /\ UNCHANGED <<lobbyVars, resultVars, tabs, autoDispose, door>>

\* buildRaceResultsPayload has something to post: a finisher that is not a bot.
Payload(crossed) == crossed \ Bots # {}

\* Mutant: the phase is flipped while the post is under way.
FinishRoundFirst(crossed) ==
    /\ placed' = TRUE
    /\ post' = IF Payload(crossed) THEN "sending" ELSE post
    /\ SetPhase("finished")

\* The rows are sent before the phase tells the clients to fetch them.
FinishRound(crossed) ==
    /\ placed' = TRUE
    /\ IF Payload(crossed) THEN post' = "sending" /\ UNCHANGED <<phase, banner>>
       ELSE SetPhase("finished") /\ UNCHANGED post

\* The race is over for this tick: everyone simulated is home, or time is up.
Over(crossed, timedOut) ==
    timedOut \/ \A u \in People \cup Bots : physics[u] > 0 => u \in crossed

\* A race takes longer than the moment that a cancellation waits.
SimStep(crossing, timedOut) ==
    /\ "tick" \in timers /\ phase = "running" /\ "grace" \notin timers
    /\ home' = home \cup crossing
    /\ IF Over(home', timedOut) THEN FinishRound(home') /\ timers' = timers \ {"tick"}
       ELSE UNCHANGED <<phase, placed, post, timers, banner>>
    /\ UNCHANGED <<lobbyVars, saved, tabs, autoDispose, door>>

\* Mutant: the interval goes on.
AbandonUnstopped ==
    /\ "tick" \in timers
    /\ SetPhase("finished")
    /\ UNCHANGED <<lobbyVars, resultVars, roomVars>>

\* A tick that throws ends the race: nothing is placed, nothing is posted.
AbandonBrokenRace ==
    /\ "tick" \in timers /\ timers' = timers \ {"tick"}
    /\ SetPhase("finished")
    /\ UNCHANGED <<lobbyVars, resultVars, tabs, autoDispose, door>>

\* The answer, the refusal or the timeout of the post; the room may be gone by then.
PostAnswers(ok) ==
    /\ post = "sending" /\ post' = "answered"
    /\ saved' = (saved \/ ok)
    /\ SetPhase("finished")
    /\ UNCHANGED <<lobbyVars, home, placed, roomVars>>

\* onDispose: the banner goes, the clock stops, and what was placed is posted again.
Dispose(ok) ==
    /\ Disposable
    /\ door' = "gone" /\ timers' = {} /\ banner' = "none"
    /\ ok => placed /\ Payload(home)
    /\ saved' = (saved \/ ok)
    /\ UNCHANGED <<phase, lobbyVars, home, placed, post, tabs, autoDispose>>

\* The process exits, and every room with it: as it does when finishRound throws before
\* its await, a rejection that nobody handles.  A post may have reached the backend.
ProcessExits(ok) ==
    /\ door # "gone"
    /\ door' = "gone" /\ timers' = {} /\ banner' = "none"
    /\ ok => post = "sending"
    /\ saved' = (saved \/ ok)
    /\ post' = IF post = "sending" THEN "none" ELSE post
    /\ UNCHANGED <<phase, lobbyVars, home, placed, tabs, autoDispose>>

Next ==
    \/ \E u \in People : Joins(u) \/ Leaves(u) \/ RaceJoin(u)
    \/ \E ids \in SUBSET Guests : AddsInvitees(ids)
    \/ \E u \in Guests : Declines(u)
    \/ Starts \/ Cancels \/ GraceEnds \/ LobbyExpires \/ BeginRunning
    \/ \E crossing \in SUBSET Racing, timedOut \in BOOLEAN : SimStep(crossing, timedOut)
    \/ AbandonBrokenRace
    \/ \E ok \in BOOLEAN : PostAnswers(ok) \/ Dispose(ok) \/ ProcessExits(ok)

\* The clock of a live room goes on, a fetch has a timeout, a closed socket leaves,
\* and the library disposes of what it may.  Nobody has to join, start or leave.
Fairness ==
    /\ WF_vars(GraceEnds) /\ WF_vars(LobbyExpires) /\ WF_vars(BeginRunning)
    /\ WF_vars(SimStep({}, TRUE))
    /\ WF_vars(\E ok \in BOOLEAN : PostAnswers(ok))
    /\ WF_vars(\E ok \in BOOLEAN : Dispose(ok))
    /\ WF_vars(door = "closing" /\ \E u \in People : Leaves(u))

Spec == Init /\ [][Next]_vars /\ Fairness

-----------------------------------------------------------------------------
\* "A second physics entry would duplicate their placing": whatever tabs a member
\* opens and whenever a decline comes in, who has a lane is simulated once, who has
\* none is not, there are lanes for all of them, every one of them is the host's or
\* of somebody still invited, and a race that has started keeps enough racers.
EachRacesOnce ==
    /\ \A u \in People \cup Bots : physics[u] = IF u \in Racing THEN 1 ELSE 0
    /\ Cardinality(Racing) <= MaxRacers
    /\ Racing \ Bots \subseteq invited \cup {Host}
    /\ phase # "lobby" => Cardinality(Racing) >= MinRacers

\* "so the garden's watch banner reflects lobby / countdown / running / finished in
\* real time": the banner shows the phase of a race that goes on, and there is none
\* of a race that has ended or of a room that is gone, also when the answer to its
\* post comes in later.
BannerFollowsRace ==
    banner = IF door = "gone" \/ phase = "finished" THEN "none" ELSE phase

\* "Persist the result rows BEFORE flipping the phase": no client is told that a race
\* with results is over before the backend answered for them.
ResultsBeforeFinish ==
    phase = "finished" /\ placed /\ Payload(home) => post = "answered"

\* "prevents abandoned lobbies from accumulating": a room that nobody is in is
\* disposed of, or somebody comes back to it; and a race that was started is over at
\* some time, whoever stays in the room.
RoomsComeToAnEnd ==
    /\ Empty ~> (door = "gone" \/ ~Empty)
    /\ (phase = "countdown") ~> (phase = "finished" \/ door = "gone")

-----------------------------------------------------------------------------
\* Promises of the comments that the code does not keep, and that have no run of
\* their own: TLC refutes each on a small instance, and the README tells the trace.

\* "0-based lane index within racerCount": a scene has as many lanes as racers and
\* every racer has one of its own.  A decline leaves a gap, or the next racer takes a
\* lane that somebody has.
LanesFit ==
    phase = "countdown" =>
        /\ \A u \in Racing : racers[u].lane < Cardinality(Racing)
        /\ \A u, v \in Racing : racers[u].lane = racers[v].lane => u = v

\* "Caps total participants at MAX_RACERS" counts the host only once it has a lane.
InviteesFit == Cardinality(invited \cup Racing \cup {Host}) <= MaxRacers
=============================================================================
