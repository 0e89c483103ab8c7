------------------------------ MODULE MCRaceRoom ------------------------------
(* A race room on small instances: the host and two members of the org, who     *)
(* may be invited, decline and be invited again, with a bot in the first lane.  *)
EXTENDS RaceRoom

CONSTANTS h, a, b, bot
=============================================================================
