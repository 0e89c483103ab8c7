----------------------------- MODULE MCJobQueue -----------------------------
(* The job queue on small instances: the sets of jobs and workers are given *)
(* in the configurations.  Liveness is checked with the rest, so there is   *)
(* no symmetry reduction.                                                   *)
EXTENDS JobQueue
=============================================================================
