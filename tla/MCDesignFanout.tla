---------------------------- MODULE MCDesignFanout ----------------------------
(* The design fan-out on small instances: two repositories, a few jobs.        *)
EXTENDS DesignFanout, TLC

\* Every repository's design is treated alike, and every user.
Symmetric == Permutations(Designs) \cup Permutations(Users)
=============================================================================
