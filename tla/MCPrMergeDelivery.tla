-------------------------- MODULE MCPrMergeDelivery --------------------------
(* PR-merge deliveries on small instances: a few deliveries of one          *)
(* repository, or of two.                                                   *)
EXTENDS PrMergeDelivery, TLC

OneRepo == [d \in Deliveries |-> CHOOSE r \in Repos : TRUE]

\* Delivery 1 is of one repository, the others are of another.
TwoRepos ==
    LET first == CHOOSE r \in Repos : TRUE
        other == CHOOSE r \in Repos : r # first
    IN [d \in Deliveries |-> IF d = 1 THEN first ELSE other]
=============================================================================
