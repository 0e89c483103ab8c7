---------------------------- MODULE MCChatClaim ----------------------------
(* The section claims on small instances: which job is minted for which    *)
(* section, with one or two sections.                                       *)
EXTENDS ChatClaim, TLC

OneSection == [j \in Jobs |-> CHOOSE s \in Sections : TRUE]

Symmetry == Permutations(Jobs) \cup Permutations(Workers)
=============================================================================
