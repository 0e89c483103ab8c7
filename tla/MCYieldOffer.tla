----------------------------- MODULE MCYieldOffer -----------------------------
(* Yield offers on small instances: two developers who may hold one BUD each,   *)
(* a BUD of low priority for each of them, and one that is more urgent.         *)
EXTENDS YieldOffer, TLC

CONSTANTS low, middle, high

Priorities == low :> 1 @@ middle :> 2 @@ high :> 3
Symmetric == Permutations(Users) \cup Permutations(Txs)
=============================================================================
