---------------------------- MODULE MCLeaveBooking ----------------------------
(* Leave on small instances: one member with a few requests, and two           *)
(* transactions that are open at one time.                                     *)
EXTENDS LeaveBooking, TLC

Deduction == {-2, 0}

OneMember == [r \in Requests |-> CHOOSE m \in Members : TRUE]

Symmetric == Permutations(Txs) \cup Permutations(Requests)
=============================================================================
