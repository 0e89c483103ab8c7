---------------------------- MODULE MCAgentTask ----------------------------
(* Agent tasks on small instances: the tasks of one BUD, which compete for  *)
(* its slot, or of as many BUDs as there are tasks.                         *)
EXTENDS AgentTask

OneBud == [j \in Jobs |-> CHOOSE b \in Buds : TRUE]
OwnBud == CHOOSE f \in [Jobs -> Buds] : \A j, k \in Jobs : f[j] = f[k] => j = k
=============================================================================
