----------------------------- MODULE MCTaskFlowPair -----------------------------
(* Two tasks that share the nodes, for TLC: see task_flow_pair.cfg.         *)
EXTENDS TaskFlow, TLC

CONSTANTS t1, t2, n1, n2

(* Nothing tells the two tasks apart, and no liveness is checked here.      *)
Symmetry == Permutations({t1, t2})
================================================================================
