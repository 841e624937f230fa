------------------------------ MODULE MCExecutor ------------------------------
(* Instances of Executor for TLC: see executor.cfg, executor_node_failure.cfg. *)
EXTENDS Executor

CONSTANTS t1, n1
==============================================================================
