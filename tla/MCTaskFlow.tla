------------------------------- MODULE MCTaskFlow -------------------------------
(* Instances of TaskFlow for TLC: see the task_flow configurations.         *)
EXTENDS TaskFlow, TLC

CONSTANTS t1, n1, n2
================================================================================
