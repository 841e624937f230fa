------------------------------ MODULE MCTaskQueues -----------------------------
(* An instance of TaskQueues for TLC: see the task_queues configuration.    *)
EXTENDS TaskQueues

CONSTANTS t1

(* A critical task whose deadline is near: each assessment boosts it twice. *)
Urgent == [critical |-> FALSE, gpu |-> FALSE, priority |-> 9, cpu |-> 1, ram |-> 512,
           duration |-> 8, deadline |-> 10]

Payloads == [t \in Tasks |-> Urgent]
================================================================================
