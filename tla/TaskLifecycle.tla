----------------------------- MODULE TaskLifecycle -----------------------------
(***************************************************************************)
(* What a client of the API may rely on when it polls GET /tasks/{id}: the *)
(* life of the row in the table tasks, with nothing said of the agents     *)
(* that bring it about.                                                    *)
(*                                                                         *)
(* A row goes through its stages in order.  What was done for a task may   *)
(* be begun again (an event delivered once more, a decision that failed    *)
(* half way), so a stage may come back; but each time a row goes back one  *)
(* such retry is used up, and only a task with a retry may skip a stage.   *)
(***************************************************************************)
EXTENDS Naturals

CONSTANT Tasks

VARIABLES
    stage,     \* the row's status
    credit,    \* retries that have not yet set the row back
    replayed   \* tasks of which anything was ever retried

vars == <<stage, credit, replayed>>

Stages == {"absent", "created", "classified", "dispatched", "running", "failed", "done"}

Rank == [absent |-> 0, created |-> 1, classified |-> 2, dispatched |-> 3, running |-> 4,
         failed |-> 5, done |-> 6]

(* An execution refused by a failed node never runs.  Failed may become    *)
(* done: a node that failed behind the executor's last look at it.         *)
Successors == [absent |-> {"created"}, created |-> {"classified"},
               classified |-> {"dispatched"}, dispatched |-> {"running", "failed"},
               running |-> {"failed", "done"}, failed |-> {"done"}, done |-> {}]

Init ==
    /\ stage = [t \in Tasks |-> "absent"]
    /\ credit = [t \in Tasks |-> 0]
    /\ replayed = {}

(* One step may change a row and leave its task with things to be retried. *)
Moves(t, s, retries) ==
    /\ stage' = [stage EXCEPT ![t] = s]
    /\ replayed' = IF retries > 0 THEN replayed \cup {t} ELSE replayed
    /\ LET back == IF Rank[s] < Rank[stage[t]] THEN 1 ELSE 0
       IN  /\ credit[t] + retries >= back
           /\ credit' = [credit EXCEPT ![t] = @ + retries - back]
    /\ s \in Successors[stage[t]] \cup {stage[t]} \/ t \in replayed'

Next == \E t \in Tasks, s \in Stages, retries \in 0 .. 2 : Moves(t, s, retries)

Spec == Init /\ [][Next]_vars
================================================================================
