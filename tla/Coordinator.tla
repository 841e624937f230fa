----------------------------- MODULE Coordinator -----------------------------
(***************************************************************************)
(* coordinator-agent (services/coordinator_agent/main.py).  One worker     *)
(* stores the signals of queue.coordinator in Redis and, for each of them, *)
(* opens a decision window for the task unless one is open already; when   *)
(* the window ends, an asyncio task runs decide() next to the worker.      *)
(*                                                                         *)
(* Both are coroutines of one process.  A step of the model runs from one  *)
(* await to the next: it uses what the previous await returned and does    *)
(* the next operation on Redis, PostgreSQL or the broker.  Everything      *)
(* between two awaits is atomic, and a value read is used one step later.  *)
(*                                                                         *)
(* What a payload says beyond its task, its node and its SLA severity only *)
(* ranks the candidates; decide() may take any of them here.               *)
(***************************************************************************)
EXTENDS Naturals, FiniteSets

CONSTANTS
    Tasks, Nodes,
    Attempts,     \* identities for the asyncio tasks of pending_decisions
    NoAttempt,    \* a task without an entry in pending_decisions
    NoNode,       \* the node_id of "no suitable nodes" and of no node
    NoSignal,     \* the worker holds no message
    MaxSignals,   \* bound: signals delivered to queue.coordinator
    MaxFaults     \* bound: failing calls and process crashes

ASSUME NoAttemptAssumption == NoAttempt \notin Attempts
ASSUME NoNodeAssumption == NoNode \notin Nodes
ASSUME BoundsAssumption == MaxSignals \in Nat /\ MaxFaults \in Nat

Risks == {"none", "low", "high"}

(* The signals that carry a task_id.  "other" stands for what only opens a *)
(* window: forecast.queue (its payload ranks), sla.boost.  Messages        *)
(* without a task_id are acknowledged and skipped.                         *)
Signals ==
    [kind : {"classified", "other"}, task : Tasks, about : {"none"}]
        \cup [kind : {"fit"}, task : Tasks, about : Nodes \cup {NoNode}]
        \cup [kind : {"risk"}, task : Tasks, about : {"low", "high"}]

ASSUME NoSignalAssumption == NoSignal \notin Signals

VARIABLES
    inbox,      \* copies of each signal waiting in queue.coordinator
    sent,       \* signals delivered so far (bounded by MaxSignals)
    wsig, wpc,  \* the worker: the message it holds, where it is
    classified, \* tasks with a classified:<t> key
    risk,       \* what sla:<t> says, or that it is a hash
    proposals,  \* nodes with a proposal:<t>:<n> key
    made,       \* tasks with a decision:made:<t> key
    renewed,    \* tasks whose classified key is younger than their marker
    pending,    \* pending_decisions
    at,         \* each attempt: its pc and its local variables
    updated,    \* times decide() set a task to dispatched in PostgreSQL
    dispatched, \* decision.dispatch events published
    scaled,     \* decision.scale events published with requeue_after_scale
    unmarked,   \* attempts lost between the dispatch and its marker (history)
    unsent,     \* attempts lost between the update and its dispatch (history)
    late,       \* classifications stored after a dispatch (history)
    aborted,    \* tasks that lost an attempt to an exception or a crash (history)
    skipped,    \* tasks whose classification came too late for the decision
                \* in flight and opened no window of its own (history)
    faults

redis == <<classified, risk, proposals, made, renewed>>
outcome == <<updated, dispatched, scaled>>
history == <<unmarked, unsent, late, aborted, skipped>>
worker == <<wsig, wpc>>
vars == <<inbox, sent, worker, redis, pending, at, outcome, history, faults>>

Points == {"free", "window", "gotMarker", "gotTask", "gotRisk", "gotMode", "gotProposals",
           "candidates", "pgUpdated", "hashUpdated", "published", "recorded", "marked",
           "advised", "scaled"}

Attempt == [pc : Points, found : BOOLEAN, risk : Risks, nodes : SUBSET (Nodes \cup {NoNode}),
            node : Nodes \cup {NoNode}]

Free == [pc |-> "free", found |-> FALSE, risk |-> "none", nodes |-> {}, node |-> NoNode]

TypeOK ==
    /\ inbox \in [Signals -> Nat]
    /\ sent \in 0 .. MaxSignals
    /\ wsig \in Signals \cup {NoSignal}
    /\ wpc \in {"idle", "save", "schedule", "commit"}
    /\ classified \subseteq Tasks /\ made \subseteq Tasks /\ renewed \subseteq Tasks
    /\ risk \in [Tasks -> Risks \cup {"hash"}]
    /\ proposals \in [Tasks -> SUBSET (Nodes \cup {NoNode})]
    /\ pending \in [Tasks -> Attempts \cup {NoAttempt}]
    /\ at \in [Tasks -> [Attempts -> Attempt]]
    /\ updated \in [Tasks -> Nat] /\ dispatched \in [Tasks -> Nat] /\ scaled \in [Tasks -> Nat]
    /\ unmarked \in [Tasks -> Nat] /\ unsent \in [Tasks -> Nat] /\ late \in [Tasks -> Nat]
    /\ aborted \subseteq Tasks /\ skipped \subseteq Tasks
    /\ faults \in 0 .. MaxFaults

Zero == [t \in Tasks |-> 0]

Init ==
    /\ inbox = [s \in Signals |-> 0] /\ sent = 0
    /\ wsig = NoSignal /\ wpc = "idle"
    /\ classified = {} /\ made = {} /\ renewed = {}
    /\ risk = [t \in Tasks |-> "none"]
    /\ proposals = [t \in Tasks |-> {}]
    /\ pending = [t \in Tasks |-> NoAttempt]
    /\ at = [t \in Tasks |-> [a \in Attempts |-> Free]]
    /\ updated = Zero /\ dispatched = Zero /\ scaled = Zero
    /\ unmarked = Zero /\ unsent = Zero /\ late = Zero /\ aborted = {} /\ skipped = {}
    /\ faults = 0

(***************************************************************************)
(* The surroundings: signals arrive in any order and number (RabbitMQ may  *)
(* repeat and reorder them), Redis keys run out, the sla-agent writes.     *)
(***************************************************************************)
Arrive(s) ==
    /\ sent < MaxSignals
    /\ inbox' = [inbox EXCEPT ![s] = @ + 1]
    /\ sent' = sent + 1
    /\ UNCHANGED <<worker, redis, pending, at, outcome, history, faults>>

(* Classification and marker both live 3600 s from their last write, so    *)
(* the one written first is gone first.                                    *)
ClassifiedExpires(t) ==
    /\ t \in classified
    /\ t \in made => t \notin renewed
    /\ classified' = classified \ {t}
    /\ UNCHANGED <<inbox, sent, worker, risk, proposals, made, renewed, 
                   pending, at, outcome, history, faults>>

MarkerExpires(t) ==
    /\ t \in made
    /\ t \in classified => t \in renewed
    /\ made' = made \ {t}
    /\ renewed' = renewed \ {t}
    /\ UNCHANGED <<inbox, sent, worker, classified, risk, proposals, 
                   pending, at, outcome, history, faults>>

RiskExpires(t) ==
    /\ risk[t] \in {"low", "high"}
    /\ risk' = [risk EXCEPT ![t] = "none"]
    /\ UNCHANGED <<inbox, sent, worker, classified, proposals, made, renewed, pending, at,
                   outcome, history, faults>>

(* proposal_ttl_seconds: 30 s, so a proposal may go at any time.           *)
ProposalExpires(t, n) ==
    /\ n \in proposals[t]
    /\ proposals' = [proposals EXCEPT ![t] = @ \ {n}]
    /\ UNCHANGED <<inbox, sent, worker, classified, risk, made, renewed, 
                   pending, at, outcome, history, faults>>

(* sla-agent, before it publishes sla.risk: HSET sla:<t>, the key that the *)
(* coordinator keeps a string under.  Once that is there, HSET raises.     *)
SlaWritesHash(t) ==
    /\ risk[t] = "none"
    /\ risk' = [risk EXCEPT ![t] = "hash"]
    /\ UNCHANGED <<inbox, sent, worker, classified, proposals, made, renewed, pending, at,
                   outcome, history, faults>>

In(t, a, p) == at[t][a].pc = p
Becomes(t, a, r) == at' = [at EXCEPT ![t][a] = r]
Goto(t, a, p) == Becomes(t, a, [at[t][a] EXCEPT !.pc = p])

(***************************************************************************)
(* worker() and schedule_decision().                                       *)
(***************************************************************************)
Take(s) ==
    /\ wpc = "idle" /\ inbox[s] > 0
    /\ inbox' = [inbox EXCEPT ![s] = @ - 1]
    /\ wsig' = s
    /\ wpc' = IF s.kind = "other" THEN "schedule" ELSE "save"
    /\ UNCHANGED <<sent, redis, pending, at, outcome, history, faults>>

(* Mutant: the classification is stored, but opens no window.              *)
SaveClassified_NoWindow ==
    /\ wpc = "save" /\ wsig.kind = "classified"
    /\ classified' = classified \cup {wsig.task}
    /\ renewed' = IF wsig.task \in made THEN renewed \cup {wsig.task} ELSE renewed
    /\ late' = IF dispatched[wsig.task] > 0 THEN [late EXCEPT ![wsig.task] = @ + 1] ELSE late
    /\ wpc' = "commit"
    /\ UNCHANGED <<inbox, sent, wsig, risk, proposals, made, pending, at,
                   outcome, unmarked, unsent, aborted, skipped, faults>>

SaveClassified ==
    /\ wpc = "save" /\ wsig.kind = "classified"
    /\ classified' = classified \cup {wsig.task}
    /\ renewed' = IF wsig.task \in made THEN renewed \cup {wsig.task} ELSE renewed
    /\ late' = IF dispatched[wsig.task] > 0 THEN [late EXCEPT ![wsig.task] = @ + 1] ELSE late
    /\ wpc' = "schedule"
    /\ UNCHANGED <<inbox, sent, wsig, risk, proposals, made, pending, at,
                   outcome, unmarked, unsent, aborted, skipped, faults>>

(* Mutant: the event's kind is stored where its severity belongs.          *)
SaveRisk_Kind ==
    /\ wpc = "save" /\ wsig.kind = "risk"
    /\ risk' = [risk EXCEPT ![wsig.task] = wsig.kind]
    /\ wpc' = "schedule"
    /\ UNCHANGED <<inbox, sent, wsig, classified, proposals, made, renewed, 
                   pending, at, outcome, history, faults>>

SaveRisk ==
    /\ wpc = "save" /\ wsig.kind = "risk"
    /\ risk' = [risk EXCEPT ![wsig.task] = wsig.about]
    /\ wpc' = "schedule"
    /\ UNCHANGED <<inbox, sent, wsig, classified, proposals, made, renewed, 
                   pending, at, outcome, history, faults>>

SaveProposal ==
    /\ wpc = "save" /\ wsig.kind = "fit"
    /\ proposals' = [proposals EXCEPT ![wsig.task] = @ \cup {wsig.about}]
    /\ wpc' = "schedule"
    /\ UNCHANGED <<inbox, sent, wsig, classified, risk, made, renewed, 
                   pending, at, outcome, history, faults>>

(* Mutant: schedule_decision does not look for a window already open.      *)
IsPending_Never(t) == FALSE

(* The task has an entry that is not done(): its window is open or its     *)
(* decision runs.  Nothing is scheduled then, even if that decision has    *)
(* already missed what was just stored.                                    *)
IsPending(t) == \E a \in Attempts : pending[t] = a /\ ~In(t, a, "free")

Missed(t) == \E a \in Attempts : In(t, a, "gotTask") /\ ~at[t][a].found

ScheduleSkipped ==
    /\ wpc = "schedule" /\ IsPending(wsig.task)
    /\ skipped' = IF wsig.kind = "classified" /\ Missed(wsig.task)
                  THEN skipped \cup {wsig.task} ELSE skipped
    /\ wpc' = "commit"
    /\ UNCHANGED <<inbox, sent, wsig, redis, pending, at, outcome,
                   unmarked, unsent, late, aborted, faults>>

(* Which identity the new asyncio task gets is immaterial.                 *)
ScheduleOpens(a) ==
    /\ wpc = "schedule" /\ ~IsPending(wsig.task)
    /\ In(wsig.task, a, "free") /\ a = CHOOSE b \in Attempts : In(wsig.task, b, "free")
    /\ pending' = [pending EXCEPT ![wsig.task] = a]
    /\ Becomes(wsig.task, a, [Free EXCEPT !.pc = "window"])
    /\ wpc' = "commit"
    /\ UNCHANGED <<inbox, sent, wsig, redis, outcome, history, faults>>

Commit ==
    /\ wpc = "commit"
    /\ wsig' = NoSignal /\ wpc' = "idle"
    /\ UNCHANGED <<inbox, sent, redis, pending, at, outcome, history, faults>>

Fault == faults < MaxFaults /\ faults' = faults + 1

(* A Redis write or the ack raises: the worker swallows it and the message *)
(* comes back through the retry queue.                                     *)
WorkerRaises ==
    /\ wpc \in {"save", "commit"}
    /\ Fault
    /\ inbox' = [inbox EXCEPT ![wsig] = @ + 1]
    /\ wsig' = NoSignal /\ wpc' = "idle"
    /\ UNCHANGED <<sent, redis, pending, at, outcome, history>>

(***************************************************************************)
(* delayed() and decide().                                                 *)
(***************************************************************************)
(* delayed()'s finally block: the entry of the task is popped.             *)
Ends(t, a) ==
    /\ Becomes(t, a, Free)
    /\ pending' = [pending EXCEPT ![t] = NoAttempt]

(* Mutant: decide() does not look for decision:made.                       *)
LoadMarker_Ignored(t, a) ==
    /\ In(t, a, "window")
    /\ Becomes(t, a, [at[t][a] EXCEPT !.pc = "gotMarker", !.found = FALSE])
    /\ UNCHANGED <<inbox, sent, worker, redis, pending, outcome, history, faults>>

(* The window has passed; decide() asks for decision:made.                 *)
LoadMarker(t, a) ==
    /\ In(t, a, "window")
    /\ Becomes(t, a, [at[t][a] EXCEPT !.pc = "gotMarker", !.found = t \in made])
    /\ UNCHANGED <<inbox, sent, worker, redis, pending, outcome, history, faults>>

LoadTask(t, a) ==
    /\ In(t, a, "gotMarker") /\ ~at[t][a].found
    /\ Becomes(t, a, [at[t][a] EXCEPT !.pc = "gotTask", !.found = t \in classified])
    /\ UNCHANGED <<inbox, sent, worker, redis, pending, outcome, history, faults>>

(* Already decided, or never (or too long ago) classified: decide returns. *)
NothingToDecide(t, a) ==
    /\ \/ In(t, a, "gotMarker") /\ at[t][a].found
       \/ In(t, a, "gotTask") /\ ~at[t][a].found
    /\ Ends(t, a)
    /\ UNCHANGED <<inbox, sent, worker, redis, outcome, history, faults>>

LoadRisk(t, a) ==
    /\ In(t, a, "gotTask") /\ at[t][a].found /\ risk[t] # "hash"
    /\ Becomes(t, a, [at[t][a] EXCEPT !.pc = "gotRisk", !.risk = risk[t]])
    /\ UNCHANGED <<inbox, sent, worker, redis, pending, outcome, history, faults>>

(* GET of the hash the sla-agent made raises.                              *)
LoadRiskRaises(t, a) ==
    /\ In(t, a, "gotTask") /\ at[t][a].found /\ risk[t] = "hash"
    /\ Ends(t, a)
    /\ aborted' = aborted \cup {t}
    /\ UNCHANGED <<inbox, sent, worker, redis, outcome, unmarked, unsent, late, skipped, faults>>

(* An experiment may be started or stopped at any time; baseline mode      *)
(* forgets what the SLA and forecast agents said.                          *)
LoadMode(t, a) ==
    /\ In(t, a, "gotRisk")
    /\ \E known \in {"none", at[t][a].risk} :
         Becomes(t, a, [at[t][a] EXCEPT !.pc = "gotMode", !.risk = known])
    /\ UNCHANGED <<inbox, sent, worker, redis, pending, outcome, history, faults>>

LoadProposals(t, a) ==
    /\ In(t, a, "gotMode")
    /\ Becomes(t, a, [at[t][a] EXCEPT !.pc = "gotProposals", !.nodes = proposals[t]])
    /\ UNCHANGED <<inbox, sent, worker, redis, pending, outcome, history, faults>>

(* degrade_proposals: without any proposal, the nodes' own hashes decide.  *)
(* It lists the keys node:*, which include the running SETS; reading one   *)
(* of those as a hash raises, that is while any task runs anywhere.        *)
Degrade(t, a) ==
    /\ In(t, a, "gotProposals") /\ at[t][a].nodes = {}
    /\ \E fitting \in SUBSET Nodes :
         Becomes(t, a, [at[t][a] EXCEPT !.pc = "candidates", !.nodes = fitting])
    /\ UNCHANGED <<inbox, sent, worker, redis, pending, outcome, history, faults>>

DegradeRaises(t, a) ==
    /\ In(t, a, "gotProposals") /\ at[t][a].nodes = {}
    /\ Ends(t, a)
    /\ aborted' = aborted \cup {t}
    /\ UNCHANGED <<inbox, sent, worker, redis, outcome, unmarked, unsent, late, skipped, faults>>

Choosing(t, a) ==
    \/ In(t, a, "gotProposals") /\ at[t][a].nodes # {}
    \/ In(t, a, "candidates")

Safe(t, a) == at[t][a].nodes \ {NoNode}

(* Mutant: without a safe node, decide() returns and asks for none.        *)
PublishScale_NotSent(t, a) ==
    /\ Choosing(t, a) /\ Safe(t, a) = {}
    /\ Goto(t, a, "scaled")
    /\ UNCHANGED <<inbox, sent, worker, redis, pending, outcome, history, faults>>

(* No safe node: decision.scale with requeue_after_scale, no marker.       *)
PublishScale(t, a) ==
    /\ Choosing(t, a) /\ Safe(t, a) = {}
    /\ scaled' = [scaled EXCEPT ![t] = @ + 1]
    /\ Goto(t, a, "scaled")
    /\ UNCHANGED <<inbox, sent, worker, redis, pending, updated, dispatched, history, faults>>

(* update_task: the row says dispatched.                                   *)
UpdateTask(t, a) ==
    /\ Choosing(t, a)
    /\ \E n \in Safe(t, a) :
         Becomes(t, a, [at[t][a] EXCEPT !.pc = "pgUpdated", !.node = n])
    /\ updated' = [updated EXCEPT ![t] = @ + 1]
    /\ UNCHANGED <<inbox, sent, worker, redis, pending, dispatched, scaled, history, faults>>

(* set_task_hash: so does task:<t>.                                        *)
UpdateHash(t, a) ==
    /\ In(t, a, "pgUpdated")
    /\ Goto(t, a, "hashUpdated")
    /\ UNCHANGED <<inbox, sent, worker, redis, pending, outcome, history, faults>>

(* Mutant: the stores say dispatched, and no event is sent.                *)
PublishDispatch_NotSent(t, a) ==
    /\ In(t, a, "hashUpdated")
    /\ Goto(t, a, "published")
    /\ UNCHANGED <<inbox, sent, worker, redis, pending, outcome, history, faults>>

PublishDispatch(t, a) ==
    /\ In(t, a, "hashUpdated")
    /\ dispatched' = [dispatched EXCEPT ![t] = @ + 1]
    /\ Goto(t, a, "published")
    /\ UNCHANGED <<inbox, sent, worker, redis, pending, updated, scaled, history, faults>>

SaveDecision(t, a) ==
    /\ In(t, a, "published")
    /\ Goto(t, a, "recorded")
    /\ UNCHANGED <<inbox, sent, worker, redis, pending, outcome, history, faults>>

(* Mutant: decision:made is not written.                                   *)
SetMarker_NotSet(t, a) ==
    /\ In(t, a, "recorded")
    /\ Goto(t, a, "marked")
    /\ UNCHANGED <<inbox, sent, worker, redis, pending, outcome, history, faults>>

SetMarker(t, a) ==
    /\ In(t, a, "recorded")
    /\ made' = made \cup {t}
    /\ renewed' = renewed \ {t}
    /\ Goto(t, a, "marked")
    /\ UNCHANGED <<inbox, sent, worker, classified, risk, proposals, pending,
                   outcome, history, faults>>

(* should_scale_for_sla: the dispatched task also asks for a node ahead,   *)
(* by a decision.scale that requeues nothing.                              *)
PublishAdvisory(t, a) ==
    /\ In(t, a, "marked") /\ at[t][a].risk = "high"
    /\ Goto(t, a, "advised")
    /\ UNCHANGED <<inbox, sent, worker, redis, pending, outcome, history, faults>>

Decided(t, a) ==
    /\ \/ In(t, a, "marked") /\ at[t][a].risk # "high"
       \/ In(t, a, "advised") \/ In(t, a, "scaled")
    /\ Ends(t, a)
    /\ UNCHANGED <<inbox, sent, worker, redis, outcome, history, faults>>

(* The dispatch is out and its marker is not.                              *)
Unmarked(t) == \E a \in Attempts : In(t, a, "published") \/ In(t, a, "recorded")

(* The row is set and the dispatch is not out.                             *)
Recording(t) == \E a \in Attempts : In(t, a, "pgUpdated") \/ In(t, a, "hashUpdated")

(* An operation of decide() raises; the exception stays in the asyncio     *)
(* task, which nobody awaits: the attempt is over and nothing retries it.  *)
AttemptRaises(t, a) ==
    /\ at[t][a].pc \notin {"free", "window"}
    /\ Fault
    /\ Ends(t, a)
    /\ aborted' = aborted \cup {t}
    /\ unmarked' = IF Unmarked(t) THEN [unmarked EXCEPT ![t] = @ + 1] ELSE unmarked
    /\ unsent' = IF Recording(t) THEN [unsent EXCEPT ![t] = @ + 1] ELSE unsent
    /\ UNCHANGED <<inbox, sent, worker, redis, outcome, late, skipped>>

(* The process dies: open windows and running decisions go with it, though *)
(* their signals were acknowledged; only the worker's message comes back.  *)
Crash ==
    /\ Fault
    /\ pending' = [t \in Tasks |-> NoAttempt]
    /\ at' = [t \in Tasks |-> [a \in Attempts |-> Free]]
    /\ aborted' = aborted \cup {t \in Tasks : \E a \in Attempts : ~In(t, a, "free")}
    /\ unmarked' = [t \in Tasks |-> IF Unmarked(t) THEN unmarked[t] + 1 ELSE unmarked[t]]
    /\ unsent' = [t \in Tasks |-> IF Recording(t) THEN unsent[t] + 1 ELSE unsent[t]]
    /\ inbox' = IF wsig = NoSignal THEN inbox ELSE [inbox EXCEPT ![wsig] = @ + 1]
    /\ wsig' = NoSignal /\ wpc' = "idle"
    /\ UNCHANGED <<sent, redis, outcome, late, skipped>>

Expires == \E t \in Tasks : ClassifiedExpires(t) \/ MarkerExpires(t) \/ RiskExpires(t)
                            \/ \E n \in Nodes \cup {NoNode} : ProposalExpires(t, n)

Work == \/ \E s \in Signals : Take(s)
        \/ SaveClassified \/ SaveRisk \/ SaveProposal
        \/ ScheduleSkipped \/ (\E a \in Attempts : ScheduleOpens(a))
        \/ Commit

Decide(t, a) ==
    \/ LoadMarker(t, a) \/ LoadTask(t, a) \/ NothingToDecide(t, a)
    \/ LoadRisk(t, a) \/ LoadRiskRaises(t, a) \/ LoadMode(t, a) \/ LoadProposals(t, a)
    \/ Degrade(t, a) \/ DegradeRaises(t, a)
    \/ PublishScale(t, a) \/ UpdateTask(t, a) \/ UpdateHash(t, a)
    \/ PublishDispatch(t, a) \/ SaveDecision(t, a) \/ SetMarker(t, a)
    \/ PublishAdvisory(t, a) \/ Decided(t, a)

Failure == WorkerRaises \/ Crash \/ \E t \in Tasks, a \in Attempts : AttemptRaises(t, a)

Next == \/ \E s \in Signals : Arrive(s)
        \/ Expires \/ (\E t \in Tasks : SlaWritesHash(t)) \/ Work \/ Failure
        \/ \E t \in Tasks, a \in Attempts : Decide(t, a)

Spec == Init /\ [][Next]_vars

(* Fairness: the event loop runs every ready coroutine and every window    *)
(* ends.  Nothing forces a signal, an expiry or a fault.                   *)
FairSpec == Spec /\ WF_vars(Work) /\ \A t \in Tasks : WF_vars(\E a \in Attempts : Decide(t, a))
-----------------------------------------------------------------------------
(***************************************************************************)
(* Properties.                                                             *)
(***************************************************************************)

(* At most one window or decision per task at a time, and it is the one    *)
(* pending_decisions knows.  A finally block that pops another attempt's   *)
(* entry, or an await before the entry is made, would break it.            *)
SingleFlight ==
    \A t \in Tasks, a \in Attempts : ~In(t, a, "free") => pending[t] = a

(* A task is dispatched again only if an attempt died between the dispatch *)
(* and its marker, or the task was classified again after a dispatch: with *)
(* equal lifetimes, the old classification never outlives the marker.      *)
NoUnexplainedRedispatch ==
    \A t \in Tasks : dispatched[t] <= 1 + unmarked[t] + late[t]

(* Nor does a dispatched task ask for a node and a requeue, but for those  *)
(* reasons: a decision is final.                                           *)
DecisionIsFinal ==
    [][\A t \in Tasks : scaled'[t] > scaled[t] /\ dispatched[t] > 0
                          => unmarked[t] + late[t] > 0]_vars

(* Each time decide() sets a task to dispatched, one decision.dispatch     *)
(* goes out, but for the attempt that is between the two right now and for *)
(* those that died exactly there; no event goes out without the update.    *)
DispatchedHasEvent ==
    \A t \in Tasks :
        updated[t] = dispatched[t] + unsent[t] + (IF Recording(t) THEN 1 ELSE 0)

(* When nothing is left to do for a classified task it was dispatched or a *)
(* node was asked for, unless an attempt was lost, or the classification   *)
(* was stored after the attempt in flight had looked for it but before     *)
(* that attempt was gone: there is no other way to forget a task.          *)
AtRest(t) ==
    /\ \A a \in Attempts : In(t, a, "free")
    /\ wsig = NoSignal
    /\ \A s \in Signals : inbox[s] = 0

UndecidedHasReason ==
    \A t \in Tasks : t \in classified /\ AtRest(t) =>
        \/ dispatched[t] > 0 \/ scaled[t] > 0
        \/ t \in aborted \cup skipped

(* Every classified task is eventually decided, with the same exceptions   *)
(* and that of a classification that expires first.                        *)
EventuallyDecided ==
    \A t \in Tasks : (t \in classified) ~>
        \/ dispatched[t] > 0 \/ scaled[t] > 0
        \/ t \in aborted \cup skipped \/ t \notin classified

(* README.md:109 lists "fallback dispatch/scale" among the coordinator's   *)
(* duties: an attempt that has looked for proposals is not dropped then,   *)
(* unless a call fails.                                                    *)
FallbackDecides ==
    [][\A t \in Tasks, a \in Attempts :
         In(t, a, "gotProposals") /\ faults' = faults => at'[t][a].pc # "free"]_vars
==============================================================================
