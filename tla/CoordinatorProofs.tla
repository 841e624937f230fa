-------------------------- MODULE CoordinatorProofs --------------------------
(***************************************************************************)
(* Theorems about the coordinator, for any tasks, nodes and attempts and   *)
(* any number of signals and faults.                                       *)
(***************************************************************************)
EXTENDS Coordinator, TLAPS

WorkerInv == wpc # "idle" => wsig \in Signals

(* No dispatch of t is left unaccounted for.                               *)
Clear(t) == dispatched[t] <= unmarked[t] + late[t]

(* decide() has found no marker and has not set it.                        *)
Deciding(t, a) ==
    \/ at[t][a].pc = "gotMarker" /\ ~at[t][a].found
    \/ at[t][a].pc \in {"gotTask", "gotRisk", "gotMode", "gotProposals", "candidates",
                        "pgUpdated", "hashUpdated", "published", "recorded"}

(* ... and has read the classification, but not published a dispatch.      *)
Loaded(t, a) ==
    \/ at[t][a].pc = "gotTask" /\ at[t][a].found
    \/ at[t][a].pc \in {"gotRisk", "gotMode", "gotProposals", "candidates",
                        "pgUpdated", "hashUpdated"}

(***************************************************************************)
(* Why a second dispatch needs a reason.  After a dispatch, the marker or  *)
(* the attempt about to set it keeps every other attempt from starting     *)
(* over; once the marker is gone, so is the classification, unless it was  *)
(* stored again, which "late" counts.                                      *)
(***************************************************************************)
GuardedTask(t) ==
    /\ dispatched[t] <= 1 + unmarked[t] + late[t]
    /\ t \in made \/ Unmarked(t) \/ t \notin classified \/ Clear(t)
    /\ t \in renewed => t \in made /\ Clear(t)
    /\ \A a \in Attempts :
         /\ Deciding(t, a) => t \notin made
         /\ Loaded(t, a) => Clear(t)

Guarded == \A t \in Tasks : GuardedTask(t)

IndInv == TypeOK /\ WorkerInv /\ SingleFlight /\ Guarded

LEMMA FreeAttempt == Free \in Attempt /\ [Free EXCEPT !.pc = "window"] \in Attempt
  BY DEF Free, Attempt, Points, Risks

(* A step of one attempt leaves the others as they are.                    *)
LEMMA OneMoves ==
    ASSUME at \in [Tasks -> [Attempts -> Attempt]],
           NEW t \in Tasks, NEW a \in Attempts, NEW r \in Attempt, Becomes(t, a, r)
    PROVE  /\ at' \in [Tasks -> [Attempts -> Attempt]]
           /\ at'[t][a] = r
           /\ \A u \in Tasks, b \in Attempts : u # t \/ b # a => at'[u][b] = at[u][b]
  BY DEF Becomes

LEMMA SignalTask == \A s \in Signals : s.task \in Tasks
  BY DEF Signals

LEMMA InitInd == Init => IndInv
<1> SUFFICES ASSUME Init PROVE IndInv
  OBVIOUS
<1> USE DEF Init
<1>1. TypeOK
  <2>1. at \in [Tasks -> [Attempts -> Attempt]]
    BY FreeAttempt
  <2>2. pending \in [Tasks -> Attempts \cup {NoAttempt}]
    OBVIOUS
  <2>3. inbox \in [Signals -> Nat] /\ sent \in 0 .. MaxSignals /\ faults \in 0 .. MaxFaults
    BY BoundsAssumption
  <2>4. /\ risk \in [Tasks -> Risks]
        /\ proposals \in [Tasks -> SUBSET (Nodes \cup {NoNode})]
    BY DEF Risks
  <2>5. /\ updated \in [Tasks -> Nat] /\ dispatched \in [Tasks -> Nat] /\ scaled \in [Tasks -> Nat]
        /\ unmarked \in [Tasks -> Nat] /\ unsent \in [Tasks -> Nat] /\ late \in [Tasks -> Nat]
    BY DEF Zero
  <2> QED  BY <2>1, <2>2, <2>3, <2>4, <2>5 DEF TypeOK
<1>2. WorkerInv /\ SingleFlight
  BY DEF WorkerInv, SingleFlight, In, Free
<1>3. Guarded
  BY DEF Guarded, GuardedTask, Zero, Clear, Deciding, Loaded, Free
<1> QED  BY <1>1, <1>2, <1>3 DEF IndInv

(* Every step of decide() is a step of its own attempt only, and it keeps  *)
(* the entry in pending_decisions or removes it with the attempt.          *)
LEMMA DecideMoves ==
    ASSUME TypeOK, NEW t \in Tasks, NEW a \in Attempts, Decide(t, a)
    PROVE  /\ \E r \in Attempt : Becomes(t, a, r)
           /\ at[t][a].pc # "free"
           /\ \/ pending' = pending
              \/ pending' = [pending EXCEPT ![t] = NoAttempt] /\ Becomes(t, a, Free)
<1> DEFINE Goal == /\ \E r \in Attempt : Becomes(t, a, r)
                   /\ at[t][a].pc # "free"
                   /\ \/ pending' = pending
                      \/ pending' = [pending EXCEPT ![t] = NoAttempt] /\ Becomes(t, a, Free)
<1>a. at[t][a] \in Attempt
  BY DEF TypeOK
<1>b. risk[t] \in Risks \cup {"hash"} /\ proposals[t] \in SUBSET (Nodes \cup {NoNode})
  BY DEF TypeOK
<1> USE DEF In, Goto
<1>1. CASE LoadMarker(t, a)
  <2>1. \A b \in BOOLEAN : [at[t][a] EXCEPT !.pc = "gotMarker", !.found = b] \in Attempt
    BY <1>a DEF Attempt, Points
  <2> DEFINE read(b) == [at[t][a] EXCEPT !.pc = "gotMarker", !.found = b]
             r == read(t \in made)
  <2>2. r \in Attempt
    <3>1. \A b \in BOOLEAN : read(b) \in Attempt
      BY <2>1
    <3>2. (t \in made) \in BOOLEAN
      OBVIOUS
    <3> HIDE DEF read
    <3> QED  BY <3>1, <3>2, Zenon
  <2>3. Becomes(t, a, r) /\ at[t][a].pc # "free" /\ pending' = pending
    BY <1>1 DEF LoadMarker
  <2> QED  BY <2>2, <2>3, Zenon
<1>2. CASE LoadTask(t, a)
  <2>1. \A b \in BOOLEAN : [at[t][a] EXCEPT !.pc = "gotTask", !.found = b] \in Attempt
    BY <1>a DEF Attempt, Points
  <2> DEFINE read(b) == [at[t][a] EXCEPT !.pc = "gotTask", !.found = b]
             r == read(t \in classified)
  <2>2. r \in Attempt
    <3>1. \A b \in BOOLEAN : read(b) \in Attempt
      BY <2>1
    <3>2. (t \in classified) \in BOOLEAN
      OBVIOUS
    <3> HIDE DEF read
    <3> QED  BY <3>1, <3>2, Zenon
  <2>3. Becomes(t, a, r) /\ at[t][a].pc # "free" /\ pending' = pending
    BY <1>2 DEF LoadTask
  <2> QED  BY <2>2, <2>3, Zenon
<1>3. CASE NothingToDecide(t, a) \/ LoadRiskRaises(t, a) \/ DegradeRaises(t, a) \/ Decided(t, a)
  BY <1>3, FreeAttempt DEF NothingToDecide, LoadRiskRaises, DegradeRaises, Decided, Ends
<1>4. CASE LoadRisk(t, a)
  <2>1. [at[t][a] EXCEPT !.pc = "gotRisk", !.risk = risk[t]] \in Attempt
    BY <1>a, <1>b, <1>4 DEF LoadRisk, Attempt, Points
  <2> QED  BY <1>4, <2>1 DEF LoadRisk
<1>5. CASE LoadMode(t, a)
  <2>1. PICK k \in {"none", at[t][a].risk} :
          Becomes(t, a, [at[t][a] EXCEPT !.pc = "gotMode", !.risk = k])
    BY <1>5 DEF LoadMode
  <2>2. [at[t][a] EXCEPT !.pc = "gotMode", !.risk = k] \in Attempt
    BY <1>a DEF Attempt, Points, Risks
  <2> QED  BY <1>5, <2>1, <2>2 DEF LoadMode
<1>6. CASE LoadProposals(t, a)
  <2>1. [at[t][a] EXCEPT !.pc = "gotProposals", !.nodes = proposals[t]] \in Attempt
    BY <1>a, <1>b DEF Attempt, Points
  <2> QED  BY <1>6, <2>1 DEF LoadProposals
<1>7. CASE Degrade(t, a)
  <2>1. PICK ns \in SUBSET Nodes :
          Becomes(t, a, [at[t][a] EXCEPT !.pc = "candidates", !.nodes = ns])
    BY <1>7 DEF Degrade
  <2>2. [at[t][a] EXCEPT !.pc = "candidates", !.nodes = ns] \in Attempt
    BY <1>a DEF Attempt, Points
  <2> QED  BY <1>7, <2>1, <2>2 DEF Degrade
<1>8. CASE UpdateTask(t, a)
  <2>1. PICK n \in Safe(t, a) :
          Becomes(t, a, [at[t][a] EXCEPT !.pc = "pgUpdated", !.node = n])
    BY <1>8 DEF UpdateTask
  <2>2. [at[t][a] EXCEPT !.pc = "pgUpdated", !.node = n] \in Attempt
    BY <1>a DEF Attempt, Points, Safe
  <2> QED  BY <1>8, <2>1, <2>2 DEF UpdateTask, Choosing
<1>9. CASE PublishScale(t, a) \/ UpdateHash(t, a) \/ PublishDispatch(t, a)
           \/ SaveDecision(t, a) \/ SetMarker(t, a) \/ PublishAdvisory(t, a)
  <2>1. \A p \in Points : [at[t][a] EXCEPT !.pc = p] \in Attempt
    BY <1>a DEF Attempt
  <2>2. {"scaled", "hashUpdated", "published", "recorded", "marked", "advised"} \subseteq Points
    BY DEF Points
  <2> QED  BY <1>9, <2>1, <2>2 DEF PublishScale, Choosing, UpdateHash, PublishDispatch,
              SaveDecision, SetMarker, PublishAdvisory
<1> QED  BY <1>1, <1>2, <1>3, <1>4, <1>5, <1>6, <1>7, <1>8, <1>9 DEF Decide

(* What the first two reads of decide() leave in the attempt.              *)
LEMMA Reads ==
    ASSUME TypeOK, NEW t \in Tasks, NEW a \in Attempts
    PROVE  /\ LoadMarker(t, a) => at'[t][a].pc = "gotMarker" /\ (at'[t][a].found <=> t \in made)
           /\ LoadTask(t, a) => at'[t][a].pc = "gotTask" /\ (at'[t][a].found <=> t \in classified)
<1> DEFINE read(p, b) == [at[t][a] EXCEPT !.pc = p, !.found = b]
<1>1. \A p \in {"gotMarker", "gotTask"}, b \in BOOLEAN : read(p, b).pc = p /\ read(p, b).found = b
  BY DEF TypeOK, Attempt
<1>2. (t \in made) \in BOOLEAN
  OBVIOUS
<1>7. (t \in classified) \in BOOLEAN
  OBVIOUS
<1>8. "gotMarker" \in {"gotMarker", "gotTask"} /\ "gotTask" \in {"gotMarker", "gotTask"}
  OBVIOUS
<1>a. at \in [Tasks -> [Attempts -> Attempt]]
  BY DEF TypeOK
<1>3. ASSUME LoadMarker(t, a) PROVE at'[t][a] = read("gotMarker", t \in made)
  BY <1>a, <1>3 DEF LoadMarker, Becomes
<1>4. ASSUME LoadTask(t, a) PROVE at'[t][a] = read("gotTask", t \in classified)
  BY <1>a, <1>4 DEF LoadTask, Becomes
<1> HIDE DEF read
<1>5. LoadMarker(t, a) => at'[t][a].pc = "gotMarker" /\ (at'[t][a].found <=> t \in made)
  BY <1>1, <1>2, <1>3, <1>8, Zenon
<1>6. LoadTask(t, a) => at'[t][a].pc = "gotTask" /\ (at'[t][a].found <=> t \in classified)
  BY <1>1, <1>7, <1>4, <1>8, Zenon
<1> QED BY <1>5, <1>6

LEMMA TypeStep == TypeOK /\ WorkerInv /\ [Next]_vars => TypeOK' /\ WorkerInv'
<1> SUFFICES ASSUME TypeOK, WorkerInv, [Next]_vars PROVE TypeOK' /\ WorkerInv'
  OBVIOUS
<1> USE BoundsAssumption DEF TypeOK, WorkerInv
<1>1. ASSUME NEW s \in Signals, Arrive(s) PROVE TypeOK' /\ WorkerInv'
  BY <1>1 DEF Arrive, worker, redis, outcome, history
<1>2. CASE Expires
  <2>1. ASSUME NEW t \in Tasks, ClassifiedExpires(t) \/ MarkerExpires(t)
        PROVE  TypeOK' /\ WorkerInv'
    BY <2>1 DEF ClassifiedExpires, MarkerExpires, worker, outcome, history
  <2>2. ASSUME NEW t \in Tasks, RiskExpires(t) PROVE TypeOK' /\ WorkerInv'
    BY <2>2 DEF RiskExpires, Risks, worker, outcome, history
  <2>3. ASSUME NEW t \in Tasks, NEW n \in Nodes \cup {NoNode}, ProposalExpires(t, n)
        PROVE  TypeOK' /\ WorkerInv'
    BY <2>3 DEF ProposalExpires, worker, outcome, history
  <2> QED  BY <1>2, <2>1, <2>2, <2>3 DEF Expires
<1>3. ASSUME NEW t \in Tasks, SlaWritesHash(t) PROVE TypeOK' /\ WorkerInv'
  BY <1>3 DEF SlaWritesHash, worker, redis, outcome, history
<1>4. CASE Work
  <2>1. ASSUME NEW s \in Signals, Take(s) PROVE TypeOK' /\ WorkerInv'
    BY <2>1 DEF Take, redis, outcome, history
  <2>2. CASE SaveClassified
    BY <2>2, SignalTask DEF SaveClassified, outcome, history
  <2>3. CASE SaveRisk
    <3>1. wsig.about \in Risks
      BY <2>3 DEF SaveRisk, Signals, Risks
    <3> QED  BY <2>3, <3>1, SignalTask DEF SaveRisk, outcome, history
  <2>4. CASE SaveProposal
    <3>1. wsig.about \in Nodes \cup {NoNode}
      BY <2>4 DEF SaveProposal, Signals
    <3> QED  BY <2>4, <3>1, SignalTask DEF SaveProposal, outcome, history
  <2>5. CASE ScheduleSkipped
    BY <2>5, SignalTask DEF ScheduleSkipped, redis, outcome, history
  <2>6. ASSUME NEW a \in Attempts, ScheduleOpens(a) PROVE TypeOK' /\ WorkerInv'
    BY FreeAttempt, <2>6, SignalTask DEF ScheduleOpens, Becomes, redis, outcome, history
  <2>7. CASE Commit
    BY <2>7 DEF Commit, redis, outcome, history
  <2> QED  BY <1>4, <2>1, <2>2, <2>3, <2>4, <2>5, <2>6, <2>7 DEF Work
<1>5. CASE Failure
  <2>1. CASE WorkerRaises
    BY <2>1 DEF WorkerRaises, Fault, redis, outcome, history
  <2>2. CASE Crash
    BY FreeAttempt, <2>2 DEF Crash, Fault, redis, outcome, history
  <2>3. ASSUME NEW t \in Tasks, NEW a \in Attempts, AttemptRaises(t, a)
        PROVE  TypeOK' /\ WorkerInv'
    BY FreeAttempt, <2>3 DEF AttemptRaises, Fault, Ends, Becomes, worker, redis, outcome, history
  <2> QED  BY <1>5, <2>1, <2>2, <2>3 DEF Failure
<1>6. ASSUME NEW t \in Tasks, NEW a \in Attempts, Decide(t, a) PROVE TypeOK' /\ WorkerInv'
  <2>1. PICK r \in Attempt : Becomes(t, a, r)
    BY <1>6, DecideMoves
  <2>2. at' \in [Tasks -> [Attempts -> Attempt]]
    BY <2>1, OneMoves
  <2>3. pending' \in [Tasks -> Attempts \cup {NoAttempt}]
    BY <1>6, DecideMoves
  <2>4. UNCHANGED <<inbox, sent, worker, classified, risk, proposals>>
    BY <1>6 DEF Decide, LoadMarker, LoadTask, NothingToDecide, LoadRisk, LoadRiskRaises, LoadMode,
       LoadProposals, Degrade, DegradeRaises, PublishScale, UpdateTask, UpdateHash,
       PublishDispatch, SaveDecision, SetMarker, PublishAdvisory, Decided, redis
  <2>5. /\ made' \subseteq Tasks /\ renewed' \subseteq Tasks /\ aborted' \subseteq Tasks
        /\ UNCHANGED <<unmarked, unsent, late, skipped, faults>>
    BY <1>6 DEF Decide, LoadMarker, LoadTask, NothingToDecide, LoadRisk, LoadRiskRaises, LoadMode,
       LoadProposals, Degrade, DegradeRaises, PublishScale, UpdateTask, UpdateHash,
       PublishDispatch, SaveDecision, SetMarker, PublishAdvisory, Decided, redis, history
  <2>6. \/ PublishDispatch(t, a) \/ PublishScale(t, a) \/ UpdateTask(t, a)
        \/ UNCHANGED <<updated, dispatched, scaled>>
    BY <1>6 DEF Decide, LoadMarker, LoadTask, NothingToDecide, LoadRisk, LoadRiskRaises, LoadMode,
       LoadProposals, Degrade, DegradeRaises, UpdateHash,
       SaveDecision, SetMarker, PublishAdvisory, Decided, outcome
  <2>7. updated' \in [Tasks -> Nat] /\ dispatched' \in [Tasks -> Nat] /\ scaled' \in [Tasks -> Nat]
    <3>1. CASE PublishDispatch(t, a)
      BY <3>1 DEF PublishDispatch
    <3>2. CASE PublishScale(t, a)
      BY <3>2 DEF PublishScale
    <3>3. CASE UpdateTask(t, a)
      BY <3>3 DEF UpdateTask
    <3> QED  BY <2>6, <3>1, <3>2, <3>3
  <2> QED  BY <2>2, <2>3, <2>4, <2>5, <2>7 DEF worker
<1>7. CASE UNCHANGED vars
  BY <1>7 DEF vars, worker, redis, outcome, history
<1> QED  BY <1>1, <1>2, <1>3, <1>4, <1>5, <1>6, <1>7 DEF Next

(* pending_decisions keeps attempts of one task apart: an attempt starts   *)
(* only when the task has no live entry, and only a live one ends.         *)
LEMMA FlightStep ==
    TypeOK /\ WorkerInv /\ SingleFlight /\ [Next]_vars => SingleFlight'
<1> SUFFICES ASSUME TypeOK, WorkerInv, SingleFlight, [Next]_vars PROVE SingleFlight'
  OBVIOUS
<1> USE DEF SingleFlight, In
<1>a. /\ at \in [Tasks -> [Attempts -> Attempt]]
      /\ pending \in [Tasks -> Attempts \cup {NoAttempt}]
  BY DEF TypeOK
<1>1. ASSUME UNCHANGED <<pending, at>> PROVE SingleFlight'
  BY <1>1
<1>2. ASSUME NEW a \in Attempts, ScheduleOpens(a) PROVE SingleFlight'
  <2> DEFINE t == wsig.task
  <2>1. t \in Tasks
    BY <1>2, SignalTask DEF ScheduleOpens, WorkerInv
  <2>2. \A b \in Attempts : at[t][b].pc = "free"
    BY <1>2, <2>1 DEF ScheduleOpens, IsPending
  <2>3. \A u \in Tasks, b \in Attempts : u # t \/ b # a => at'[u][b] = at[u][b]
    BY <1>a, <1>2, <2>1, FreeAttempt, OneMoves DEF ScheduleOpens
  <2>4. pending' = [pending EXCEPT ![t] = a]
    BY <1>2 DEF ScheduleOpens
  <2> HIDE DEF t
  <2> QED  BY <1>a, <2>1, <2>2, <2>3, <2>4
<1>3. ASSUME NEW t \in Tasks, NEW a \in Attempts, at[t][a].pc # "free", Ends(t, a)
      PROVE  SingleFlight'
  <2>1. /\ at'[t][a] = Free
        /\ \A u \in Tasks, b \in Attempts : u # t \/ b # a => at'[u][b] = at[u][b]
    BY <1>a, <1>3, FreeAttempt, OneMoves DEF Ends
  <2>2. \A b \in Attempts : b # a => at[t][b].pc = "free"
    BY <1>3
  <2> QED  BY <1>a, <1>3, <2>1, <2>2 DEF Ends, Free
<1>4. ASSUME NEW t \in Tasks, NEW a \in Attempts, Decide(t, a) PROVE SingleFlight'
  <2>1. CASE pending' = pending
    <3>1. PICK r \in Attempt : Becomes(t, a, r)
      BY <1>4, DecideMoves
    <3>2. \A u \in Tasks, b \in Attempts : u # t \/ b # a => at'[u][b] = at[u][b]
      BY <1>a, <3>1, OneMoves
    <3>3. pending[t] = a
      BY <1>4, DecideMoves
    <3> QED  BY <2>1, <3>2, <3>3
  <2>2. CASE pending' = [pending EXCEPT ![t] = NoAttempt] /\ Becomes(t, a, Free)
    BY <1>3, <1>4, <2>2, DecideMoves DEF Ends
  <2> QED  BY <1>4, <2>1, <2>2, DecideMoves
<1>5. CASE Work
  BY <1>1, <1>2, <1>5 DEF Work, Take, SaveClassified, SaveRisk, SaveProposal, ScheduleSkipped, Commit
<1>6. CASE Failure
  <2>1. CASE Crash
    BY <2>1 DEF Crash, Free
  <2>2. CASE WorkerRaises
    BY <1>1, <2>2 DEF WorkerRaises
  <2>3. ASSUME NEW t \in Tasks, NEW a \in Attempts, AttemptRaises(t, a) PROVE SingleFlight'
    BY <1>3, <2>3 DEF AttemptRaises
  <2> QED  BY <1>6, <2>1, <2>2, <2>3 DEF Failure
<1>7. CASE Expires \/ (\E t \in Tasks : SlaWritesHash(t)) \/ \E s \in Signals : Arrive(s)
  BY <1>1, <1>7 DEF Expires, ClassifiedExpires, MarkerExpires, RiskExpires, ProposalExpires,
     SlaWritesHash, Arrive
<1>8. CASE UNCHANGED vars
  BY <1>1, <1>8 DEF vars
<1> QED  BY <1>4, <1>5, <1>6, <1>7, <1>8 DEF Next

LEMMA GuardedStep == IndInv /\ [Next]_vars => Guarded'
<1> SUFFICES ASSUME TypeOK, WorkerInv, SingleFlight, Guarded, [Next]_vars, NEW u \in Tasks
             PROVE  GuardedTask(u)'
  BY DEF IndInv, Guarded
<1>a. /\ at \in [Tasks -> [Attempts -> Attempt]]
      /\ dispatched \in [Tasks -> Nat] /\ unmarked \in [Tasks -> Nat] /\ late \in [Tasks -> Nat]
  BY DEF TypeOK
<1>b. /\ GuardedTask(u)
      /\ dispatched[u] \in Nat /\ unmarked[u] \in Nat /\ late[u] \in Nat
  BY <1>a DEF Guarded
<1>c. \A a, b \in Attempts : ~In(u, a, "free") /\ ~In(u, b, "free") => a = b
  BY DEF SingleFlight
<1> DEFINE Same == /\ \A b \in Attempts : at'[u][b] = at[u][b]
                   /\ dispatched'[u] = dispatched[u] /\ unmarked'[u] = unmarked[u]
                   /\ late'[u] = late[u]
                   /\ u \in made' <=> u \in made
                   /\ u \in renewed' <=> u \in renewed
                   /\ u \in classified' <=> u \in classified
<1> USE DEF GuardedTask, Clear, Unmarked, Deciding, Loaded, In
<1>1. ASSUME Same PROVE GuardedTask(u)'
  BY <1>b, <1>1
<1>2. CASE \E s \in Signals : Arrive(s)
  BY <1>1, <1>2 DEF Arrive, redis, outcome, history
<1>3. CASE Expires
  <2>1. ASSUME NEW t \in Tasks, ClassifiedExpires(t) PROVE GuardedTask(u)'
    BY <1>b, <2>1 DEF ClassifiedExpires, outcome, history
  <2>2. ASSUME NEW t \in Tasks, MarkerExpires(t) PROVE GuardedTask(u)'
    BY <1>b, <2>2 DEF MarkerExpires, outcome, history
  <2>3. ASSUME NEW t \in Tasks, NEW n \in Nodes \cup {NoNode}, ProposalExpires(t, n)
        PROVE  GuardedTask(u)'
    BY <1>1, <2>3 DEF ProposalExpires, outcome, history
  <2>4. ASSUME NEW t \in Tasks, RiskExpires(t) PROVE GuardedTask(u)'
    BY <1>1, <2>4 DEF RiskExpires, outcome, history
  <2> QED  BY <1>3, <2>1, <2>2, <2>3, <2>4 DEF Expires
<1>4. CASE \E t \in Tasks : SlaWritesHash(t)
  BY <1>1, <1>4 DEF SlaWritesHash, redis, outcome, history
<1>5. CASE Work
  <2>1. CASE SaveClassified
    <3>1. CASE wsig.task = u
      <4>1. late'[u] = IF dispatched[u] > 0 THEN late[u] + 1 ELSE late[u]
        BY <1>a, <2>1, <3>1 DEF SaveClassified
      <4>2. Clear(u)'
        BY <1>b, <2>1, <4>1 DEF SaveClassified, outcome
      <4>3. u \in renewed' => u \in made'
        BY <1>b, <2>1, <3>1 DEF SaveClassified
      <4> QED  BY <1>b, <2>1, <4>1, <4>2, <4>3 DEF SaveClassified, outcome
    <3>2. CASE wsig.task # u
      BY <1>1, <1>a, <2>1, <3>2 DEF SaveClassified, outcome
    <3> QED  BY <3>1, <3>2
  <2>2. ASSUME NEW a \in Attempts, ScheduleOpens(a) PROVE GuardedTask(u)'
    <3> DEFINE t == wsig.task
    <3>1. t \in Tasks
      BY <2>2, SignalTask DEF ScheduleOpens, WorkerInv
    <3>2. /\ at'[t][a] = [Free EXCEPT !.pc = "window"]
          /\ \A v \in Tasks, b \in Attempts : v # t \/ b # a => at'[v][b] = at[v][b]
      <4>1. Becomes(t, a, [Free EXCEPT !.pc = "window"])
        BY <2>2 DEF ScheduleOpens
      <4> HIDE DEF t
      <4> QED  BY <1>a, <3>1, <4>1, FreeAttempt, OneMoves
    <3>3. at[t][a].pc = "free" /\ at'[t][a].pc = "window"
      BY <2>2, <3>2 DEF ScheduleOpens, Free
    <3>4. UNCHANGED <<made, renewed, classified, dispatched, unmarked, late>>
      BY <2>2 DEF ScheduleOpens, redis, outcome, history
    <3> HIDE DEF t
    <3>5. \A b \in Attempts : \/ at'[u][b] = at[u][b]
                              \/ at[u][b].pc = "free" /\ at'[u][b].pc = "window"
      BY <3>2, <3>3
    <3> QED  BY <1>b, <3>4, <3>5
  <2>3. CASE \/ \E s \in Signals : Take(s)
             \/ SaveRisk \/ SaveProposal \/ ScheduleSkipped \/ Commit
    BY <1>1, <2>3 DEF Take, SaveRisk, SaveProposal, ScheduleSkipped, Commit, redis, outcome, history
  <2> QED  BY <1>5, <2>1, <2>2, <2>3 DEF Work
<1>6. CASE Failure
  <2>1. CASE WorkerRaises
    BY <1>1, <2>1 DEF WorkerRaises, redis, outcome, history
  <2>2. CASE Crash
    <3>1. /\ \A b \in Attempts : at'[u][b].pc = "free"
          /\ unmarked'[u] = IF Unmarked(u) THEN unmarked[u] + 1 ELSE unmarked[u]
          /\ UNCHANGED <<made, renewed, classified, dispatched, late>>
      BY <2>2 DEF Crash, Free, redis, outcome
    <3> QED  BY <1>b, <3>1
  <2>3. ASSUME NEW t \in Tasks, NEW a \in Attempts, AttemptRaises(t, a) PROVE GuardedTask(u)'
    <3>1. /\ at'[t][a] = Free
          /\ \A v \in Tasks, b \in Attempts : v # t \/ b # a => at'[v][b] = at[v][b]
      BY <1>a, <2>3, FreeAttempt, OneMoves DEF AttemptRaises, Ends
    <3>2. /\ unmarked' = IF Unmarked(t) THEN [unmarked EXCEPT ![t] = @ + 1] ELSE unmarked
          /\ UNCHANGED <<made, renewed, classified, dispatched, late>>
      BY <2>3 DEF AttemptRaises, redis, outcome
    <3>3. CASE t = u
      <4>1. \A b \in Attempts : at'[u][b].pc = "free"
        BY <1>c, <2>3, <3>1, <3>3 DEF AttemptRaises, Free
      <4>2. unmarked'[u] = IF Unmarked(u) THEN unmarked[u] + 1 ELSE unmarked[u]
        BY <1>a, <3>2, <3>3
      <4> QED  BY <1>b, <3>2, <4>1, <4>2
    <3>4. CASE t # u
      BY <1>1, <1>a, <3>1, <3>2, <3>4
    <3> QED  BY <3>3, <3>4
  <2> QED  BY <1>6, <2>1, <2>2, <2>3 DEF Failure
<1>7. ASSUME NEW t \in Tasks, NEW a \in Attempts, Decide(t, a) PROVE GuardedTask(u)'
  <2>1. PICK r \in Attempt : Becomes(t, a, r)
    BY <1>7, DecideMoves
  <2>2. /\ at'[t][a] = r
        /\ \A v \in Tasks, b \in Attempts : v # t \/ b # a => at'[v][b] = at[v][b]
    BY <1>a, <2>1, OneMoves
  <2>3. UNCHANGED <<classified, unmarked, late>>
    BY <1>7 DEF Decide, LoadMarker, LoadTask, NothingToDecide, LoadRisk, LoadRiskRaises, LoadMode,
       LoadProposals, Degrade, DegradeRaises, PublishScale, UpdateTask, UpdateHash,
       PublishDispatch, SaveDecision, SetMarker, PublishAdvisory, Decided, redis, history
  <2>4. \/ PublishDispatch(t, a) /\ dispatched' = [dispatched EXCEPT ![t] = @ + 1]
        \/ dispatched' = dispatched
    BY <1>7 DEF Decide, LoadMarker, LoadTask, NothingToDecide, LoadRisk, LoadRiskRaises, LoadMode,
       LoadProposals, Degrade, DegradeRaises, PublishScale, UpdateTask, UpdateHash,
       PublishDispatch, SaveDecision, SetMarker, PublishAdvisory, Decided, outcome
  <2>5. \/ SetMarker(t, a) /\ made' = made \cup {t} /\ renewed' = renewed \ {t}
        \/ UNCHANGED <<made, renewed>>
    BY <1>7 DEF Decide, LoadMarker, LoadTask, NothingToDecide, LoadRisk, LoadRiskRaises, LoadMode,
       LoadProposals, Degrade, DegradeRaises, PublishScale, UpdateTask, UpdateHash,
       PublishDispatch, SaveDecision, SetMarker, PublishAdvisory, Decided, redis
  <2>6. CASE t # u
    BY <1>1, <1>a, <2>2, <2>3, <2>4, <2>5, <2>6
  <2>7. CASE t = u
    <3>1. \A b \in Attempts : b # a => at[u][b].pc = "free" /\ at'[u][b].pc = "free"
      BY <1>c, <1>7, <2>2, <2>7, DecideMoves
    <3>2. at[t][a] \in Attempt
      BY <1>a
    <3> USE <1>b, <2>2, <2>3, <2>7, <3>1 DEF Goto
    <3>3. CASE LoadMarker(t, a)
      <4>1. at[u][a].pc = "window" /\ UNCHANGED <<made, renewed, dispatched>>
        BY <3>3 DEF LoadMarker, redis, outcome
      <4>2. at'[u][a].pc = "gotMarker" /\ (at'[u][a].found <=> u \in made)
        BY <3>3, Reads
      <4> QED  BY <4>1, <4>2
    <3>4. CASE LoadTask(t, a)
      <4>1. at[u][a].pc = "gotMarker" /\ ~at[u][a].found /\ UNCHANGED <<made, renewed, dispatched>>
        BY <3>4 DEF LoadTask, redis, outcome
      <4>2. at'[u][a].pc = "gotTask" /\ (at'[u][a].found <=> u \in classified)
        BY <3>4, Reads
      <4> QED  BY <4>1, <4>2
    <3>5. CASE NothingToDecide(t, a) \/ LoadRiskRaises(t, a) \/ DegradeRaises(t, a) \/ Decided(t, a)
      <4>1. /\ at'[u][a].pc = "free" /\ UNCHANGED <<made, renewed, dispatched>>
            /\ at[u][a].pc \notin {"published", "recorded"}
        BY <1>a, <3>5 DEF NothingToDecide, LoadRiskRaises, DegradeRaises, Decided, Ends, Becomes, Free, redis, outcome
      <4> QED  BY <4>1
    <3>6. CASE LoadRisk(t, a) \/ LoadMode(t, a) \/ LoadProposals(t, a) \/ Degrade(t, a)
               \/ UpdateTask(t, a) \/ UpdateHash(t, a)
      <4>1. Loaded(t, a) /\ Deciding(t, a)
        <5>1. CASE LoadRisk(t, a)
          BY <5>1 DEF LoadRisk
        <5>2. CASE ~LoadRisk(t, a)
          <6>1. at[t][a].pc \in {"gotRisk", "gotMode", "gotProposals", "candidates", "pgUpdated"}
            BY <3>6, <5>2 DEF LoadMode, LoadProposals, Degrade, UpdateTask, Choosing, UpdateHash
          <6> QED  BY <6>1
        <5> QED  BY <5>1, <5>2
      <4>2. UNCHANGED <<made, renewed, dispatched>>
        BY <3>6 DEF LoadRisk, LoadRiskRaises, LoadMode, LoadProposals, Degrade, UpdateTask, UpdateHash, redis, outcome
      <4>3. at'[u][a].pc \in {"gotRisk", "gotMode", "gotProposals", "candidates",
                              "pgUpdated", "hashUpdated"}
        <5>1. CASE LoadRisk(t, a)
          BY <1>a, <3>2, <5>1 DEF LoadRisk, Becomes, Attempt
        <5>2. CASE LoadMode(t, a)
          BY <1>a, <3>2, <5>2 DEF LoadMode, Becomes, Attempt
        <5>5. CASE LoadProposals(t, a)
          BY <1>a, <3>2, <5>5 DEF LoadProposals, Becomes, Attempt
        <5>6. CASE UpdateHash(t, a)
          BY <1>a, <3>2, <5>6 DEF UpdateHash, Becomes, Attempt
        <5>3. CASE Degrade(t, a)
          BY <1>a, <3>2, <5>3 DEF Degrade, Becomes, Attempt
        <5>4. CASE UpdateTask(t, a)
          BY <1>a, <3>2, <5>4 DEF UpdateTask, Becomes, Attempt
        <5> QED  BY <3>6, <5>1, <5>2, <5>3, <5>4, <5>5, <5>6
      <4> QED  BY <4>1, <4>2, <4>3
    <3>7. CASE PublishScale(t, a)
      <4>1. /\ at'[u][a].pc = "scaled" /\ UNCHANGED <<made, renewed, dispatched>>
            /\ Loaded(u, a)
        BY <1>a, <3>2, <3>7 DEF PublishScale, Choosing, Becomes, Attempt, redis
      <4> QED  BY <4>1
    <3>8. CASE PublishDispatch(t, a)
      <4>1. /\ at[u][a].pc = "hashUpdated" /\ at'[u][a].pc = "published"
            /\ dispatched'[u] = dispatched[u] + 1 /\ UNCHANGED <<made, renewed>>
        BY <1>a, <3>2, <3>8 DEF PublishDispatch, Becomes, Attempt, redis
      <4> QED  BY <4>1
    <3>9. CASE SaveDecision(t, a)
      <4>1. /\ at[u][a].pc = "published" /\ at'[u][a].pc = "recorded"
            /\ UNCHANGED <<made, renewed, dispatched>>
        BY <1>a, <3>2, <3>9 DEF SaveDecision, Becomes, Attempt, redis, outcome
      <4> QED  BY <4>1
    <3>10. CASE SetMarker(t, a)
      <4>1. /\ at'[u][a].pc = "marked" /\ u \in made' /\ u \notin renewed'
            /\ dispatched' = dispatched
        BY <1>a, <3>2, <3>10 DEF SetMarker, Becomes, Attempt, outcome
      <4> QED  BY <4>1
    <3>11. CASE PublishAdvisory(t, a)
      <4>1. /\ at[u][a].pc = "marked" /\ at'[u][a].pc = "advised"
            /\ UNCHANGED <<made, renewed, dispatched>>
        BY <1>a, <3>2, <3>11 DEF PublishAdvisory, Becomes, Attempt, redis, outcome
      <4> QED  BY <4>1
    <3> QED  BY <1>7, <3>3, <3>4, <3>5, <3>6, <3>7, <3>8, <3>9, <3>10, <3>11 DEF Decide
  <2> QED  BY <2>6, <2>7
<1>8. CASE UNCHANGED vars
  BY <1>1, <1>8 DEF vars, redis, outcome, history
<1> QED  BY <1>2, <1>3, <1>4, <1>5, <1>6, <1>7, <1>8 DEF Next

LEMMA Inductive == Spec => []IndInv
<1>1. IndInv /\ [Next]_vars => IndInv'
  BY TypeStep, FlightStep, GuardedStep DEF IndInv
<1> QED  BY InitInd, <1>1, PTL DEF Spec

(***************************************************************************)
(* Why a task is decided, or why it is not.                                *)
(***************************************************************************)
(* The classification of t is still to be worked off by worker().          *)
Announced(t) ==
    \E s \in Signals :
        /\ s.kind = "classified" /\ s.task = t
        /\ \/ inbox[s] > 0
           \/ wsig = s /\ wpc \in {"save", "schedule"}

(* An attempt in this state decides its task, unless it fails.             *)
Hopeful(r) ==
    \/ r.pc \in {"window", "gotRisk", "gotMode", "gotProposals", "candidates", "pgUpdated", "hashUpdated"}
    \/ r.pc = "gotMarker" /\ ~r.found
    \/ r.pc = "gotTask" /\ r.found

(* One in this state knows that its task was dispatched.                   *)
Knowing(r) ==
    \/ r.pc \in {"published", "recorded", "marked", "advised"}
    \/ r.pc = "gotMarker" /\ r.found

Excused(t) == t \in aborted \cup skipped

ReasonTask(t) ==
    /\ t \in made => dispatched[t] > 0
    /\ \A a \in Attempts :
         /\ Knowing(at[t][a]) => dispatched[t] > 0
         /\ at[t][a].pc = "scaled" => scaled[t] > 0
    /\ t \in classified =>
         \/ dispatched[t] > 0 \/ scaled[t] > 0 \/ Excused(t)
         \/ Announced(t) \/ \E a \in Attempts : Hopeful(at[t][a])

Reasons == \A t \in Tasks : ReasonTask(t)

LEMMA InitReasons == Init => Reasons
  BY DEF Init, Reasons, ReasonTask, Knowing, Free

(* What a step of one attempt must not lose.                               *)
Safely(t, a, r) ==
    /\ Becomes(t, a, r)
    /\ UNCHANGED <<classified, inbox, wsig, wpc, skipped>>
    /\ aborted \subseteq aborted'
    /\ \A u \in Tasks : /\ dispatched[u] > 0 => dispatched'[u] > 0
                        /\ scaled[u] > 0 => scaled'[u] > 0
    /\ \A u \in Tasks : u # t => (u \in made' <=> u \in made)
    /\ t \in made' /\ t \notin made => dispatched'[t] > 0
    /\ Knowing(r) => dispatched'[t] > 0
    /\ r.pc = "scaled" => scaled'[t] > 0
    /\ Hopeful(at[t][a]) /\ t \in classified =>
           Hopeful(r) \/ dispatched'[t] > 0 \/ scaled'[t] > 0 \/ t \in aborted'

LEMMA SafelyKeeps ==
    ASSUME TypeOK, Reasons, NEW t \in Tasks, NEW a \in Attempts, NEW r \in Attempt, Safely(t, a, r)
    PROVE  Reasons'
<1> SUFFICES ASSUME NEW u \in Tasks PROVE ReasonTask(u)'
  BY DEF Reasons
<1>1. /\ at'[t][a] = r
      /\ \A v \in Tasks, b \in Attempts : v # t \/ b # a => at'[v][b] = at[v][b]
  BY OneMoves DEF TypeOK, Safely
<1>2. ReasonTask(u)
  BY DEF Reasons
<1>3. /\ dispatched[u] > 0 => dispatched'[u] > 0
      /\ scaled[u] > 0 => scaled'[u] > 0
      /\ Excused(u) => Excused(u)'
      /\ u \in aborted => u \in aborted'
      /\ Announced(u) => Announced(u)'
      /\ classified' = classified
  <2>1. /\ dispatched[u] > 0 => dispatched'[u] > 0
        /\ scaled[u] > 0 => scaled'[u] > 0
        /\ aborted \subseteq aborted' /\ UNCHANGED <<classified, inbox, wsig, wpc, skipped>>
    BY DEF Safely
  <2>2. inbox' = inbox /\ wsig' = wsig /\ wpc' = wpc
    BY <2>1
  <2>3. ASSUME Announced(u) PROVE Announced(u)'
    <3>1. PICK s \in Signals : /\ s.kind = "classified" /\ s.task = u
                               /\ \/ inbox[s] > 0
                                  \/ wsig = s /\ wpc \in {"save", "schedule"}
      BY <2>3 DEF Announced
    <3> QED BY <2>2, <3>1 DEF Announced
  <2> QED BY <2>1, <2>3 DEF Excused
<1>4. CASE u # t
  <2>1. \A b \in Attempts : at'[u][b] = at[u][b]
    BY <1>1, <1>4
  <2>2. u \in made' <=> u \in made
    BY <1>4 DEF Safely
  <2> QED BY <1>2, <1>3, <2>1, <2>2 DEF ReasonTask
<1>5. CASE u = t
  <2>1. u \in made' => dispatched'[u] > 0
    BY <1>2, <1>3, <1>5 DEF Safely, ReasonTask
  <2>2. ASSUME NEW b \in Attempts
        PROVE  /\ Knowing(at'[u][b]) => dispatched'[u] > 0
               /\ at'[u][b].pc = "scaled" => scaled'[u] > 0
    <3>1. CASE b = a
      BY <1>1, <1>5, <3>1 DEF Safely
    <3>2. CASE b # a
      BY <1>1, <1>2, <1>3, <1>5, <3>2 DEF ReasonTask
    <3> QED BY <3>1, <3>2
  <2>4. ASSUME u \in classified
        PROVE  \/ dispatched'[u] > 0 \/ scaled'[u] > 0 \/ Excused(u)'
               \/ Announced(u)' \/ \E b \in Attempts : Hopeful(at'[u][b])
    <3>1. CASE \E b \in Attempts : Hopeful(at[u][b])
      <4>1. PICK b \in Attempts : Hopeful(at[u][b])
        BY <3>1
      <4>2. CASE b = a
        BY <1>1, <1>5, <2>4, <4>1, <4>2 DEF Safely, Excused
      <4>3. CASE b # a
        BY <1>1, <1>5, <4>1, <4>3
      <4> QED BY <4>2, <4>3
    <3>2. CASE dispatched[u] > 0 \/ scaled[u] > 0 \/ Excused(u) \/ Announced(u)
      BY <1>3, <3>2
    <3> QED BY <1>2, <2>4, <3>1, <3>2 DEF ReasonTask
  <2> QED BY <1>3, <2>1, <2>2, <2>4 DEF ReasonTask
<1> QED BY <1>4, <1>5

LEMMA DecideSafely ==
    ASSUME TypeOK, Reasons, NEW t \in Tasks, NEW a \in Attempts, Decide(t, a)
    PROVE  \E r \in Attempt : Safely(t, a, r)
<1> USE DEF In, Goto, Safely, Hopeful, Knowing
<1>a. /\ at[t][a] \in Attempt
      /\ dispatched \in [Tasks -> Nat] /\ scaled \in [Tasks -> Nat]
      /\ Knowing(at[t][a]) => dispatched[t] > 0
      /\ at[t][a].pc = "scaled" => scaled[t] > 0
      /\ t \in made => dispatched[t] > 0
  BY DEF TypeOK, Reasons, ReasonTask
<1>b. PICK r \in Attempt : Becomes(t, a, r)
  BY DecideMoves
<1>c. at'[t][a] = r
  BY <1>b, OneMoves DEF TypeOK
<1>d. at \in [Tasks -> [Attempts -> Attempt]] /\ r = at'[t][a]
  BY <1>c DEF TypeOK
<1> SUFFICES Safely(t, a, r)
  OBVIOUS
<1>1. CASE LoadMarker(t, a)
  <2>1. at[t][a].pc = "window"
    BY <1>1 DEF LoadMarker
  <2>2. r.pc = "gotMarker" /\ (r.found <=> t \in made)
    BY <1>c, <1>1, Reads
  <2>3. UNCHANGED <<classified, inbox, wsig, wpc, skipped, aborted, dispatched, scaled, made>>
    BY <1>1 DEF LoadMarker, worker, redis, outcome, history
  <2> QED BY <1>a, <1>b, <2>1, <2>2, <2>3
<1>2. CASE LoadTask(t, a)
  <2>1. at[t][a].pc = "gotMarker" /\ ~at[t][a].found
    BY <1>2 DEF LoadTask
  <2>2. r.pc = "gotTask" /\ (r.found <=> t \in classified)
    BY <1>c, <1>2, Reads
  <2>3. UNCHANGED <<classified, inbox, wsig, wpc, skipped, aborted, dispatched, scaled, made>>
    BY <1>2 DEF LoadTask, worker, redis, outcome, history
  <2> QED BY <1>a, <1>b, <2>1, <2>2, <2>3
<1>3. CASE NothingToDecide(t, a) \/ Decided(t, a)
  <2>1. r = Free
    BY <1>c, <1>3, FreeAttempt, OneMoves DEF NothingToDecide, Decided, Ends, TypeOK
  <2>2. UNCHANGED <<classified, inbox, wsig, wpc, skipped, aborted, dispatched, scaled, made>>
    BY <1>3 DEF NothingToDecide, Decided, worker, redis, outcome, history
  <2>3. ~Hopeful(at[t][a])
    BY <1>3 DEF NothingToDecide, Decided
  <2> QED BY <1>a, <1>b, <2>1, <2>2, <2>3 DEF Free
<1>4. CASE LoadRiskRaises(t, a) \/ DegradeRaises(t, a)
  <2>1. r = Free
    BY <1>c, <1>4, FreeAttempt, OneMoves DEF LoadRiskRaises, DegradeRaises, Ends, TypeOK
  <2>2. /\ UNCHANGED <<classified, inbox, wsig, wpc, skipped, dispatched, scaled, made>>
        /\ aborted' = aborted \cup {t}
    BY <1>4 DEF LoadRiskRaises, DegradeRaises, worker, redis, outcome
  <2> QED BY <1>a, <1>b, <2>1, <2>2 DEF Free
<1>5. CASE LoadRisk(t, a) \/ LoadMode(t, a) \/ LoadProposals(t, a) \/ Degrade(t, a)
  <2>1. r.pc \in {"gotRisk", "gotMode", "gotProposals", "candidates"}
    <3>1. CASE LoadRisk(t, a)
      BY <1>a, <1>d, <3>1 DEF LoadRisk, Becomes, Attempt
    <3>2. CASE LoadMode(t, a)
      BY <1>a, <1>d, <3>2 DEF LoadMode, Becomes, Attempt
    <3>3. CASE LoadProposals(t, a)
      BY <1>a, <1>d, <3>3 DEF LoadProposals, Becomes, Attempt
    <3>4. CASE Degrade(t, a)
      BY <1>a, <1>d, <3>4 DEF Degrade, Becomes, Attempt
    <3> QED BY <1>5, <3>1, <3>2, <3>3, <3>4
  <2>2. UNCHANGED <<classified, inbox, wsig, wpc, skipped, aborted, dispatched, scaled, made>>
    BY <1>5 DEF LoadRisk, LoadMode, LoadProposals, Degrade, worker, redis, outcome, history
  <2> QED BY <1>a, <1>b, <2>1, <2>2
<1>6. CASE PublishScale(t, a)
  <2>1. r.pc = "scaled" /\ at[t][a].pc \in {"gotProposals", "candidates"}
    BY <1>a, <1>c, <1>6 DEF PublishScale, Choosing, Becomes, Attempt, TypeOK
  <2>2. /\ UNCHANGED <<classified, inbox, wsig, wpc, skipped, aborted, dispatched, made>>
        /\ scaled' = [scaled EXCEPT ![t] = @ + 1]
    BY <1>6 DEF PublishScale, worker, redis, history
  <2>3. scaled'[t] > 0 /\ \A u \in Tasks : scaled[u] > 0 => scaled'[u] > 0
    BY <1>a, <2>2
  <2> QED BY <1>a, <1>b, <2>1, <2>2, <2>3
<1>7. CASE UpdateTask(t, a) \/ UpdateHash(t, a)
  <2>1. r.pc \in {"pgUpdated", "hashUpdated"} /\ at[t][a].pc \in {"gotProposals", "candidates", "pgUpdated"}
    <3>1. CASE UpdateTask(t, a)
      BY <1>a, <1>d, <3>1 DEF UpdateTask, Choosing, Becomes, Attempt
    <3>2. CASE UpdateHash(t, a)
      BY <1>a, <1>d, <3>2 DEF UpdateHash, Becomes, Attempt
    <3> QED BY <1>7, <3>1, <3>2
  <2>2. UNCHANGED <<classified, inbox, wsig, wpc, skipped, aborted, dispatched, scaled, made>>
    BY <1>7 DEF UpdateTask, UpdateHash, worker, redis, outcome, history
  <2> QED BY <1>a, <1>b, <2>1, <2>2
<1>8. CASE PublishDispatch(t, a)
  <2>1. r.pc = "published" /\ at[t][a].pc = "hashUpdated"
    BY <1>a, <1>c, <1>8 DEF PublishDispatch, Becomes, Attempt, TypeOK
  <2>2. /\ UNCHANGED <<classified, inbox, wsig, wpc, skipped, aborted, scaled, made>>
        /\ dispatched' = [dispatched EXCEPT ![t] = @ + 1]
    BY <1>8 DEF PublishDispatch, worker, redis, history
  <2> QED BY <1>a, <1>b, <2>1, <2>2
<1>9. CASE SaveDecision(t, a) \/ SetMarker(t, a) \/ PublishAdvisory(t, a)
  <2>1. r.pc \in {"recorded", "marked", "advised"} /\ at[t][a].pc \in {"published", "recorded", "marked"}
    BY <1>a, <1>c, <1>9 DEF SaveDecision, SetMarker, PublishAdvisory, Becomes, Attempt, TypeOK
  <2>2. /\ UNCHANGED <<classified, inbox, wsig, wpc, skipped, aborted, dispatched, scaled>>
        /\ made' = made \/ made' = made \cup {t}
    BY <1>9 DEF SaveDecision, SetMarker, PublishAdvisory, worker, redis, outcome, history
  <2> QED BY <1>a, <1>b, <2>1, <2>2
<1> QED BY <1>1, <1>2, <1>3, <1>4, <1>5, <1>6, <1>7, <1>8, <1>9 DEF Decide

(* Every variable stays in its range, for any number of tasks and nodes.   *)
THEOREM TypeCorrect == Spec => []TypeOK
  BY Inductive, PTL DEF IndInv

(* pending_decisions keeps one attempt per task.                           *)
THEOREM OneAttemptPerTask == Spec => []SingleFlight
  BY Inductive, PTL DEF IndInv

(* No second dispatch without a lost marker or a new classification.       *)
THEOREM NoDuplicateDispatch == Spec => []NoUnexplainedRedispatch
<1>1. IndInv => NoUnexplainedRedispatch
  BY DEF IndInv, Guarded, GuardedTask, NoUnexplainedRedispatch
<1> QED  BY <1>1, Inductive, PTL

(* A dispatched task is not scaled for and requeued by a later decision,   *)
(* but for the same reasons.                                               *)
THEOREM Finality == Spec => DecisionIsFinal
<1> DEFINE Final == \A t \in Tasks : scaled'[t] > scaled[t] /\ dispatched[t] > 0
                                       => unmarked[t] + late[t] > 0
<1>1. IndInv /\ [Next]_vars => [Final]_vars
  <2> SUFFICES ASSUME IndInv, Next, NEW u \in Tasks, scaled'[u] > scaled[u], dispatched[u] > 0
               PROVE  unmarked[u] + late[u] > 0
    OBVIOUS
  <2>a. /\ scaled \in [Tasks -> Nat] /\ dispatched \in [Tasks -> Nat]
        /\ unmarked \in [Tasks -> Nat] /\ late \in [Tasks -> Nat]
    BY DEF IndInv, TypeOK
  <2>1. scaled' # scaled
    BY <2>a
  <2>b. \E t \in Tasks, a \in Attempts : Decide(t, a)
    <3>1. ~(\E s \in Signals : Arrive(s)) /\ ~Expires /\ ~(\E t \in Tasks : SlaWritesHash(t))
      BY <2>1 DEF Arrive, Expires, ClassifiedExpires, MarkerExpires, RiskExpires, ProposalExpires,
         SlaWritesHash, outcome
    <3>2. ~Work
      BY <2>1 DEF Work, Take, SaveClassified, SaveRisk, SaveProposal, ScheduleSkipped,
         ScheduleOpens, Commit, outcome
    <3>3. ~Failure
      BY <2>1 DEF Failure, WorkerRaises, Crash, AttemptRaises, outcome
    <3> QED  BY <3>1, <3>2, <3>3 DEF Next
  <2>c. PICK t \in Tasks, a \in Attempts : Decide(t, a)
    BY <2>b
  <2>2. PublishScale(t, a)
    BY <2>1, <2>c DEF Decide, LoadMarker, LoadTask, NothingToDecide, LoadRisk, LoadRiskRaises, LoadMode,
       LoadProposals, Degrade, DegradeRaises, UpdateTask, UpdateHash, PublishDispatch,
       SaveDecision, SetMarker, PublishAdvisory, Decided, outcome
  <2>3. t = u
    BY <2>a, <2>2 DEF PublishScale
  <2>4. Clear(u)
    BY <2>2, <2>3 DEF PublishScale, Choosing, In, IndInv, Guarded, GuardedTask, Loaded
  <2> QED  BY <2>a, <2>4 DEF Clear
<1> QED  BY <1>1, Inductive, PTL DEF Spec, DecisionIsFinal

(* A step of the surroundings, which decides nothing.                      *)
LEMMA ReasonsKept ==
    ASSUME TypeOK, Reasons, UNCHANGED <<at, dispatched, scaled, aborted, wsig, wpc>>,
           made' \subseteq made, classified' \subseteq classified, skipped' = skipped,
           \A s \in Signals : inbox[s] > 0 => inbox'[s] > 0
    PROVE  Reasons'
<1> SUFFICES ASSUME NEW t \in Tasks PROVE ReasonTask(t)'
  BY DEF Reasons
<1>1. ReasonTask(t)
  BY DEF Reasons
<1>2. ASSUME Announced(t) PROVE Announced(t)'
  BY <1>2 DEF Announced
<1>3. Excused(t) => Excused(t)'
  BY DEF Excused
<1> QED BY <1>1, <1>2, <1>3 DEF ReasonTask

LEMMA WorkReasons ==
    ASSUME TypeOK, WorkerInv, SingleFlight, Reasons, Work
    PROVE  Reasons'
<1> SUFFICES ASSUME NEW t \in Tasks PROVE ReasonTask(t)'
  BY DEF Reasons
<1>a. ReasonTask(t)
  BY DEF Reasons
<1>b. at \in [Tasks -> [Attempts -> Attempt]] /\ inbox \in [Signals -> Nat]
  BY DEF TypeOK
<1>0. ASSUME UNCHANGED <<at, dispatched, scaled, aborted, skipped, made, classified>>,
             Announced(t) => Announced(t)'
      PROVE  ReasonTask(t)'
  <2>1. Excused(t) => Excused(t)'
    BY <1>0 DEF Excused
  <2> QED BY <1>a, <1>0, <2>1 DEF ReasonTask
<1>1. ASSUME NEW s \in Signals, Take(s) PROVE ReasonTask(t)'
  <2>1. /\ wpc = "idle" /\ inbox' = [inbox EXCEPT ![s] = @ - 1] /\ wsig' = s
        /\ s.kind # "other" => wpc' = "save"
        /\ UNCHANGED <<at, dispatched, scaled, aborted, skipped, made, classified>>
    BY <1>1 DEF Take, redis, outcome, history
  <2>2. ASSUME Announced(t) PROVE Announced(t)'
    <3>1. PICK u \in Signals : u.kind = "classified" /\ u.task = t /\ inbox[u] > 0
      BY <2>1, <2>2 DEF Announced
    <3>2. CASE u = s
      BY <2>1, <3>1, <3>2 DEF Announced
    <3>3. CASE u # s
      <4>1. inbox'[u] = inbox[u]
        BY <1>b, <2>1, <3>3
      <4> QED BY <3>1, <4>1 DEF Announced
    <3> QED BY <3>2, <3>3
  <2> QED BY <1>0, <2>1, <2>2
<1>2. CASE SaveClassified
  <2>1. /\ wsig \in Signals /\ wsig.kind = "classified" /\ wpc' = "schedule" /\ wsig' = wsig
        /\ classified' = classified \cup {wsig.task}
        /\ UNCHANGED <<inbox, at, dispatched, scaled, aborted, skipped, made>>
    BY <1>2 DEF SaveClassified, WorkerInv, outcome, history
  <2>2. CASE wsig.task = t
    <3>1. Announced(t)'
      BY <2>1, <2>2 DEF Announced
    <3> QED BY <1>a, <2>1, <3>1 DEF ReasonTask
  <2>3. CASE wsig.task # t
    <3>1. Announced(t) => Announced(t)'
      BY <2>1, <2>3 DEF Announced
    <3>2. Excused(t) => Excused(t)'
      BY <2>1 DEF Excused
    <3>3. t \in classified' => t \in classified
      BY <2>1, <2>3
    <3> QED BY <1>a, <2>1, <3>1, <3>2, <3>3 DEF ReasonTask
  <2> QED BY <2>2, <2>3
<1>3. CASE SaveRisk \/ SaveProposal
  <2>1. /\ wsig.kind # "classified" /\ wpc' = "schedule" /\ UNCHANGED <<inbox, wsig>>
        /\ UNCHANGED <<at, dispatched, scaled, aborted, skipped, made, classified>>
    BY <1>3 DEF SaveRisk, SaveProposal, outcome, history
  <2>2. Announced(t) => Announced(t)'
    BY <2>1 DEF Announced
  <2> QED BY <1>0, <2>1, <2>2
<1>4. CASE Commit
  <2>1. /\ wpc = "commit" /\ inbox' = inbox
        /\ UNCHANGED <<at, dispatched, scaled, aborted, skipped, made, classified>>
    BY <1>4 DEF Commit, redis, outcome, history
  <2>2. Announced(t) => Announced(t)'
    BY <2>1 DEF Announced
  <2> QED BY <1>0, <2>1, <2>2
(* The classification finds an attempt under way: it will still be read,   *)
(* or the task is dispatched already, or it was missed.                    *)
<1>5. CASE ScheduleSkipped
  <2>1. /\ wpc = "schedule" /\ IsPending(wsig.task) /\ wpc' = "commit" /\ UNCHANGED <<inbox, wsig>>
        /\ skipped' = IF wsig.kind = "classified" /\ Missed(wsig.task)
                      THEN skipped \cup {wsig.task} ELSE skipped
        /\ UNCHANGED <<at, dispatched, scaled, aborted, made, classified>>
    BY <1>5 DEF ScheduleSkipped, redis, outcome
  <2>2. CASE wsig.kind = "classified" /\ wsig.task = t
    <3>1. PICK a \in Attempts : ~In(t, a, "free")
      BY <2>1, <2>2 DEF IsPending
    <3>2. \/ Hopeful(at[t][a]) \/ Knowing(at[t][a]) \/ at[t][a].pc = "scaled"
          \/ at[t][a].pc = "gotTask" /\ ~at[t][a].found
      <4>1. at[t][a].pc \in Points
        BY <1>b DEF Attempt
      <4> QED BY <3>1, <4>1 DEF In, Points, Hopeful, Knowing
    <3>3. CASE at[t][a].pc = "gotTask" /\ ~at[t][a].found
      <4>1. Missed(t)
        BY <3>3 DEF Missed, In
      <4>2. Excused(t)'
        BY <2>1, <2>2, <4>1 DEF Excused
      <4> QED BY <1>a, <2>1, <4>2 DEF ReasonTask
    <3>4. CASE Hopeful(at[t][a]) \/ Knowing(at[t][a]) \/ at[t][a].pc = "scaled"
      <4>1. dispatched[t] > 0 \/ scaled[t] > 0 \/ \E b \in Attempts : Hopeful(at[t][b])
        BY <1>a, <3>4 DEF ReasonTask
      <4> QED BY <1>a, <2>1, <4>1 DEF ReasonTask
    <3> QED BY <3>2, <3>3, <3>4
  <2>3. CASE ~(wsig.kind = "classified" /\ wsig.task = t)
    <3>1. Announced(t) => Announced(t)'
      BY <2>1, <2>3 DEF Announced
    <3>2. Excused(t) => Excused(t)'
      BY <2>1 DEF Excused
    <3> QED BY <1>a, <2>1, <3>1, <3>2 DEF ReasonTask
  <2> QED BY <2>2, <2>3
<1>6. ASSUME NEW a \in Attempts, ScheduleOpens(a) PROVE ReasonTask(t)'
  <2> DEFINE u == wsig.task
             opened == [Free EXCEPT !.pc = "window"]
  <2>1. /\ u \in Tasks /\ In(u, a, "free") /\ Becomes(u, a, opened)
        /\ wpc = "schedule" /\ wpc' = "commit" /\ UNCHANGED <<inbox, wsig>>
        /\ UNCHANGED <<dispatched, scaled, aborted, skipped, made, classified>>
    BY <1>6, SignalTask DEF ScheduleOpens, WorkerInv, redis, outcome, history
  <2>2. opened \in Attempt /\ opened.pc = "window"
    BY FreeAttempt DEF Free
  <2>3. Hopeful(opened) /\ ~Knowing(opened)
    BY <2>2 DEF Hopeful, Knowing
  <2>4. ASSUME Announced(t), u # t PROVE Announced(t)'
    BY <2>1, <2>4 DEF Announced
  <2>5. (Excused(t) => Excused(t)') /\ ~Hopeful(at[u][a])
    BY <2>1 DEF Excused, Hopeful, In
  <2> HIDE DEF u, opened
  <2>6. /\ at'[u][a] = opened
        /\ \A v \in Tasks, b \in Attempts : v # u \/ b # a => at'[v][b] = at[v][b]
    BY <1>b, <2>1, <2>2, OneMoves
  <2>7. CASE u = t
    <3>1. \E b \in Attempts : Hopeful(at'[t][b])
      BY <2>3, <2>6, <2>7
    <3>2. \A b \in Attempts : /\ Knowing(at'[t][b]) => dispatched[t] > 0
                              /\ at'[t][b].pc = "scaled" => scaled[t] > 0
      BY <1>a, <2>2, <2>3, <2>6, <2>7 DEF ReasonTask
    <3> QED BY <1>a, <2>1, <3>1, <3>2 DEF ReasonTask
  <2>8. CASE u # t
    <3>1. \A b \in Attempts : at'[t][b] = at[t][b]
      BY <2>6, <2>8
    <3> QED BY <1>a, <2>1, <2>4, <2>5, <2>8, <3>1 DEF ReasonTask
  <2> QED BY <2>7, <2>8
<1> QED BY <1>1, <1>2, <1>3, <1>4, <1>5, <1>6 DEF Work

LEMMA FailureReasons ==
    ASSUME TypeOK, WorkerInv, Reasons, Failure
    PROVE  Reasons'
<1>b. /\ at \in [Tasks -> [Attempts -> Attempt]] /\ inbox \in [Signals -> Nat]
      /\ wsig \in Signals \cup {NoSignal}
  BY DEF TypeOK
<1>1. CASE WorkerRaises \/ Crash
  <2>1. \/ wsig = NoSignal /\ inbox' = inbox
        \/ wsig \in Signals /\ inbox' = [inbox EXCEPT ![wsig] = @ + 1]
    BY <1>1, <1>b DEF WorkerRaises, Crash, WorkerInv
  <2>2. \A s \in Signals : inbox[s] > 0 \/ wsig = s => inbox'[s] > 0
    BY <1>b, <2>1, NoSignalAssumption
  <2>3. \A t \in Tasks : Announced(t) => Announced(t)'
    BY <2>2 DEF Announced
  <2>4. /\ UNCHANGED <<dispatched, scaled, skipped, made, classified>>
        /\ aborted \subseteq aborted'
    BY <1>1 DEF WorkerRaises, Crash, redis, outcome, history
  <2>5. \/ UNCHANGED at
        \/ \A t \in Tasks, a \in Attempts : /\ at'[t][a] = Free
                                            /\ at[t][a].pc # "free" => t \in aborted'
    BY <1>1 DEF WorkerRaises, Crash, In
  <2> SUFFICES ASSUME NEW t \in Tasks PROVE ReasonTask(t)'
    BY DEF Reasons
  <2>6. ReasonTask(t) /\ (Excused(t) => Excused(t)')
    BY <2>4 DEF Reasons, Excused
  <2>7. CASE UNCHANGED at
    BY <2>3, <2>4, <2>6, <2>7 DEF ReasonTask
  <2>8. CASE \A a \in Attempts : /\ at'[t][a] = Free
                                 /\ at[t][a].pc # "free" => t \in aborted'
    <3>1. \A a \in Attempts : ~Knowing(at'[t][a]) /\ at'[t][a].pc # "scaled"
      BY <2>8 DEF Knowing, Free
    <3>2. \A a \in Attempts : Hopeful(at[t][a]) => t \in aborted'
      BY <2>8 DEF Hopeful
    <3> QED BY <2>3, <2>4, <2>6, <3>1, <3>2 DEF ReasonTask, Excused
  <2> QED BY <2>5, <2>7, <2>8
<1>2. ASSUME NEW t \in Tasks, NEW a \in Attempts, AttemptRaises(t, a) PROVE Reasons'
  <2>1. Safely(t, a, Free)
    BY <1>2 DEF AttemptRaises, Ends, worker, redis, outcome, Safely, Free, Knowing
  <2> QED BY <2>1, FreeAttempt, SafelyKeeps
<1> QED BY <1>1, <1>2 DEF Failure

LEMMA ReasonsStep ==
    ASSUME TypeOK, WorkerInv, SingleFlight, Reasons, [Next]_vars
    PROVE  Reasons'
<1>1. ASSUME NEW s \in Signals, Arrive(s) PROVE Reasons'
  <2>1. /\ inbox' = [inbox EXCEPT ![s] = @ + 1] /\ inbox \in [Signals -> Nat]
        /\ UNCHANGED <<worker, redis, at, outcome, history>>
    BY <1>1 DEF Arrive, TypeOK
  <2>2. \A u \in Signals : inbox[u] > 0 => inbox'[u] > 0
    BY <2>1
  <2> QED BY <2>1, <2>2, ReasonsKept DEF worker, redis, outcome, history
<1>2. CASE Expires \/ \E t \in Tasks : SlaWritesHash(t)
  BY <1>2, ReasonsKept DEF Expires, ClassifiedExpires, MarkerExpires, RiskExpires, ProposalExpires,
     SlaWritesHash, worker, redis, outcome, history
<1>3. CASE UNCHANGED vars
  BY <1>3, ReasonsKept DEF vars, worker, redis, outcome, history
<1>4. ASSUME NEW t \in Tasks, NEW a \in Attempts, Decide(t, a) PROVE Reasons'
  BY <1>4, DecideSafely, SafelyKeeps
<1> QED BY <1>1, <1>2, <1>3, <1>4, WorkReasons, FailureReasons DEF Next

LEMMA ReasonsHold == Spec => []Reasons
<1>1. IndInv /\ Reasons /\ [Next]_vars => Reasons'
  BY ReasonsStep DEF IndInv
<1> QED  BY InitReasons, Inductive, <1>1, PTL DEF Spec

(***************************************************************************)
(* Every update has its event.                                             *)
(***************************************************************************)
(* An attempt in this state has set the row and sent nothing.              *)
Halfway(r) == r.pc \in {"pgUpdated", "hashUpdated"}

LEMMA InitAccount == Init => DispatchedHasEvent
  BY DEF Init, DispatchedHasEvent, Recording, In, Free, Zero

(* Only the counters and who is halfway matter.                            *)
LEMMA AccountKept ==
    ASSUME TypeOK, DispatchedHasEvent, UNCHANGED <<updated, dispatched, unsent>>,
           \A t \in Tasks, a \in Attempts : Halfway(at'[t][a]) <=> Halfway(at[t][a])
    PROVE  DispatchedHasEvent'
  BY DEF DispatchedHasEvent, Recording, In, Halfway

(* A step of attempt a of t, the only one of t that is not free, keeps the *)
(* account if it balances for t.                                           *)
LEMMA AccountMoves ==
    ASSUME TypeOK, SingleFlight, DispatchedHasEvent,
           NEW t \in Tasks, NEW a \in Attempts, NEW r \in Attempt,
           Becomes(t, a, r), at[t][a].pc # "free",
           \A u \in Tasks : u # t => /\ updated'[u] = updated[u]
                                     /\ dispatched'[u] = dispatched[u]
                                     /\ unsent'[u] = unsent[u],
           updated[t] = dispatched[t] + unsent[t] + (IF Halfway(at[t][a]) THEN 1 ELSE 0) =>
             updated'[t] = dispatched'[t] + unsent'[t] + (IF Halfway(r) THEN 1 ELSE 0)
    PROVE  DispatchedHasEvent'
<1>1. /\ at'[t][a] = r
      /\ \A u \in Tasks, b \in Attempts : u # t \/ b # a => at'[u][b] = at[u][b]
  BY OneMoves DEF TypeOK
<1>2. \A b \in Attempts : b # a => at[t][b].pc = "free"
  BY DEF SingleFlight, In
<1>3. Recording(t) <=> Halfway(at[t][a])
  BY <1>2 DEF Recording, In, Halfway
<1>4. Recording(t)' <=> Halfway(r)
  BY <1>1, <1>2 DEF Recording, In, Halfway
<1>5. \A u \in Tasks : u # t => (Recording(u)' <=> Recording(u))
  BY <1>1 DEF Recording, In
<1>6. updated[t] = dispatched[t] + unsent[t] + (IF Halfway(at[t][a]) THEN 1 ELSE 0)
  BY <1>3 DEF DispatchedHasEvent
<1>7. updated'[t] = dispatched'[t] + unsent'[t] + (IF Recording(t)' THEN 1 ELSE 0)
  BY <1>4, <1>6
<1>8. ASSUME NEW u \in Tasks, u # t
      PROVE  updated'[u] = dispatched'[u] + unsent'[u] + (IF Recording(u)' THEN 1 ELSE 0)
  BY <1>5, <1>8 DEF DispatchedHasEvent
<1> QED  BY <1>7, <1>8 DEF DispatchedHasEvent

LEMMA DecideAccount ==
    ASSUME TypeOK, SingleFlight, DispatchedHasEvent,
           NEW t \in Tasks, NEW a \in Attempts, Decide(t, a)
    PROVE  DispatchedHasEvent'
<1> USE DEF In, Goto
<1>a. PICK r \in Attempt : Becomes(t, a, r)
  BY DecideMoves
<1>b. r = at'[t][a] /\ at[t][a] \in Attempt /\ at \in [Tasks -> [Attempts -> Attempt]]
  BY <1>a, OneMoves DEF TypeOK
<1>c. at[t][a].pc # "free"
  BY DecideMoves
<1>d. /\ updated \in [Tasks -> Nat] /\ dispatched \in [Tasks -> Nat]
      /\ unsent \in [Tasks -> Nat]
  BY DEF TypeOK
<1>1. CASE UpdateTask(t, a)
  <2>a. r.pc = "pgUpdated" /\ at[t][a].pc \in {"gotProposals", "candidates"}
    BY <1>b, <1>1 DEF UpdateTask, Choosing, Becomes, Attempt
  <2>1. Halfway(r) /\ ~Halfway(at[t][a])
    BY <2>a DEF Halfway
  <2>2. updated' = [updated EXCEPT ![t] = @ + 1] /\ UNCHANGED <<dispatched, unsent>>
    BY <1>1 DEF UpdateTask, history
  <2> QED  BY <1>a, <1>c, <1>d, <2>1, <2>2, AccountMoves
<1>2. CASE PublishDispatch(t, a)
  <2>1. ~Halfway(r) /\ Halfway(at[t][a])
    BY <1>b, <1>2 DEF PublishDispatch, Becomes, Attempt, Halfway
  <2>2. dispatched' = [dispatched EXCEPT ![t] = @ + 1] /\ UNCHANGED <<updated, unsent>>
    BY <1>2 DEF PublishDispatch, history
  <2> QED  BY <1>a, <1>c, <1>d, <2>1, <2>2, AccountMoves
<1>3. CASE UpdateHash(t, a)
  <2>1. Halfway(r) /\ Halfway(at[t][a])
    BY <1>b, <1>3 DEF UpdateHash, Becomes, Attempt, Halfway
  <2>2. UNCHANGED <<updated, dispatched, unsent>>
    BY <1>3 DEF UpdateHash, outcome, history
  <2> QED  BY <1>a, <1>c, <2>1, <2>2, AccountMoves
<1>4. CASE NothingToDecide(t, a) \/ LoadRiskRaises(t, a) \/ DegradeRaises(t, a) \/ Decided(t, a)
  <2>1. ~Halfway(r) /\ ~Halfway(at[t][a])
    BY <1>b, <1>4, FreeAttempt DEF NothingToDecide, LoadRiskRaises, DegradeRaises, Decided, Ends,
       Becomes, Free, Halfway
  <2>2. UNCHANGED <<updated, dispatched, unsent>>
    BY <1>4 DEF NothingToDecide, LoadRiskRaises, DegradeRaises, Decided, outcome, history
  <2> QED  BY <1>a, <1>c, <2>1, <2>2, AccountMoves
<1>5. CASE LoadMarker(t, a) \/ LoadTask(t, a)
  <2>1. ~Halfway(r) /\ ~Halfway(at[t][a])
    BY <1>b, <1>5, Reads DEF LoadMarker, LoadTask, Halfway
  <2>2. UNCHANGED <<updated, dispatched, unsent>>
    BY <1>5 DEF LoadMarker, LoadTask, outcome, history
  <2> QED  BY <1>a, <1>c, <2>1, <2>2, AccountMoves
<1>6. CASE LoadRisk(t, a) \/ LoadMode(t, a) \/ LoadProposals(t, a) \/ Degrade(t, a)
  <2>a. /\ r.pc \in {"gotRisk", "gotMode", "gotProposals", "candidates"}
        /\ at[t][a].pc \in {"gotTask", "gotRisk", "gotMode", "gotProposals"}
    <3>1. CASE LoadRisk(t, a)
      BY <1>b, <3>1 DEF LoadRisk, Becomes, Attempt
    <3>2. CASE LoadMode(t, a)
      BY <1>b, <3>2 DEF LoadMode, Becomes, Attempt
    <3>3. CASE LoadProposals(t, a)
      BY <1>b, <3>3 DEF LoadProposals, Becomes, Attempt
    <3>4. CASE Degrade(t, a)
      BY <1>b, <3>4 DEF Degrade, Becomes, Attempt
    <3> QED  BY <1>6, <3>1, <3>2, <3>3, <3>4
  <2>1. ~Halfway(r) /\ ~Halfway(at[t][a])
    BY <2>a DEF Halfway
  <2>2. UNCHANGED <<updated, dispatched, unsent>>
    BY <1>6 DEF LoadRisk, LoadMode, LoadProposals, Degrade, outcome, history
  <2> QED  BY <1>a, <1>c, <2>1, <2>2, AccountMoves
<1>7. CASE PublishScale(t, a) \/ SaveDecision(t, a) \/ SetMarker(t, a) \/ PublishAdvisory(t, a)
  <2>1. ~Halfway(r) /\ ~Halfway(at[t][a])
    BY <1>b, <1>7 DEF PublishScale, SaveDecision, SetMarker, PublishAdvisory, Choosing, Becomes,
       Attempt, Halfway
  <2>2. UNCHANGED <<updated, dispatched, unsent>>
    BY <1>7 DEF PublishScale, SaveDecision, SetMarker, PublishAdvisory, outcome, history
  <2> QED  BY <1>a, <1>c, <2>1, <2>2, AccountMoves
<1> QED  BY <1>1, <1>2, <1>3, <1>4, <1>5, <1>6, <1>7 DEF Decide

LEMMA FailureAccount ==
    ASSUME TypeOK, SingleFlight, DispatchedHasEvent, Failure
    PROVE  DispatchedHasEvent'
<1>d. /\ updated \in [Tasks -> Nat] /\ dispatched \in [Tasks -> Nat]
      /\ unsent \in [Tasks -> Nat]
  BY DEF TypeOK
<1>1. CASE WorkerRaises
  <2>1. UNCHANGED <<at, updated, dispatched, unsent>>
    BY <1>1 DEF WorkerRaises, outcome, history
  <2> QED  BY <2>1, AccountKept
<1>2. CASE Crash
  <2>1. /\ UNCHANGED <<updated, dispatched>>
        /\ unsent' = [t \in Tasks |-> IF Recording(t) THEN unsent[t] + 1 ELSE unsent[t]]
        /\ at' = [t \in Tasks |-> [a \in Attempts |-> Free]]
    BY <1>2 DEF Crash, outcome
  <2>2. \A t \in Tasks : ~Recording(t)'
    BY <2>1 DEF Recording, In, Free
  <2>3. ASSUME NEW t \in Tasks
        PROVE  updated'[t] = dispatched'[t] + unsent'[t] + (IF Recording(t)' THEN 1 ELSE 0)
    <3>1. updated[t] = dispatched[t] + unsent[t] + (IF Recording(t) THEN 1 ELSE 0)
      BY DEF DispatchedHasEvent
    <3>2. unsent'[t] = unsent[t] + (IF Recording(t) THEN 1 ELSE 0)
      BY <1>d, <2>1
    <3> QED  BY <1>d, <2>1, <2>2, <3>1, <3>2
  <2> QED  BY <2>3 DEF DispatchedHasEvent
<1>3. ASSUME NEW t \in Tasks, NEW a \in Attempts, AttemptRaises(t, a) PROVE DispatchedHasEvent'
  <2>1. /\ at[t][a].pc # "free" /\ Becomes(t, a, Free) /\ UNCHANGED <<updated, dispatched>>
        /\ unsent' = IF Recording(t) THEN [unsent EXCEPT ![t] = @ + 1] ELSE unsent
    BY <1>3 DEF AttemptRaises, Ends, In, outcome
  <2>2. Recording(t) <=> Halfway(at[t][a])
    BY <2>1 DEF SingleFlight, Recording, In, Halfway
  <2>3. Free \in Attempt /\ ~Halfway(Free)
    BY FreeAttempt DEF Free, Halfway
  <2>4. unsent'[t] = unsent[t] + (IF Halfway(at[t][a]) THEN 1 ELSE 0)
    BY <1>d, <2>1, <2>2
  <2>5. \A u \in Tasks : u # t => unsent'[u] = unsent[u]
    BY <1>d, <2>1
  <2>6. updated[t] = dispatched[t] + unsent[t] + (IF Halfway(at[t][a]) THEN 1 ELSE 0) =>
          updated'[t] = dispatched'[t] + unsent'[t] + (IF Halfway(Free) THEN 1 ELSE 0)
    BY <1>d, <2>1, <2>3, <2>4
  <2> QED  BY <2>1, <2>3, <2>5, <2>6, AccountMoves
<1> QED  BY <1>1, <1>2, <1>3 DEF Failure

LEMMA AccountStep ==
    ASSUME TypeOK, WorkerInv, SingleFlight, DispatchedHasEvent, [Next]_vars
    PROVE  DispatchedHasEvent'
<1>1. CASE UNCHANGED <<at, updated, dispatched, unsent>>
  BY <1>1, AccountKept
<1>2. ASSUME NEW a \in Attempts, ScheduleOpens(a) PROVE DispatchedHasEvent'
  <2> DEFINE u == wsig.task
             opened == [Free EXCEPT !.pc = "window"]
  <2>1. /\ u \in Tasks /\ In(u, a, "free") /\ Becomes(u, a, opened)
        /\ UNCHANGED <<updated, dispatched, unsent>>
    BY <1>2, SignalTask DEF ScheduleOpens, WorkerInv, outcome, history
  <2>2. opened \in Attempt /\ ~Halfway(opened)
    BY FreeAttempt DEF Free, Halfway
  <2>3. ~Halfway(at[u][a])
    BY <2>1 DEF In, Halfway
  <2> HIDE DEF u, opened
  <2>4. /\ at'[u][a] = opened
        /\ \A v \in Tasks, b \in Attempts : v # u \/ b # a => at'[v][b] = at[v][b]
    BY <2>1, <2>2, OneMoves DEF TypeOK
  <2>5. \A v \in Tasks, b \in Attempts : Halfway(at'[v][b]) <=> Halfway(at[v][b])
    BY <2>2, <2>3, <2>4
  <2> QED  BY <2>1, <2>5, AccountKept
<1>3. CASE Work
  BY <1>1, <1>2, <1>3 DEF Work, Take, SaveClassified, SaveRisk, SaveProposal, ScheduleSkipped, Commit,
     outcome, history
<1>4. CASE Expires \/ (\E t \in Tasks : SlaWritesHash(t)) \/ \E s \in Signals : Arrive(s)
  BY <1>1, <1>4 DEF Expires, ClassifiedExpires, MarkerExpires, RiskExpires, ProposalExpires,
     SlaWritesHash, Arrive, outcome, history
<1>5. CASE UNCHANGED vars
  BY <1>1, <1>5 DEF vars, outcome, history
<1> QED  BY <1>3, <1>4, <1>5, DecideAccount, FailureAccount DEF Next

(* Every row set to dispatched has its decision.dispatch, except while the *)
(* attempt is between the two, or because it died exactly there.           *)
THEOREM EventForEachDispatch == Spec => []DispatchedHasEvent
<1>1. IndInv /\ DispatchedHasEvent /\ [Next]_vars => DispatchedHasEvent'
  BY AccountStep DEF IndInv
<1> QED  BY InitAccount, <1>1, Inductive, PTL DEF Spec

(* No classified task is forgotten without one of the named reasons.       *)
THEOREM NoTaskForgotten == Spec => []UndecidedHasReason
<1>1. ASSUME Reasons, IndInv, NEW t \in Tasks, t \in classified, AtRest(t)
      PROVE  dispatched[t] > 0 \/ scaled[t] > 0 \/ t \in aborted \cup skipped
  <2>1. \A a \in Attempts : ~Hopeful(at[t][a])
    BY <1>1 DEF AtRest, In, Hopeful
  <2>2. ~Announced(t)
    BY <1>1, NoSignalAssumption DEF AtRest, Announced, IndInv, WorkerInv
  <2> QED BY <1>1, <2>1, <2>2 DEF Reasons, ReasonTask, Excused
<1>2. Reasons /\ IndInv => UndecidedHasReason
  BY <1>1 DEF UndecidedHasReason
<1> QED  BY <1>2, ReasonsHold, Inductive, PTL
==============================================================================
