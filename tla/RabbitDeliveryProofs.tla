------------------------ MODULE RabbitDeliveryProofs ------------------------
(***************************************************************************)
(* Theorems about the transport, for any finite set of queues, any events, *)
(* bindings, retry limit and number of faults: its types, the account of   *)
(* its copies, at-least-once delivery, the bound on the retry storm, and   *)
(* that it implements EventDelivery.                                       *)
(***************************************************************************)
EXTENDS RabbitDelivery, FiniteSetTheorems, TLAPS

(* A consumer holds a message exactly while it is working on one; only a   *)
(* stopped worker may or may not hold one.                                 *)
HandInv ==
    \A q \in Queues :
        /\ step[q] = "idle" => hand[q] = NoMessage
        /\ step[q] \in {"handling", "handled", "unsettled", "copied"} => hand[q] \in Messages

IndInv == TypeOK /\ HandInv /\ Conservation /\ NoMessageLost

LEMMA InitInd == Init => IndInv
<1> SUFFICES ASSUME Init PROVE IndInv
  OBVIOUS
<1> USE DEF Init
<1>1. TypeOK
  BY MaxFaultsAssumption DEF TypeOK, Steps, Counts, None
<1>2. HandInv
  BY DEF HandInv
<1>3. Conservation
  BY NoMessageAssumption DEF Conservation, InHand, None
<1>4. NoMessageLost
  <2>1. \A e \in Events : routed[<<e, 0>>] = 0
    BY MaxRetriesAssumption DEF None, Messages, Levels
  <2> QED  BY <2>1 DEF NoMessageLost
<1> QED  BY <1>1, <1>2, <1>3, <1>4 DEF IndInv

(* A message below the limit has a retry that is a message again.          *)
LEMMA RetryIsMessage ==
    ASSUME NEW m \in Messages, m[2] < MaxRetries
    PROVE  RetryOf(m) \in Messages /\ RetryOf(m)[1] = m[1]
  BY MaxRetriesAssumption DEF Messages, Levels, RetryOf

LEMMA TypeStep == TypeOK /\ HandInv /\ [Next]_vars => TypeOK'
<1> SUFFICES ASSUME TypeOK, HandInv, [Next]_vars PROVE TypeOK'
  OBVIOUS
<1> USE MaxFaultsAssumption, MaxRetriesAssumption DEF TypeOK, Counts, Steps
<1> DEFINE Zero(e) == <<e, 0>>
<1>0. \A e \in Events : Zero(e) \in Messages
  BY DEF Messages, Levels
<1>1. ASSUME NEW e \in Events, Publish(e) PROVE TypeOK'
  BY <1>0, <1>1 DEF Publish, Route
<1>2. ASSUME NEW e \in Events, EnvelopeExpires(e) PROVE TypeOK'
  BY <1>2 DEF EnvelopeExpires
<1>3. ASSUME NEW q \in Queues, NEW m \in Messages, Take(q, m) PROVE TypeOK'
  <2>1. Deliver(q, m)
    BY <1>3 DEF Take, TakeMalformed, TakeExpired, TakeForHandling
  <2>2. ready' \in [Queues -> Counts]
    BY <2>1 DEF Deliver, Counts
  <2>3. CASE TakeExpired(q, m)
    BY <2>2, <2>3 DEF TakeExpired
  <2>4. CASE TakeMalformed(q, m) \/ TakeForHandling(q, m)
    BY <2>2, <2>4 DEF TakeMalformed, TakeForHandling
  <2> QED  BY <1>3, <2>3, <2>4 DEF Take
<1>4. ASSUME NEW q \in Queues, EndHandling(q) PROVE TypeOK'
  BY <1>4 DEF EndHandling, HandlerReturns, HandlerRaises
<1>5. ASSUME NEW q \in Queues, Settle(q) PROVE TypeOK'
  <2>1. CASE Commit(q)
    BY <2>1 DEF Commit, HandInv
  <2>2. CASE GiveUp(q)
    BY <2>2 DEF GiveUp, AfterSettling, HandInv
  <2>3. CASE PublishRetry(q)
    BY <2>3, RetryIsMessage DEF PublishRetry, HandInv
  <2>4. CASE AckOriginal(q)
    BY <2>4 DEF AckOriginal, AfterSettling, HandInv
  <2> QED  BY <1>5, <2>1, <2>2, <2>3, <2>4 DEF Settle
<1>6. ASSUME NEW q \in Queues, Failure(q) PROVE TypeOK'
  <2>1. CASE CommitRaises(q)
    BY <2>1 DEF CommitRaises, Fault
  <2>2. CASE SettlingRaises(q)
    BY <2>2 DEF SettlingRaises, Fault
  <2>3. CASE Restart(q)
    BY <2>3 DEF Restart, Fault
  <2> QED  BY <1>6, <2>1, <2>2, <2>3 DEF Failure
<1>7. ASSUME NEW m \in Messages, RetryTtl(m) PROVE TypeOK'
  BY <1>7 DEF RetryTtl, Route
<1>8. ASSUME NEW q \in Queues, NEW e \in Events, BrokerTtl(q, e) PROVE TypeOK'
  BY <1>0, <1>8 DEF BrokerTtl
<1>9. CASE UNCHANGED vars
  BY <1>9 DEF vars
<1> QED  BY <1>1, <1>2, <1>3, <1>4, <1>5, <1>6, <1>7, <1>8, <1>9 DEF Next

LEMMA HandStep == TypeOK /\ HandInv /\ [Next]_vars => HandInv'
<1> SUFFICES ASSUME TypeOK, HandInv, [Next]_vars PROVE HandInv'
  OBVIOUS
<1> USE DEF TypeOK, HandInv
<1>1. ASSUME NEW e \in Events, Publish(e) PROVE HandInv'
  BY <1>1 DEF Publish
<1>2. ASSUME NEW e \in Events, EnvelopeExpires(e) PROVE HandInv'
  BY <1>2 DEF EnvelopeExpires
<1>3. ASSUME NEW q \in Queues, NEW m \in Messages, Take(q, m) PROVE HandInv'
  BY <1>3 DEF Take, TakeMalformed, TakeExpired, TakeForHandling, Deliver
<1>4. ASSUME NEW q \in Queues, EndHandling(q) PROVE HandInv'
  BY <1>4 DEF EndHandling, HandlerReturns, HandlerRaises
<1>5. ASSUME NEW q \in Queues, Settle(q) PROVE HandInv'
  BY <1>5 DEF Settle, Commit, GiveUp, PublishRetry, AckOriginal, AfterSettling
<1>6. ASSUME NEW q \in Queues, Failure(q) PROVE HandInv'
  BY <1>6 DEF Failure, CommitRaises, SettlingRaises, Restart
<1>7. ASSUME NEW m \in Messages, RetryTtl(m) PROVE HandInv'
  BY <1>7 DEF RetryTtl
<1>8. ASSUME NEW q \in Queues, NEW e \in Events, BrokerTtl(q, e) PROVE HandInv'
  BY <1>8 DEF BrokerTtl
<1>9. CASE UNCHANGED vars
  BY <1>9 DEF vars
<1> QED  BY <1>1, <1>2, <1>3, <1>4, <1>5, <1>6, <1>7, <1>8, <1>9 DEF Next

(* What one step does to the places of message n in queue p: the account   *)
(* of a bound queue grows with the routing, every other move is between    *)
(* two of its places.                                                      *)
LEMMA ConservationStep ==
    TypeOK /\ HandInv /\ Conservation /\ [Next]_vars => Conservation'
<1> SUFFICES ASSUME TypeOK, HandInv, Conservation, [Next]_vars,
                    NEW p \in Queues, NEW n \in Messages
             PROVE  (ready[p][n] + InHand(p, n) + acked[p][n] + moved[p][n] + dead[p][n]
                       = IF p \in BoundTo[n[1]] THEN routed[n] ELSE 0)'
  BY DEF Conservation
<1> DEFINE Account == ready[p][n] + InHand(p, n) + acked[p][n] + moved[p][n] + dead[p][n]
           Owed == IF p \in BoundTo[n[1]] THEN routed[n] ELSE 0
<1>a. Account = Owed
  BY DEF Conservation
<1>b. /\ ready[p][n] \in Nat /\ acked[p][n] \in Nat /\ moved[p][n] \in Nat
      /\ dead[p][n] \in Nat /\ routed[n] \in Nat
  BY DEF TypeOK, Counts
<1>f. /\ ready \in [Queues -> Counts] /\ acked \in [Queues -> Counts]
      /\ moved \in [Queues -> Counts] /\ dead \in [Queues -> Counts]
  BY DEF TypeOK
<1>g. hand \in [Queues -> Messages \cup {NoMessage}]
  BY DEF TypeOK
<1>h. /\ routed \in [Messages -> Nat]
      /\ \A q \in Queues : ready[q] \in [Messages -> Nat]
  BY DEF TypeOK, Counts
<1>c. \A q \in Queues : step[q] = "idle" => hand[q] = NoMessage
  BY DEF HandInv
<1>d. \A q \in Queues : step[q] \in {"handling", "handled", "unsettled", "copied"}
                          => hand[q] \in Messages
  BY DEF HandInv
<1>e. \A e \in Events : <<e, 0>> \in Messages
  BY MaxRetriesAssumption DEF Messages, Levels
<1> USE <1>a, <1>b, <1>g, NoMessageAssumption DEF InHand
<1>1. ASSUME NEW e \in Events, Publish(e) PROVE Account' = Owed'
  <2> DEFINE m == <<e, 0>>
  <2>1. m \in Messages /\ Route(m)
    BY <1>e, <1>1 DEF Publish
  <2>2. hand' = hand /\ acked' = acked /\ moved' = moved /\ dead' = dead
    BY <1>1 DEF Publish
  <2> HIDE DEF m
  <2> QED  BY <1>h, <2>1, <2>2 DEF Route
<1>2. ASSUME NEW e \in Events, EnvelopeExpires(e) PROVE Account' = Owed'
  BY <1>2 DEF EnvelopeExpires
<1>3. ASSUME NEW q \in Queues, NEW m \in Messages, Take(q, m) PROVE Account' = Owed'
  <2>1. CASE TakeMalformed(q, m)
    <3>1. Deliver(q, m)
      BY <2>1 DEF TakeMalformed
    <3>2. ready'[p][n] = IF p = q /\ n = m THEN ready[p][n] - 1 ELSE ready[p][n]
      BY <1>f, <3>1 DEF Deliver, Counts
    <3> QED  BY <1>c, <2>1, <3>1, <3>2 DEF TakeMalformed, Deliver
  <2>2. CASE TakeExpired(q, m)
    <3>1. Deliver(q, m)
      BY <2>2 DEF TakeExpired
    <3>2. ready'[p][n] = IF p = q /\ n = m THEN ready[p][n] - 1 ELSE ready[p][n]
      BY <1>f, <3>1 DEF Deliver, Counts
    <3>3. dead'[p][n] = IF p = q /\ n = m THEN dead[p][n] + 1 ELSE dead[p][n]
      BY <1>f, <2>2 DEF TakeExpired, Counts
    <3> QED  BY <2>2, <3>2, <3>3 DEF TakeExpired
  <2>3. CASE TakeForHandling(q, m)
    <3>1. Deliver(q, m)
      BY <2>3 DEF TakeForHandling
    <3>2. ready'[p][n] = IF p = q /\ n = m THEN ready[p][n] - 1 ELSE ready[p][n]
      BY <1>f, <3>1 DEF Deliver, Counts
    <3> QED  BY <1>c, <2>3, <3>1, <3>2 DEF TakeForHandling, Deliver
  <2> QED  BY <1>3, <2>1, <2>2, <2>3 DEF Take
<1>4. ASSUME NEW q \in Queues, EndHandling(q) PROVE Account' = Owed'
  BY <1>4 DEF EndHandling, HandlerReturns, HandlerRaises
<1>5. ASSUME NEW q \in Queues, Settle(q) PROVE Account' = Owed'
  <2>1. CASE Commit(q)
    <3>1. acked'[p][n] = IF p = q /\ n = hand[q] THEN acked[p][n] + 1 ELSE acked[p][n]
      BY <1>d, <1>f, <2>1 DEF Commit, Counts
    <3> QED  BY <1>d, <2>1, <3>1 DEF Commit
  <2>2. CASE GiveUp(q)
    <3>1. dead'[p][n] = IF p = q /\ n = hand[q] THEN dead[p][n] + 1 ELSE dead[p][n]
      BY <1>d, <1>f, <2>2 DEF GiveUp, Counts
    <3> QED  BY <1>d, <2>2, <3>1 DEF GiveUp
  <2>3. CASE PublishRetry(q)
    BY <2>3 DEF PublishRetry
  <2>4. CASE AckOriginal(q)
    <3>1. moved'[p][n] = IF p = q /\ n = hand[q] THEN moved[p][n] + 1 ELSE moved[p][n]
      BY <1>d, <1>f, <2>4 DEF AckOriginal, Counts
    <3> QED  BY <1>d, <2>4, <3>1 DEF AckOriginal
  <2> QED  BY <1>5, <2>1, <2>2, <2>3, <2>4 DEF Settle
<1>6. ASSUME NEW q \in Queues, Failure(q) PROVE Account' = Owed'
  <2>1. CASE CommitRaises(q) \/ SettlingRaises(q)
    BY <2>1 DEF CommitRaises, SettlingRaises
  <2>2. CASE Restart(q)
    <3>1. CASE hand[q] = NoMessage
      BY <2>2, <3>1 DEF Restart
    <3>2. CASE hand[q] # NoMessage
      <4>1. hand[q] \in Messages
        BY <3>2
      <4>2. ready'[p][n] = IF p = q /\ n = hand[q] THEN ready[p][n] + 1 ELSE ready[p][n]
        BY <1>f, <2>2, <3>2, <4>1 DEF Restart, Counts
      <4> QED  BY <2>2, <4>1, <4>2 DEF Restart
    <3> QED  BY <3>1, <3>2
  <2> QED  BY <1>6, <2>1, <2>2 DEF Failure
<1>7. ASSUME NEW m \in Messages, RetryTtl(m) PROVE Account' = Owed'
  BY <1>h, <1>7 DEF RetryTtl, Route
<1>8. ASSUME NEW q \in Queues, NEW e \in Events, BrokerTtl(q, e) PROVE Account' = Owed'
  <2> DEFINE m == <<e, 0>>
  <2>1. m \in Messages
    BY <1>e
  <2>2. ready'[p][n] = IF p = q /\ n = m THEN ready[p][n] - 1 ELSE ready[p][n]
    BY <1>f, <1>8, <2>1 DEF BrokerTtl, Counts
  <2>3. dead'[p][n] = IF p = q /\ n = m THEN dead[p][n] + 1 ELSE dead[p][n]
    BY <1>f, <1>8, <2>1 DEF BrokerTtl, Counts
  <2> QED  BY <1>8, <2>2, <2>3 DEF BrokerTtl
<1>9. CASE UNCHANGED vars
  BY <1>9 DEF vars
<1> QED  BY <1>1, <1>2, <1>3, <1>4, <1>5, <1>6, <1>7, <1>8, <1>9 DEF Next

(* No action takes the last copy a bound queue still has to answer for,    *)
(* without leaving another in its place.                                   *)
LEMMA NotLostStep ==
    TypeOK /\ HandInv /\ NoMessageLost /\ [Next]_vars => NoMessageLost'
<1> SUFFICES ASSUME TypeOK, HandInv, NoMessageLost, [Next]_vars,
                    NEW d \in Events, NEW p \in BoundTo[d], (routed[<<d, 0>>] > 0)'
             PROVE  Accounted(p, d)'
  BY DEF NoMessageLost
<1>a. p \in Queues /\ \A r \in Levels : <<d, r>> \in Messages
  BY BoundToAssumption DEF Messages
<1>b. /\ ready \in [Queues -> [Messages -> Nat]] /\ acked \in [Queues -> [Messages -> Nat]]
      /\ dead \in [Queues -> [Messages -> Nat]] /\ retryQ \in [Messages -> Nat]
      /\ routed \in [Messages -> Nat] /\ step \in [Queues -> Steps]
      /\ hand \in [Queues -> Messages \cup {NoMessage}]
  BY DEF TypeOK, Counts
<1>c. routed[<<d, 0>>] > 0 => Accounted(p, d)
  BY DEF NoMessageLost
<1>d. 0 \in Levels
  BY MaxRetriesAssumption DEF Levels
<1> DEFINE At(r) == \/ ready[p][<<d, r>>] > 0
                    \/ retryQ[<<d, r>>] > 0
                    \/ acked[p][<<d, r>>] > 0
                    \/ dead[p][<<d, r>>] > 0
                    \/ hand[p] = <<d, r>> /\ step[p] # "copied"
<1>e. (\E r \in Levels : At(r)') => Accounted(p, d)'
  BY DEF Accounted
<1>f. ASSUME routed' = routed PROVE \E r \in Levels : At(r)
  BY <1>c, <1>f DEF Accounted
<1>g. ASSUME NEW m \in Messages, Route(m), UNCHANGED <<hand, step, acked, dead>>,
             \A n \in Messages : n # m => retryQ'[n] = retryQ[n]
      PROVE  \E r \in Levels : At(r)'
  <2>1. CASE m[1] = d
    <3>1. m[2] \in Levels /\ m = <<d, m[2]>>
      BY <2>1 DEF Messages
    <3>2. ready'[p][m] = ready[p][m] + 1
      BY <1>a, <1>b, <1>g, <2>1 DEF Route
    <3>3. ready[p][m] \in Nat
      BY <1>a, <1>b
    <3> QED  BY <3>1, <3>2, <3>3
  <2>2. CASE m[1] # d
    <3>1. \A r \in Levels : <<d, r>> # m
      BY <2>2
    <3>2. routed'[<<d, 0>>] = routed[<<d, 0>>]
      BY <1>a, <1>b, <1>d, <1>g, <3>1 DEF Route
    <3>3. PICK r \in Levels : At(r)
      BY <1>c, <3>2 DEF Accounted
    <3>4. <<d, r>> \in Messages /\ <<d, r>> # m
      BY <1>a, <3>1
    <3>5. ready'[p][<<d, r>>] = ready[p][<<d, r>>]
      BY <1>a, <1>b, <1>g, <3>4 DEF Route
    <3>6. At(r)'
      BY <1>g, <3>3, <3>4, <3>5
    <3> QED  BY <3>6
  <2> QED  BY <2>1, <2>2
<1> SUFFICES \E r \in Levels : At(r)'
  BY <1>e
<1>1. ASSUME NEW e \in Events, Publish(e) PROVE \E r \in Levels : At(r)'
  <2>1. <<e, 0>> \in Messages
    BY <1>d DEF Messages
  <2> QED  BY <1>1, <1>g, <2>1 DEF Publish
<1>2. ASSUME NEW e \in Events, EnvelopeExpires(e) PROVE \E r \in Levels : At(r)'
  BY <1>2, <1>f DEF EnvelopeExpires
<1>3. ASSUME NEW q \in Queues, NEW m \in Messages, Take(q, m) PROVE \E r \in Levels : At(r)'
  <2>1. PICK r \in Levels : At(r)
    BY <1>3, <1>f DEF Take, TakeMalformed, TakeExpired, TakeForHandling
  <2> DEFINE n == <<d, r>>
  <2>2. n \in Messages /\ step[q] = "idle" /\ hand[q] = NoMessage /\ hand[q] # n
    BY <1>3, <1>a, NoMessageAssumption
    DEF Take, TakeMalformed, TakeExpired, TakeForHandling, Deliver, HandInv
  <2>3. q # p \/ m # n => ready'[p][n] = ready[p][n]
    BY <1>3, <1>a, <1>b, <2>2
    DEF Take, TakeMalformed, TakeExpired, TakeForHandling, Deliver
  <2>4. retryQ' = retryQ /\ acked' = acked
    BY <1>3 DEF Take, TakeMalformed, TakeExpired, TakeForHandling
  <2>5. CASE TakeExpired(q, m)
    <3>1. dead'[p][n] = IF q = p /\ m = n THEN dead[p][n] + 1 ELSE dead[p][n]
      BY <1>a, <1>b, <2>2, <2>5 DEF TakeExpired
    <3>2. dead[p][n] \in Nat /\ hand' = hand /\ step' = step
      BY <1>a, <1>b, <2>2, <2>5 DEF TakeExpired
    <3>3. CASE q = p /\ m = n
      <4>1. dead'[p][n] > 0
        BY <3>1, <3>2, <3>3
      <4> QED  BY <4>1
    <3>4. CASE q # p \/ m # n
      <4>1. dead'[p][n] = dead[p][n] /\ ready'[p][n] = ready[p][n]
        BY <2>3, <3>1, <3>4
      <4>2. At(r)'
        BY <2>1, <2>4, <3>2, <4>1
      <4> QED  BY <4>2
    <3> QED  BY <3>3, <3>4
  <2>6. CASE TakeMalformed(q, m) \/ TakeForHandling(q, m)
    <3>1. dead' = dead /\ hand' = [hand EXCEPT ![q] = m]
          /\ step'[q] # "copied" /\ \A k \in Queues : k # q => step'[k] = step[k]
      BY <1>b, <2>6 DEF TakeMalformed, TakeForHandling
    <3>2. At(r)'
      BY <1>a, <1>b, <2>1, <2>2, <2>3, <2>4, <3>1
    <3> QED  BY <3>2
  <2> QED  BY <1>3, <2>5, <2>6 DEF Take
<1>4. ASSUME NEW q \in Queues, EndHandling(q) PROVE \E r \in Levels : At(r)'
  <2>1. PICK r \in Levels : At(r)
    BY <1>4, <1>f DEF EndHandling, HandlerReturns, HandlerRaises
  <2>2. step[p] # "copied" => step'[p] # "copied"
    BY <1>4, <1>a, <1>b DEF EndHandling, HandlerReturns, HandlerRaises
  <2>3. UNCHANGED <<ready, hand, retryQ, acked, dead>>
    BY <1>4 DEF EndHandling, HandlerReturns, HandlerRaises
  <2>4. At(r)'
    BY <2>1, <2>2, <2>3
  <2> QED  BY <2>4
<1>5. ASSUME NEW q \in Queues, Settle(q) PROVE \E r \in Levels : At(r)'
  <2>1. PICK r \in Levels : At(r)
    BY <1>5, <1>f DEF Settle, Commit, GiveUp, PublishRetry, AckOriginal
  <2> DEFINE n == <<d, r>>
  <2>2. n \in Messages /\ (step[q] # "idle" => (hand[q] # n \/ hand[q] \in Messages))
    BY <1>a
  <2>3. CASE Commit(q)
    <3>1. hand[q] = n /\ q = p => acked'[p][n] = acked[p][n] + 1 /\ acked[p][n] \in Nat
      BY <1>a, <1>b, <2>2, <2>3 DEF Commit
    <3>2. (acked'[p][n] = acked[p][n] \/ acked'[p][n] = acked[p][n] + 1) /\ acked[p][n] \in Nat
      BY <1>a, <1>b, <2>2, <2>3 DEF Commit
    <3>3. At(r)'
      BY <1>a, <1>b, <2>1, <2>3, <3>1, <3>2 DEF Commit
    <3> QED  BY <3>3
  <2>4. CASE GiveUp(q)
    <3>1. hand[q] = n /\ q = p => dead'[p][n] = dead[p][n] + 1 /\ dead[p][n] \in Nat
      BY <1>a, <1>b, <2>2, <2>4 DEF GiveUp
    <3>2. (dead'[p][n] = dead[p][n] \/ dead'[p][n] = dead[p][n] + 1) /\ dead[p][n] \in Nat
      BY <1>a, <1>b, <2>2, <2>4 DEF GiveUp
    <3>3. At(r)'
      BY <1>a, <1>b, <2>1, <2>4, <3>1, <3>2 DEF GiveUp
    <3> QED  BY <3>3
  <2>5. CASE PublishRetry(q)
    <3>1. CASE q = p /\ hand[q] = n
      <4>1. r + 1 \in Levels /\ RetryOf(n) = <<d, r + 1>>
        BY <2>5, <3>1, MaxRetriesAssumption DEF PublishRetry, RetryOf, Levels
      <4>2. retryQ'[<<d, r + 1>>] = retryQ[<<d, r + 1>>] + 1
        BY <1>a, <1>b, <2>5, <3>1, <4>1 DEF PublishRetry
      <4>3. retryQ[<<d, r + 1>>] \in Nat
        BY <1>a, <1>b, <4>1
      <4>4. At(r + 1)'
        BY <4>2, <4>3
      <4> QED  BY <4>1, <4>4
    <3>2. CASE q # p \/ hand[q] # n
      <4>1. (retryQ'[n] = retryQ[n] \/ retryQ'[n] = retryQ[n] + 1) /\ retryQ[n] \in Nat
        BY <1>b, <2>2, <2>5 DEF PublishRetry
      <4>2. At(r)'
        BY <1>a, <1>b, <2>1, <2>5, <3>2, <4>1 DEF PublishRetry
      <4> QED  BY <4>2
    <3> QED  BY <3>1, <3>2
  <2>6. CASE AckOriginal(q)
    <3>1. At(r)'
      BY <1>a, <1>b, <2>1, <2>6 DEF AckOriginal
    <3> QED  BY <3>1
  <2> QED  BY <1>5, <2>3, <2>4, <2>5, <2>6 DEF Settle
<1>6. ASSUME NEW q \in Queues, Failure(q) PROVE \E r \in Levels : At(r)'
  <2>1. PICK r \in Levels : At(r)
    BY <1>6, <1>f DEF Failure, CommitRaises, SettlingRaises, Restart
  <2>2. CASE CommitRaises(q) \/ SettlingRaises(q)
    <3>1. step[p] # "copied" => step'[p] # "copied"
      BY <1>a, <1>b, <2>2 DEF CommitRaises, SettlingRaises
    <3>2. UNCHANGED <<ready, hand, retryQ, acked, dead>>
      BY <2>2 DEF CommitRaises, SettlingRaises
    <3>3. At(r)'
      BY <2>1, <3>1, <3>2
    <3> QED  BY <3>3
  <2>3. CASE Restart(q)
    <3> DEFINE n == <<d, r>>
    <3>1. n \in Messages /\ n # NoMessage
      BY <1>a, NoMessageAssumption
    <3>2. hand[q] = n /\ q = p => ready'[p][n] = ready[p][n] + 1 /\ ready[p][n] \in Nat
      BY <1>a, <1>b, <2>3, <3>1 DEF Restart
    <3>3. (ready'[p][n] = ready[p][n] \/ ready'[p][n] = ready[p][n] + 1) /\ ready[p][n] \in Nat
      BY <1>a, <1>b, <2>3, <3>1 DEF Restart
    <3>4. At(r)'
      BY <1>a, <1>b, <2>1, <2>3, <3>2, <3>3 DEF Restart
    <3> QED  BY <3>4
  <2> QED  BY <1>6, <2>2, <2>3 DEF Failure
<1>7. ASSUME NEW m \in Messages, RetryTtl(m) PROVE \E r \in Levels : At(r)'
  BY <1>7, <1>b, <1>g DEF RetryTtl
<1>8. ASSUME NEW q \in Queues, NEW e \in Events, BrokerTtl(q, e) PROVE \E r \in Levels : At(r)'
  <2>1. PICK r \in Levels : At(r)
    BY <1>8, <1>f DEF BrokerTtl
  <2> DEFINE n == <<d, r>>
             m == <<e, 0>>
  <2>2. n \in Messages /\ m \in Messages
    BY <1>a, <1>d DEF Messages
  <2>3. dead'[p][n] = (IF q = p /\ m = n THEN dead[p][n] + 1 ELSE dead[p][n])
        /\ dead[p][n] \in Nat
    BY <1>a, <1>b, <1>8, <2>2 DEF BrokerTtl
  <2>4. q # p \/ m # n => ready'[p][n] = ready[p][n]
    BY <1>a, <1>b, <1>8, <2>2 DEF BrokerTtl
  <2>5. hand' = hand /\ step' = step /\ retryQ' = retryQ /\ acked' = acked
    BY <1>8 DEF BrokerTtl
  <2> HIDE DEF m
  <2>6. At(r)'
    BY <2>1, <2>3, <2>4, <2>5
  <2> QED  BY <2>6
<1>9. CASE UNCHANGED vars
  BY <1>9, <1>f DEF vars
<1> QED  BY <1>1, <1>2, <1>3, <1>4, <1>5, <1>6, <1>7, <1>8, <1>9 DEF Next

LEMMA Inductive == Spec => []IndInv
<1>1. IndInv /\ [Next]_vars => IndInv'
  BY TypeStep, HandStep, ConservationStep, NotLostStep DEF IndInv
<1> QED  BY InitInd, <1>1, PTL DEF Spec

(* Every variable stays in its range: no count of copies goes negative and *)
(* no retry level exceeds the limit.                                       *)
THEOREM TypeCorrect == Spec => []TypeOK
  BY Inductive, PTL DEF IndInv

(* The transport neither drops nor invents a copy, whatever fails.         *)
THEOREM CopiesConserved == Spec => []Conservation
  BY Inductive, PTL DEF IndInv

(* At-least-once delivery to every bound queue, whatever fails.            *)
THEOREM AtLeastOnce == Spec => []NoMessageLost
  BY Inductive, PTL DEF IndInv

(***************************************************************************)
(* The retry storm.  A retry copy is published by a consumer that then     *)
(* acknowledges the original, or fails to: for the copies a level has      *)
(* there are as many acknowledged or to be acknowledged below, but for the *)
(* faults.  They are counted as pairs of a queue and a number.             *)
(***************************************************************************)
Given(m) == [q \in Queues |-> moved[q][m] + (IF step[q] = "copied" /\ hand[q] = m THEN 1 ELSE 0)]

Pairs(f) == {p \in Queues \X Nat : p[2] < f[p[1]]}

Copies(m) == routed[m] + retryQ[m]

Grown(m, n) ==
    /\ IsFiniteSet(Pairs(Given(m)))
    /\ Copies(n) <= Cardinality(Pairs(Given(m))) + faults

StormInv ==
    \A e \in Events :
        /\ Copies(<<e, 0>>) <= 1 /\ retryQ[<<e, 0>>] = 0
        /\ \A r \in Levels : r + 1 \in Levels => Grown(<<e, r>>, <<e, r + 1>>)

LEMMA PairAdded ==
  ASSUME NEW f \in [Queues -> Nat], NEW g \in [Queues -> Nat], NEW q \in Queues, IsFiniteSet(Pairs(f)),
         g[q] = f[q] + 1, \A k \in Queues : k # q => g[k] = f[k]
  PROVE  IsFiniteSet(Pairs(g)) /\ Cardinality(Pairs(g)) = Cardinality(Pairs(f)) + 1
<1>1. Pairs(g) = Pairs(f) \cup {<<q, f[q]>>} /\ <<q, f[q]>> \notin Pairs(f)
  BY DEF Pairs
<1> QED  BY <1>1, FS_AddElement

LEMMA PairRemoved ==
  ASSUME NEW f \in [Queues -> Nat], NEW g \in [Queues -> Nat], NEW q \in Queues, IsFiniteSet(Pairs(f)),
         g[q] = f[q] - 1, \A k \in Queues : k # q => g[k] = f[k]
  PROVE  IsFiniteSet(Pairs(g)) /\ Cardinality(Pairs(g)) = Cardinality(Pairs(f)) - 1
<1>1. Pairs(g) = Pairs(f) \ {<<q, g[q]>>} /\ <<q, g[q]>> \in Pairs(f)
  BY DEF Pairs
<1> QED  BY <1>1, FS_RemoveElement

LEMMA GivenTyped ==
  ASSUME TypeOK, NEW m \in Messages
  PROVE  Given(m) \in [Queues -> Nat]
<1>1. \A q \in Queues : moved[q][m] \in Nat
  BY DEF TypeOK, Counts
<1> QED  BY <1>1 DEF Given

(* A copy is published, or none, or one that is not acknowledged after.    *)
Published(m, n, q) ==
    /\ Given(m)'[q] = Given(m)[q] + 1 /\ \A k \in Queues : k # q => Given(m)'[k] = Given(m)[k]
    /\ Copies(n)' = Copies(n) + 1 /\ faults' = faults

NotPublished(m, n) ==
    /\ \A k \in Queues : Given(m)'[k] = Given(m)[k]
    /\ Copies(n)' = Copies(n) /\ faults' >= faults

Withheld(m, n, q) ==
    /\ Given(m)'[q] = Given(m)[q] - 1 /\ \A k \in Queues : k # q => Given(m)'[k] = Given(m)[k]
    /\ Copies(n)' = Copies(n) /\ faults' = faults + 1

LEMMA GrownKept ==
  ASSUME TypeOK, TypeOK', NEW m \in Messages, NEW n \in Messages, Grown(m, n),
         \/ NotPublished(m, n)
         \/ \E q \in Queues : Published(m, n, q) \/ Withheld(m, n, q)
  PROVE  Grown(m, n)'
<1> DEFINE f == Given(m)
           g == Given(m)'
<1>1. f \in [Queues -> Nat] /\ g \in [Queues -> Nat]
  <2>1. \A q \in Queues : moved'[q][m] \in Nat
    BY DEF TypeOK, Counts
  <2> QED  BY <2>1, GivenTyped DEF Given
<1>2. Copies(n) \in Nat /\ faults \in Nat /\ faults' \in Nat
  BY MaxFaultsAssumption DEF TypeOK, Counts, Copies
<1>3. IsFiniteSet(Pairs(f)) /\ Cardinality(Pairs(f)) \in Nat
  BY FS_CardinalityType DEF Grown
<1>4. Copies(n) <= Cardinality(Pairs(f)) + faults
  BY DEF Grown
<1>5. SUFFICES IsFiniteSet(Pairs(g)) /\ Copies(n)' <= Cardinality(Pairs(g)) + faults'
  BY DEF Grown, Pairs
<1>6. CASE NotPublished(m, n)
  <2>1. f = g
    BY <1>1, <1>6 DEF NotPublished
  <2> HIDE DEF f, g
  <2> QED  BY <1>2, <1>3, <1>4, <1>6, <2>1 DEF NotPublished
<1>7. ASSUME NEW q \in Queues, Published(m, n, q)
      PROVE  IsFiniteSet(Pairs(g)) /\ Copies(n)' <= Cardinality(Pairs(g)) + faults'
  <2>1. g[q] = f[q] + 1 /\ \A k \in Queues : k # q => g[k] = f[k]
    BY <1>7 DEF Published
  <2> HIDE DEF f, g
  <2>2. IsFiniteSet(Pairs(g)) /\ Cardinality(Pairs(g)) = Cardinality(Pairs(f)) + 1
    BY <1>1, <1>3, <2>1, PairAdded
  <2> QED  BY <1>2, <1>3, <1>4, <1>7, <2>2 DEF Published
<1>8. ASSUME NEW q \in Queues, Withheld(m, n, q)
      PROVE  IsFiniteSet(Pairs(g)) /\ Copies(n)' <= Cardinality(Pairs(g)) + faults'
  <2>1. g[q] = f[q] - 1 /\ \A k \in Queues : k # q => g[k] = f[k]
    BY <1>8 DEF Withheld
  <2> HIDE DEF f, g
  <2>2. IsFiniteSet(Pairs(g)) /\ Cardinality(Pairs(g)) = Cardinality(Pairs(f)) - 1
    BY <1>1, <1>3, <2>1, PairRemoved
  <2> QED  BY <1>2, <1>3, <1>4, <1>8, <2>2 DEF Withheld
<1> QED  BY <1>6, <1>7, <1>8

LEMMA StormInit == Init => StormInv
<1> SUFFICES ASSUME Init, NEW e \in Events
             PROVE  /\ Copies(<<e, 0>>) <= 1 /\ retryQ[<<e, 0>>] = 0
                    /\ \A r \in Levels : r + 1 \in Levels => Grown(<<e, r>>, <<e, r + 1>>)
  BY DEF StormInv
<1>1. \A r \in Levels : <<e, r>> \in Messages
  BY DEF Messages
<1>2. 0 \in Levels
  BY MaxRetriesAssumption DEF Levels
<1>3. \A m \in Messages : Copies(m) = 0 /\ retryQ[m] = 0
  BY DEF Init, None, Copies
<1>4. ASSUME NEW m \in Messages
      PROVE  Pairs(Given(m)) = {}
  <2>1. \A q \in Queues : Given(m)[q] = 0
    BY DEF Init, None, Given
  <2> QED  BY <2>1 DEF Pairs
<1>5. \A m, n \in Messages : Grown(m, n)
  BY <1>3, <1>4, FS_EmptySet DEF Grown, Init
<1> QED  BY <1>1, <1>2, <1>3, <1>5

(* What a step publishes of one level, and what it leaves of the level     *)
(* below.                                                                  *)
LEMMA StormMoves ==
  ASSUME TypeOK, HandInv, [Next]_vars, NEW e \in Events, NEW r \in Levels, r + 1 \in Levels
  PROVE  LET m == <<e, r>>
             n == <<e, r + 1>>
         IN  NotPublished(m, n) \/ \E q \in Queues : Published(m, n, q) \/ Withheld(m, n, q)
<1> DEFINE m == <<e, r>>
           n == <<e, r + 1>>
           Goal == NotPublished(m, n) \/ \E q \in Queues : Published(m, n, q) \/ Withheld(m, n, q)
<1> SUFFICES Goal
  OBVIOUS
<1>a. /\ m \in Messages /\ n \in Messages /\ n[2] > 0
      /\ \A d \in Events : <<d, 0>> # n
  BY MaxRetriesAssumption DEF Messages, Levels
<1>b. /\ routed \in [Messages -> Nat] /\ retryQ \in [Messages -> Nat]
      /\ moved \in [Queues -> [Messages -> Nat]] /\ step \in [Queues -> Steps]
      /\ hand \in [Queues -> Messages \cup {NoMessage}] /\ faults \in Nat
  BY MaxFaultsAssumption DEF TypeOK, Counts
<1>c. \A q \in Queues : /\ step[q] = "idle" => hand[q] = NoMessage
                        /\ step[q] \in {"handling", "handled", "unsettled", "copied"} => hand[q] \in Messages
  BY DEF HandInv
<1>d. \A h \in Messages : RetryOf(h) = n => h = m
  BY MaxRetriesAssumption DEF Messages, Levels, RetryOf
<1>e. RetryOf(m) = n
  BY DEF RetryOf
<1>f. NoMessage # m
  BY <1>a, NoMessageAssumption
<1> HIDE DEF m, n
<1>g. ASSUME UNCHANGED <<moved, routed, retryQ>>, faults' >= faults,
             \A q \in Queues : (step'[q] = "copied" /\ hand'[q] = m) <=> (step[q] = "copied" /\ hand[q] = m)
      PROVE  Goal
  BY <1>g DEF NotPublished, Given, Copies
<1>1. ASSUME NEW d \in Events, Publish(d) PROVE Goal
  <2>1. \A k \in Queues : Given(m)'[k] = Given(m)[k]
    BY <1>1 DEF Publish, Given
  <2>2. Copies(n)' = Copies(n) /\ faults' = faults
    BY <1>a, <1>b, <1>1 DEF Publish, Route, Copies
  <2> QED  BY <1>b, <2>1, <2>2 DEF NotPublished
<1>2. ASSUME NEW d \in Events, EnvelopeExpires(d) PROVE Goal
  BY <1>b, <1>g, <1>2 DEF EnvelopeExpires
<1>3. ASSUME NEW q \in Queues, NEW k \in Messages, Take(q, k) PROVE Goal
  BY <1>b, <1>c, <1>g, <1>3 DEF Take, TakeMalformed, TakeExpired, TakeForHandling, Deliver
<1>4. ASSUME NEW q \in Queues, EndHandling(q) PROVE Goal
  BY <1>b, <1>g, <1>4 DEF EndHandling, HandlerReturns, HandlerRaises
<1>5. ASSUME NEW q \in Queues, Settle(q) PROVE Goal
  <2>1. CASE Commit(q) \/ GiveUp(q)
    BY <1>b, <1>g, <2>1 DEF Commit, GiveUp, AfterSettling
  <2>2. CASE PublishRetry(q)
    <3>1. UNCHANGED <<moved, routed, hand, faults>> /\ step' = [step EXCEPT ![q] = "copied"]
          /\ step[q] = "unsettled" /\ retryQ' = [retryQ EXCEPT ![RetryOf(hand[q])] = @ + 1]
      BY <2>2 DEF PublishRetry
    <3>2. hand[q] \in Messages /\ RetryOf(hand[q]) \in Messages
      BY <1>c, <2>2, <3>1, RetryIsMessage DEF PublishRetry
    <3>3. CASE hand[q] = m
      <4>1. Copies(n)' = Copies(n) + 1
        BY <1>a, <1>b, <1>e, <3>1, <3>3 DEF Copies
      <4>2. Given(m)'[q] = Given(m)[q] + 1
        BY <1>a, <1>b, <3>1, <3>3 DEF Given
      <4>3. \A k \in Queues : k # q => Given(m)'[k] = Given(m)[k]
        BY <1>b, <3>1 DEF Given
      <4> QED  BY <3>1, <4>1, <4>2, <4>3 DEF Published
    <3>4. CASE hand[q] # m
      <4>1. Copies(n)' = Copies(n)
        BY <1>a, <1>b, <1>d, <3>1, <3>2, <3>4 DEF Copies
      <4>2. \A k \in Queues : Given(m)'[k] = Given(m)[k]
        BY <1>b, <3>1, <3>4 DEF Given
      <4> QED  BY <1>b, <3>1, <4>1, <4>2 DEF NotPublished
    <3> QED  BY <3>3, <3>4
  <2>3. CASE AckOriginal(q)
    <3>1. /\ step[q] = "copied" /\ step'[q] # "copied" /\ hand[q] \in Messages
          /\ \A k \in Queues : k # q => step'[k] = step[k] /\ hand'[k] = hand[k]
          /\ moved' = [moved EXCEPT ![q][hand[q]] = @ + 1] /\ UNCHANGED <<routed, retryQ, faults>>
      BY <1>b, <1>c, <2>3 DEF AckOriginal, AfterSettling
    <3>2. \A k \in Queues : Given(m)'[k] = Given(m)[k]
      <4>1. \A k \in Queues : k # q => moved'[k][m] = moved[k][m]
        BY <1>b, <3>1
      <4>2. moved'[q][m] = IF hand[q] = m THEN moved[q][m] + 1 ELSE moved[q][m]
        BY <1>a, <1>b, <3>1
      <4>3. moved[q][m] \in Nat
        BY <1>a, <1>b
      <4> QED  BY <3>1, <4>1, <4>2, <4>3 DEF Given
    <3> QED  BY <1>b, <3>1, <3>2 DEF NotPublished, Copies
  <2> QED  BY <1>5, <2>1, <2>2, <2>3 DEF Settle
<1>6. ASSUME NEW q \in Queues, Failure(q) PROVE Goal
  <2>1. CASE CommitRaises(q)
    BY <1>b, <1>g, <2>1 DEF CommitRaises, Fault
  <2>2. CASE SettlingRaises(q) \/ Restart(q)
    <3>1. /\ faults' = faults + 1 /\ step'[q] # "copied" /\ UNCHANGED <<moved, routed, retryQ>>
          /\ \A k \in Queues : k # q => step'[k] = step[k] /\ hand'[k] = hand[k]
      BY <1>b, <2>2 DEF SettlingRaises, Restart, Fault
    <3>2. \A k \in Queues : k # q => Given(m)'[k] = Given(m)[k]
      BY <3>1 DEF Given
    <3>3. Copies(n)' = Copies(n)
      BY <3>1 DEF Copies
    <3>4. CASE step[q] = "copied" /\ hand[q] = m
      <4>1. moved[q][m] \in Nat
        BY <1>a, <1>b
      <4>2. Given(m)'[q] = Given(m)[q] - 1
        BY <3>1, <3>4, <4>1 DEF Given
      <4> QED  BY <3>1, <3>2, <3>3, <4>2 DEF Withheld
    <3>5. CASE ~(step[q] = "copied" /\ hand[q] = m)
      <4>1. Given(m)'[q] = Given(m)[q]
        BY <3>1, <3>5 DEF Given
      <4> QED  BY <1>b, <3>1, <3>2, <3>3, <4>1 DEF NotPublished
    <3> QED  BY <3>4, <3>5
  <2> QED  BY <1>6, <2>1, <2>2 DEF Failure
<1>7. ASSUME NEW k \in Messages, RetryTtl(k) PROVE Goal
  <2>1. Copies(n)' = Copies(n)
    BY <1>a, <1>b, <1>7 DEF RetryTtl, Route, Copies
  <2>2. \A p \in Queues : Given(m)'[p] = Given(m)[p]
    BY <1>7 DEF RetryTtl, Given
  <2> QED  BY <1>b, <1>7, <2>1, <2>2 DEF RetryTtl, NotPublished
<1>8. ASSUME NEW q \in Queues, NEW d \in Events, BrokerTtl(q, d) PROVE Goal
  BY <1>b, <1>g, <1>8 DEF BrokerTtl
<1>9. CASE UNCHANGED vars
  BY <1>b, <1>g, <1>9 DEF vars
<1> QED  BY <1>1, <1>2, <1>3, <1>4, <1>5, <1>6, <1>7, <1>8, <1>9 DEF Next

(* An event is published once, and no retry is of level 0.                 *)
LEMMA FirstLevel ==
  ASSUME TypeOK, HandInv, [Next]_vars, NEW e \in Events, Copies(<<e, 0>>) <= 1, retryQ[<<e, 0>>] = 0
  PROVE  Copies(<<e, 0>>)' <= 1 /\ retryQ'[<<e, 0>>] = 0
<1> DEFINE n == <<e, 0>>
<1>1. /\ routed \in [Messages -> Nat] /\ retryQ \in [Messages -> Nat]
      /\ \A d \in Events : <<d, 0>> \in Messages
  BY MaxRetriesAssumption DEF TypeOK, Counts, Messages, Levels
<1>2. CASE UNCHANGED <<routed, retryQ>>
  BY <1>2 DEF Copies
<1>3. ASSUME NEW d \in Events, Publish(d)
      PROVE  Copies(n)' <= 1 /\ retryQ'[n] = 0
  <2>1. routed[<<d, 0>>] = 0 /\ routed' = [routed EXCEPT ![<<d, 0>>] = @ + 1] /\ retryQ' = retryQ
    BY <1>3 DEF Publish, Route
  <2>2. CASE d = e
    BY <1>1, <2>1, <2>2 DEF Copies
  <2>3. CASE d # e
    BY <1>1, <2>1, <2>3 DEF Copies
  <2> QED  BY <2>2, <2>3
<1>4. ASSUME NEW q \in Queues, PublishRetry(q)
      PROVE  Copies(n)' <= 1 /\ retryQ'[n] = 0
  <2>1. RetryOf(hand[q]) # n
    BY <1>4, MaxRetriesAssumption DEF PublishRetry, RetryOf, HandInv, Messages, Levels
  <2>2. retryQ'[n] = retryQ[n] /\ routed' = routed
    BY <1>1, <1>4, <2>1 DEF PublishRetry
  <2> QED  BY <2>2 DEF Copies
<1>5. ASSUME NEW m \in Messages, RetryTtl(m)
      PROVE  Copies(n)' <= 1 /\ retryQ'[n] = 0
  <2>1. m # n
    BY <1>5 DEF RetryTtl
  <2> QED  BY <1>1, <1>5, <2>1 DEF RetryTtl, Route, Copies
<1>6. \/ UNCHANGED <<routed, retryQ>> \/ \E d \in Events : Publish(d)
      \/ (\E q \in Queues : PublishRetry(q)) \/ \E m \in Messages : RetryTtl(m)
  BY DEF Next, vars, EnvelopeExpires, EndHandling, HandlerReturns, HandlerRaises, Settle, Commit, GiveUp,
     AckOriginal, Failure, CommitRaises, SettlingRaises, Restart, Take, TakeMalformed, TakeExpired,
     TakeForHandling, BrokerTtl
<1> QED  BY <1>2, <1>3, <1>4, <1>5, <1>6

LEMMA StormStep == TypeOK /\ HandInv /\ TypeOK' /\ StormInv /\ [Next]_vars => StormInv'
<1> SUFFICES ASSUME TypeOK, HandInv, TypeOK', StormInv, [Next]_vars, NEW e \in Events
             PROVE  (/\ Copies(<<e, 0>>) <= 1 /\ retryQ[<<e, 0>>] = 0
                     /\ \A r \in Levels : r + 1 \in Levels => Grown(<<e, r>>, <<e, r + 1>>))'
  BY DEF StormInv
<1>1. Copies(<<e, 0>>)' <= 1 /\ retryQ'[<<e, 0>>] = 0
  BY FirstLevel DEF StormInv
<1>2. ASSUME NEW r \in Levels, r + 1 \in Levels
      PROVE  Grown(<<e, r>>, <<e, r + 1>>)'
  <2>1. <<e, r>> \in Messages /\ <<e, r + 1>> \in Messages /\ Grown(<<e, r>>, <<e, r + 1>>)
    BY <1>2 DEF Messages, StormInv
  <2> QED  BY <1>2, <2>1, StormMoves, GrownKept
<1> QED  BY <1>1, <1>2

LEMMA StormBound == IndInv /\ StormInv => RetryStormBounded
<1> SUFFICES ASSUME IndInv, StormInv, NEW e \in Events, NEW r \in Levels
             PROVE  Copies(<<e, r>>)
                      <= IF r = 0 THEN 1 ELSE Cardinality(BoundTo[e]) * routed[<<e, r - 1>>] + faults
  BY DEF RetryStormBounded, Copies
<1>1. CASE r = 0
  BY <1>1 DEF StormInv
<1>2. CASE r # 0
  <2> DEFINE m == <<e, r - 1>>
             limit == routed[m]
  <2>1. r - 1 \in Levels /\ (r - 1) + 1 = r
    BY <1>2, MaxRetriesAssumption DEF Levels
  <2>2. m \in Messages /\ m[1] = e
    BY <2>1 DEF Messages
  <2>3. Grown(m, <<e, r>>)
    BY <2>1 DEF StormInv
  <2>4. limit \in Nat /\ faults \in Nat /\ Copies(<<e, r>>) \in Nat
    <3>1. <<e, r>> \in Messages
      BY DEF Messages
    <3> QED  BY <2>2, <3>1, MaxFaultsAssumption DEF IndInv, TypeOK, Counts, Copies
  <2>5. \A q \in Queues : Given(m)[q] <= IF q \in BoundTo[e] THEN limit ELSE 0
    <3>1. ASSUME NEW q \in Queues
          PROVE  Given(m)[q] <= IF q \in BoundTo[e] THEN limit ELSE 0
      <4>1. /\ ready[q][m] \in Nat /\ acked[q][m] \in Nat /\ moved[q][m] \in Nat /\ dead[q][m] \in Nat
        BY <2>2 DEF IndInv, TypeOK, Counts
      <4>2. ready[q][m] + InHand(q, m) + acked[q][m] + moved[q][m] + dead[q][m]
              = IF q \in BoundTo[e] THEN limit ELSE 0
        BY <2>2 DEF IndInv, Conservation
      <4>3. Given(m)[q] <= moved[q][m] + InHand(q, m)
        BY <4>1 DEF Given, InHand
      <4>4. InHand(q, m) \in {0, 1}
        BY DEF InHand
      <4>5. Given(m)[q] \in Nat
        BY <2>2, GivenTyped DEF IndInv
      <4> QED  BY <2>4, <4>1, <4>2, <4>3, <4>4, <4>5
    <3> QED  BY <3>1
  <2>6. Given(m) \in [Queues -> Nat]
    BY <2>2, GivenTyped DEF IndInv
  <2> HIDE DEF m, limit
  <2>7. Pairs(Given(m)) \subseteq BoundTo[e] \X (0 .. limit - 1)
    BY <2>4, <2>5, <2>6 DEF Pairs
  <2>8. IsFiniteSet(BoundTo[e])
    BY QueuesAssumption, BoundToAssumption, FS_Subset
  <2>9. IsFiniteSet(0 .. limit - 1) /\ Cardinality(0 .. limit - 1) = limit
    <3>1. 0 \in Int /\ limit - 1 \in Int /\ (limit - 1) - 0 + 1 = limit /\ (0 > limit - 1 => limit = 0)
      BY <2>4
    <3>2. /\ IsFiniteSet(0 .. limit - 1)
          /\ Cardinality(0 .. limit - 1) = IF 0 > limit - 1 THEN 0 ELSE (limit - 1) - 0 + 1
      BY <3>1, FS_Interval
    <3> QED  BY <3>1, <3>2
  <2>10. /\ IsFiniteSet(BoundTo[e] \X (0 .. limit - 1))
         /\ Cardinality(BoundTo[e] \X (0 .. limit - 1)) = Cardinality(BoundTo[e]) * limit
    BY <2>8, <2>9, FS_Product
  <2>11. Cardinality(Pairs(Given(m))) <= Cardinality(BoundTo[e]) * limit
    BY <2>7, <2>10, FS_Subset
  <2> DEFINE product == Cardinality(BoundTo[e]) * limit
             pairs == Cardinality(Pairs(Given(m)))
  <2>12. product \in Nat /\ pairs \in Nat
    BY <2>3, <2>10, FS_CardinalityType DEF Grown
  <2>13. Copies(<<e, r>>) <= pairs + faults
    BY <2>3 DEF Grown
  <2>14. pairs <= product
    BY <2>11
  <2> HIDE DEF product, pairs
  <2>15. Copies(<<e, r>>) <= product + faults
    BY <2>4, <2>12, <2>13, <2>14
  <2> QED  BY <1>2, <2>15 DEF product, limit, m
<1> QED  BY <1>1, <1>2

(* The copies of an event grow from level to level at most by the number   *)
(* of queues bound to it, and by one for each fault.                       *)
THEOREM RetriesBounded == Spec => []RetryStormBounded
<1>1. IndInv /\ StormInv /\ [Next]_vars => StormInv'
  BY TypeStep, StormStep DEF IndInv
<1> QED  BY Inductive, StormInit, <1>1, StormBound, PTL DEF Spec

(***************************************************************************)
(* The transport implements EventDelivery.  A consumer that has published  *)
(* its retry copy finds that copy, waiting in queue.retry or in its own    *)
(* queue, until it acknowledges the original.                              *)
(***************************************************************************)
CopyWaits(q) ==
    LET n == RetryOf(hand[q])
    IN  hand[q][2] < MaxRetries /\ (retryQ[n] > 0 \/ ready[q][n] > 0)

CopiedInv == \A q \in Queues : step[q] = "copied" => CopyWaits(q)

LEMMA BoundHolders ==
  ASSUME IndInv, NEW q \in Queues, NEW m \in Messages, ready[q][m] > 0 \/ hand[q] = m
  PROVE  q \in BoundTo[m[1]]
<1>1. /\ ready[q][m] \in Nat /\ acked[q][m] \in Nat /\ moved[q][m] \in Nat /\ dead[q][m] \in Nat
  BY DEF IndInv, TypeOK, Counts
<1>2. ready[q][m] + InHand(q, m) + acked[q][m] + moved[q][m] + dead[q][m]
        = IF q \in BoundTo[m[1]] THEN routed[m] ELSE 0
  BY DEF IndInv, Conservation
<1> QED  BY <1>1, <1>2 DEF InHand

LEMMA CopiedStep ==
  ASSUME IndInv, CopiedInv, [Next]_vars
  PROVE  CopiedInv'
<1> SUFFICES ASSUME NEW p \in Queues, step'[p] = "copied"
             PROVE  CopyWaits(p)'
  BY DEF CopiedInv
<1>a. /\ ready \in [Queues -> [Messages -> Nat]] /\ retryQ \in [Messages -> Nat]
      /\ step \in [Queues -> Steps] /\ hand \in [Queues -> Messages \cup {NoMessage}]
  BY DEF IndInv, TypeOK, Counts
<1>b. \A q \in Queues : /\ step[q] = "idle" => hand[q] = NoMessage
                        /\ step[q] \in {"handling", "handled", "unsettled", "copied"} => hand[q] \in Messages
  BY DEF IndInv, HandInv
<1> DEFINE n == RetryOf(hand[p])
<1>c. step[p] = "copied" => /\ n \in Messages /\ n[1] = hand[p][1] /\ n[2] > 0
                            /\ hand[p] \in Messages /\ hand[p][2] < MaxRetries
                            /\ retryQ[n] > 0 \/ ready[p][n] > 0
  BY <1>b, RetryIsMessage, MaxRetriesAssumption DEF CopiedInv, CopyWaits, RetryOf, Messages, Levels
<1>d. ASSUME hand'[p] = hand[p], step[p] = "copied", retryQ'[n] > 0 \/ ready'[p][n] > 0
      PROVE  CopyWaits(p)'
  BY <1>c, <1>d DEF CopyWaits, RetryOf
<1> HIDE DEF n
<1>e. ASSUME step[p] = "copied", hand'[p] = hand[p],
             retryQ'[n] \in {retryQ[n], retryQ[n] + 1}, ready'[p][n] \in {ready[p][n], ready[p][n] + 1}
      PROVE  CopyWaits(p)'
  <2>1. retryQ[n] \in Nat /\ ready[p][n] \in Nat
    BY <1>a, <1>c, <1>e
  <2>2. CASE retryQ[n] > 0
    <3>1. retryQ'[n] > 0
      BY <1>e, <2>1, <2>2
    <3> QED  BY <1>d, <1>e, <3>1
  <2>3. CASE ready[p][n] > 0
    <3>1. ready'[p][n] > 0
      BY <1>e, <2>1, <2>3
    <3> QED  BY <1>d, <1>e, <3>1
  <2> QED  BY <1>c, <1>e, <2>2, <2>3
<1>1. ASSUME NEW d \in Events, Publish(d) PROVE CopyWaits(p)'
  <2>1. UNCHANGED <<step, hand, retryQ>> /\ Route(<<d, 0>>) /\ <<d, 0>> \in Messages
    BY <1>1, MaxRetriesAssumption DEF Publish, Messages, Levels
  <2>2. ready'[p][n] \in {ready[p][n], ready[p][n] + 1}
    BY <1>a, <1>c, <2>1 DEF Route
  <2>3. retryQ[n] \in Nat
    BY <1>a, <1>c, <2>1
  <2> QED  BY <1>e, <2>1, <2>2, <2>3
<1>2. ASSUME NEW q \in Queues, NEW m \in Messages, Take(q, m) PROVE CopyWaits(p)'
  <2>1. /\ step[q] = "idle" /\ step'[q] # "copied" /\ retryQ' = retryQ
        /\ \A k \in Queues : k # q => step'[k] = step[k] /\ hand'[k] = hand[k] /\ ready'[k] = ready[k]
    BY <1>a, <1>2 DEF Take, TakeMalformed, TakeExpired, TakeForHandling, Deliver
  <2>2. p # q
    BY <2>1
  <2> QED  BY <1>c, <1>d, <2>1, <2>2
<1>3. ASSUME NEW q \in Queues, EndHandling(q) PROVE CopyWaits(p)'
  <2>1. /\ UNCHANGED <<hand, retryQ, ready>> /\ step'[q] # "copied"
        /\ \A k \in Queues : k # q => step'[k] = step[k]
    BY <1>a, <1>3 DEF EndHandling, HandlerReturns, HandlerRaises
  <2> QED  BY <1>c, <1>d, <2>1
<1>4. ASSUME NEW q \in Queues, Commit(q) \/ GiveUp(q) \/ AckOriginal(q) PROVE CopyWaits(p)'
  <2>1. /\ UNCHANGED <<retryQ, ready>> /\ step'[q] # "copied"
        /\ \A k \in Queues : k # q => step'[k] = step[k] /\ hand'[k] = hand[k]
    BY <1>a, <1>4 DEF Commit, GiveUp, AckOriginal, AfterSettling
  <2> QED  BY <1>c, <1>d, <2>1
<1>5. ASSUME NEW q \in Queues, PublishRetry(q) PROVE CopyWaits(p)'
  <2>1. /\ UNCHANGED <<hand, ready>> /\ step[q] = "unsettled" /\ hand[q][2] < MaxRetries
        /\ retryQ' = [retryQ EXCEPT ![RetryOf(hand[q])] = @ + 1] /\ step' = [step EXCEPT ![q] = "copied"]
    BY <1>5 DEF PublishRetry
  <2>2. RetryOf(hand[q]) \in Messages
    BY <1>b, <2>1, RetryIsMessage
  <2>3. CASE p = q
    <3>1. retryQ'[RetryOf(hand[q])] > 0
      BY <1>a, <2>1, <2>2
    <3> QED  BY <2>1, <2>3, <3>1 DEF CopyWaits, RetryOf
  <2>4. CASE p # q
    <3>1. step[p] = "copied" /\ retryQ[n] \in Nat /\ ready[p][n] \in Nat
      BY <1>a, <1>c, <2>1, <2>4
    <3>2. retryQ'[n] \in {retryQ[n], retryQ[n] + 1} /\ ready'[p][n] = ready[p][n]
      BY <1>a, <1>c, <2>1, <2>2, <3>1
    <3> QED  BY <1>e, <2>1, <3>1, <3>2
  <2> QED  BY <2>3, <2>4
<1>6. ASSUME NEW q \in Queues, Failure(q) PROVE CopyWaits(p)'
  <2>1. /\ step'[q] # "copied" /\ retryQ' = retryQ
        /\ \A k \in Queues : k # q => step'[k] = step[k] /\ hand'[k] = hand[k] /\ ready'[k] = ready[k]
    BY <1>a, <1>6 DEF Failure, CommitRaises, SettlingRaises, Restart
  <2>2. p # q
    BY <2>1
  <2> QED  BY <1>c, <1>d, <2>1, <2>2
<1>7. ASSUME NEW m \in Messages, RetryTtl(m) PROVE CopyWaits(p)'
  <2>1. UNCHANGED <<step, hand>> /\ retryQ' = [retryQ EXCEPT ![m] = @ - 1] /\ Route(m)
    BY <1>7 DEF RetryTtl
  <2>2. step[p] = "copied" /\ hand[p] \in Messages
    BY <1>c, <2>1
  <2>3. p \in BoundTo[hand[p][1]] /\ ready[p][n] \in Nat
    BY <1>a, <1>c, <2>2, BoundHolders
  <2>4. CASE m = n
    <3>1. ready'[p][n] = ready[p][n] + 1
      BY <1>a, <1>c, <2>1, <2>2, <2>3, <2>4 DEF Route
    <3>2. ready'[p][n] > 0
      BY <2>3, <3>1
    <3> QED  BY <1>d, <2>1, <2>2, <3>2
  <2>5. CASE m # n
    <3>1. ready'[p][n] = ready[p][n] /\ retryQ'[n] = retryQ[n]
      BY <1>a, <1>c, <2>1, <2>2, <2>5 DEF Route
    <3> QED  BY <1>c, <1>d, <2>1, <2>2, <3>1
  <2> QED  BY <2>4, <2>5
<1>8. ASSUME NEW q \in Queues, NEW d \in Events, BrokerTtl(q, d) PROVE CopyWaits(p)'
  <2>1. UNCHANGED <<step, hand, retryQ>> /\ ready' = [ready EXCEPT ![q][<<d, 0>>] = @ - 1]
    BY <1>8 DEF BrokerTtl
  <2>2. n # <<d, 0>> /\ ready'[p][n] = ready[p][n]
    BY <1>a, <1>c, <2>1
  <2> QED  BY <1>c, <1>d, <2>1, <2>2
<1>9. CASE UNCHANGED vars \/ \E d \in Events : EnvelopeExpires(d)
  <2>1. UNCHANGED <<step, hand, retryQ, ready>>
    BY <1>9 DEF vars, EnvelopeExpires
  <2> QED  BY <1>c, <1>d, <2>1
<1> QED  BY <1>1, <1>2, <1>3, <1>4, <1>5, <1>6, <1>7, <1>8, <1>9 DEF Next, Settle

(* The state as EventDelivery sees it.                                     *)
published == {e \in Events : routed[<<e, 0>>] > 0}
owed == {p \in Queues \X Events : \E r \in Levels : AtHand(p[1], <<p[2], r>>)}
handled == {p \in Queues \X Events : \E r \in Levels : acked[p[1]][<<p[2], r>>] > 0}
dropped == {p \in Queues \X Events : \E r \in Levels : dead[p[1]][<<p[2], r>>] > 0}

DeliveryInv == IndInv /\ StormInv /\ CopiedInv

LEMMA Owing ==
  ASSUME NEW q \in Queues, NEW m \in Messages
  PROVE  AtHand(q, m) => <<q, m[1]>> \in owed
BY DEF owed, Messages, Levels

(* At most one copy of one queue is settled.                               *)
LEMMA OneSettled ==
  ASSUME NEW q \in Queues, NEW m \in Messages, AtHand(q, m),
         \A p \in Queues, x \in Messages : p # q \/ x # m => (AtHand(p, x)' <=> AtHand(p, x))
  PROVE  owed' \in {owed, owed \ {<<q, m[1]>>}} /\ <<q, m[1]>> \in owed
<1>1. \A e \in Events, r \in Levels : <<e, r>> \in Messages
  BY DEF Messages
<1>2. \A p \in Queues, e \in Events : p # q \/ e # m[1] => (<<p, e>> \in owed' <=> <<p, e>> \in owed)
  <2>1. ASSUME NEW p \in Queues, NEW e \in Events, p # q \/ e # m[1]
        PROVE  <<p, e>> \in owed' <=> <<p, e>> \in owed
    <3>1. \A r \in Levels : p # q \/ <<e, r>> # m
      BY <2>1
    <3>2. \A r \in Levels : AtHand(p, <<e, r>>)' <=> AtHand(p, <<e, r>>)
      BY <1>1, <3>1
    <3> QED  BY <3>2 DEF owed
  <2> QED  BY <2>1
<1>3. <<q, m[1]>> \in owed
  BY Owing
<1>4. owed \subseteq Queues \X Events /\ owed' \subseteq Queues \X Events
  BY DEF owed
<1> HIDE DEF owed
<1>5. CASE <<q, m[1]>> \in owed'
  <2>1. owed' = owed
    BY <1>2, <1>3, <1>4, <1>5
  <2> QED  BY <1>3, <2>1
<1>6. CASE <<q, m[1]>> \notin owed'
  <2>1. owed' = owed \ {<<q, m[1]>>}
    BY <1>2, <1>3, <1>4, <1>6
  <2> QED  BY <1>3, <2>1
<1> QED  BY <1>5, <1>6

LEMMA NoneSettled ==
  ASSUME \A p \in Queues, x \in Messages : AtHand(p, x)' <=> AtHand(p, x)
  PROVE  owed' = owed
BY DEF owed, Messages

LEMMA AllOwed ==
  ASSUME NEW m \in Messages,
         \A p \in Queues, x \in Messages :
             AtHand(p, x)' <=> AtHand(p, x) \/ (x = m /\ p \in BoundTo[m[1]])
  PROVE  owed' = owed \cup (BoundTo[m[1]] \X {m[1]})
<1>1. \A e \in Events, r \in Levels : <<e, r>> \in Messages
  BY DEF Messages
<1>2. m[1] \in Events /\ m[2] \in Levels /\ m = <<m[1], m[2]>> /\ BoundTo[m[1]] \subseteq Queues
  BY BoundToAssumption DEF Messages
<1>3. \A p \in Queues, e \in Events :
        <<p, e>> \in owed' <=> <<p, e>> \in owed \/ (e = m[1] /\ p \in BoundTo[m[1]])
  <2>1. ASSUME NEW p \in Queues, NEW e \in Events
        PROVE  <<p, e>> \in owed' <=> <<p, e>> \in owed \/ (e = m[1] /\ p \in BoundTo[m[1]])
    <3>1. <<p, e>> \in owed' <=> \E r \in Levels : AtHand(p, <<e, r>>)'
      BY DEF owed
    <3>2. <<p, e>> \in owed <=> \E r \in Levels : AtHand(p, <<e, r>>)
      BY DEF owed
    <3>3. \A r \in Levels : AtHand(p, <<e, r>>)' <=>
                            AtHand(p, <<e, r>>) \/ (<<e, r>> = m /\ p \in BoundTo[m[1]])
      BY <1>1
    <3>4. e = m[1] => \E r \in Levels : <<e, r>> = m
      BY <1>2
    <3>5. \A r \in Levels : <<e, r>> = m => e = m[1]
      BY <1>2
    <3> QED  BY <3>1, <3>2, <3>3, <3>4, <3>5
  <2> QED  BY <2>1
<1>4. owed \subseteq Queues \X Events /\ owed' \subseteq Queues \X Events
  BY DEF owed
<1> HIDE DEF owed
<1> QED  BY <1>2, <1>3, <1>4

LEMMA Acknowledged ==
  ASSUME IndInv, NEW q \in Queues, NEW m \in Messages, acked' = [acked EXCEPT ![q][m] = @ + 1]
  PROVE  handled' = handled \cup {<<q, m[1]>>}
<1>1. /\ \A e \in Events, r \in Levels : <<e, r>> \in Messages
      /\ m[1] \in Events /\ m[2] \in Levels /\ m = <<m[1], m[2]>>
  BY DEF Messages
<1>2. acked \in [Queues -> [Messages -> Nat]]
  BY DEF IndInv, TypeOK, Counts
<1>3. \A p \in Queues, x \in Messages : acked'[p][x] > 0 <=> acked[p][x] > 0 \/ (p = q /\ x = m)
  <2>1. ASSUME NEW p \in Queues, NEW x \in Messages
        PROVE  acked'[p][x] > 0 <=> acked[p][x] > 0 \/ (p = q /\ x = m)
    <3>1. acked[p][x] \in Nat /\ acked'[p][x] = IF p = q /\ x = m THEN acked[p][x] + 1 ELSE acked[p][x]
      BY <1>2
    <3> QED  BY <3>1
  <2> QED  BY <2>1
<1>4. \A p \in Queues, e \in Events : <<p, e>> \in handled' <=> <<p, e>> \in handled \/ (p = q /\ e = m[1])
  <2>1. ASSUME NEW p \in Queues, NEW e \in Events
        PROVE  <<p, e>> \in handled' <=> <<p, e>> \in handled \/ (p = q /\ e = m[1])
    <3>1. /\ <<p, e>> \in handled' <=> \E r \in Levels : acked'[p][<<e, r>>] > 0
          /\ <<p, e>> \in handled <=> \E r \in Levels : acked[p][<<e, r>>] > 0
      BY DEF handled
    <3>2. \A r \in Levels : acked'[p][<<e, r>>] > 0 <=> acked[p][<<e, r>>] > 0 \/ (p = q /\ <<e, r>> = m)
      BY <1>1, <1>3
    <3>3. (e = m[1] => \E r \in Levels : <<e, r>> = m) /\ \A r \in Levels : <<e, r>> = m => e = m[1]
      BY <1>1
    <3> QED  BY <3>1, <3>2, <3>3
  <2> QED  BY <2>1
<1>5. handled \subseteq Queues \X Events /\ handled' \subseteq Queues \X Events
  BY DEF handled
<1> HIDE DEF handled
<1> QED  BY <1>1, <1>4, <1>5

LEMMA DeadLettered ==
  ASSUME IndInv, NEW q \in Queues, NEW m \in Messages, dead' = [dead EXCEPT ![q][m] = @ + 1]
  PROVE  dropped' = dropped \cup {<<q, m[1]>>}
<1>1. /\ \A e \in Events, r \in Levels : <<e, r>> \in Messages
      /\ m[1] \in Events /\ m[2] \in Levels /\ m = <<m[1], m[2]>>
  BY DEF Messages
<1>2. dead \in [Queues -> [Messages -> Nat]]
  BY DEF IndInv, TypeOK, Counts
<1>3. \A p \in Queues, x \in Messages : dead'[p][x] > 0 <=> dead[p][x] > 0 \/ (p = q /\ x = m)
  <2>1. ASSUME NEW p \in Queues, NEW x \in Messages
        PROVE  dead'[p][x] > 0 <=> dead[p][x] > 0 \/ (p = q /\ x = m)
    <3>1. dead[p][x] \in Nat /\ dead'[p][x] = IF p = q /\ x = m THEN dead[p][x] + 1 ELSE dead[p][x]
      BY <1>2
    <3> QED  BY <3>1
  <2> QED  BY <2>1
<1>4. \A p \in Queues, e \in Events : <<p, e>> \in dropped' <=> <<p, e>> \in dropped \/ (p = q /\ e = m[1])
  <2>1. ASSUME NEW p \in Queues, NEW e \in Events
        PROVE  <<p, e>> \in dropped' <=> <<p, e>> \in dropped \/ (p = q /\ e = m[1])
    <3>1. /\ <<p, e>> \in dropped' <=> \E r \in Levels : dead'[p][<<e, r>>] > 0
          /\ <<p, e>> \in dropped <=> \E r \in Levels : dead[p][<<e, r>>] > 0
      BY DEF dropped
    <3>2. \A r \in Levels : dead'[p][<<e, r>>] > 0 <=> dead[p][<<e, r>>] > 0 \/ (p = q /\ <<e, r>> = m)
      BY <1>1, <1>3
    <3>3. (e = m[1] => \E r \in Levels : <<e, r>> = m) /\ \A r \in Levels : <<e, r>> = m => e = m[1]
      BY <1>1
    <3> QED  BY <3>1, <3>2, <3>3
  <2> QED  BY <2>1
<1>5. dropped \subseteq Queues \X Events /\ dropped' \subseteq Queues \X Events
  BY DEF dropped
<1> HIDE DEF dropped
<1> QED  BY <1>1, <1>4, <1>5

(* EventDelivery's actions, in terms of the transport's state.             *)
Settles(q, e) == <<q, e>> \in owed /\ owed' \in {owed, owed \ {<<q, e>>}}

Delivers ==
    \/ UNCHANGED <<published, owed, handled, dropped>>
    \/ \E e \in Events : /\ e \notin published /\ published' = published \cup {e}
                         /\ owed' = owed \cup (BoundTo[e] \X {e}) /\ UNCHANGED <<handled, dropped>>
    \/ \E q \in Queues, e \in Events :
         \/ Settles(q, e) /\ handled' = handled \cup {<<q, e>>} /\ UNCHANGED <<published, dropped>>
         \/ Settles(q, e) /\ dropped' = dropped \cup {<<q, e>>} /\ UNCHANGED <<published, handled>>
         \/ <<q, e>> \in owed /\ owed' = owed \cup (BoundTo[e] \X {e})
            /\ UNCHANGED <<published, handled, dropped>>

LEMMA DeliveryStep ==
  ASSUME DeliveryInv, [Next]_vars
  PROVE  Delivers
<1>a. /\ ready \in [Queues -> [Messages -> Nat]] /\ retryQ \in [Messages -> Nat]
      /\ step \in [Queues -> Steps] /\ hand \in [Queues -> Messages \cup {NoMessage}]
      /\ routed \in [Messages -> Nat]
  BY DEF DeliveryInv, IndInv, TypeOK, Counts
<1>b. \A q \in Queues : /\ step[q] = "idle" => hand[q] = NoMessage
                        /\ step[q] \in {"handling", "handled", "unsettled", "copied"} => hand[q] \in Messages
  BY DEF DeliveryInv, IndInv, HandInv
<1>c. \A e \in Events : <<e, 0>> \in Messages
  BY MaxRetriesAssumption DEF Messages, Levels
<1>d. \A m \in Messages : m[1] \in Events /\ m # NoMessage
  BY NoMessageAssumption DEF Messages
<1>e. \A m \in Messages, q \in Queues : ready[q][m] \in Nat
  BY <1>a
<1>f. IndInv
  BY DEF DeliveryInv
<1>1. ASSUME NEW d \in Events, Publish(d) PROVE Delivers
  <2> DEFINE m == <<d, 0>>
  <2>1. m \in Messages /\ m[1] = d /\ Route(m) /\ routed[m] = 0 /\ UNCHANGED <<hand, retryQ, acked, dead>>
    BY <1>c, <1>1 DEF Publish
  <2>2. published' = published \cup {d} /\ d \notin published
    BY <1>a, <1>c, <2>1 DEF Route, published
  <2> HIDE DEF m
  <2>3. \A p \in Queues, x \in Messages : AtHand(p, x)' <=> AtHand(p, x) \/ (x = m /\ p \in BoundTo[m[1]])
    BY <1>a, <1>e, <2>1 DEF AtHand, Route
  <2>4. owed' = owed \cup (BoundTo[d] \X {d})
    BY <2>1, <2>3, AllOwed
  <2>5. handled' = handled /\ dropped' = dropped
    BY <2>1 DEF handled, dropped
  <2> QED  BY <2>2, <2>4, <2>5 DEF Delivers
<1>2. ASSUME NEW q \in Queues, NEW m \in Messages, TakeMalformed(q, m) \/ TakeForHandling(q, m)
      PROVE  Delivers
  <2>1. /\ step[q] = "idle" /\ ready[q][m] > 0 /\ ready' = [ready EXCEPT ![q][m] = @ - 1]
        /\ hand' = [hand EXCEPT ![q] = m] /\ UNCHANGED <<retryQ, acked, dead, routed>>
    BY <1>2 DEF TakeMalformed, TakeForHandling, Deliver
  <2>2. \A p \in Queues, x \in Messages : AtHand(p, x)' <=> AtHand(p, x)
    BY <1>a, <1>b, <1>d, <1>e, <2>1 DEF AtHand
  <2>3. owed' = owed
    BY <2>2, NoneSettled
  <2> QED  BY <2>1, <2>3 DEF Delivers, published, handled, dropped
<1>3. ASSUME NEW q \in Queues, NEW m \in Messages,
             ready[q][m] > 0, ready' = [ready EXCEPT ![q][m] = @ - 1], dead' = [dead EXCEPT ![q][m] = @ + 1],
             UNCHANGED <<hand, retryQ, acked, routed>>
      PROVE  Delivers
  <2>1. AtHand(q, m) /\ \A p \in Queues, x \in Messages : p # q \/ x # m => (AtHand(p, x)' <=> AtHand(p, x))
    BY <1>a, <1>3 DEF AtHand
  <2>2. Settles(q, m[1])
    BY <2>1, OneSettled DEF Settles
  <2>3. dropped' = dropped \cup {<<q, m[1]>>}
    BY <1>f, <1>3, DeadLettered
  <2> QED  BY <1>d, <1>3, <2>2, <2>3 DEF Delivers, published, handled
<1>4. ASSUME NEW q \in Queues, NEW m \in Messages, TakeExpired(q, m) PROVE Delivers
  BY <1>3, <1>4 DEF TakeExpired, Deliver
<1>5. ASSUME NEW q \in Queues, NEW d \in Events, BrokerTtl(q, d) PROVE Delivers
  BY <1>3, <1>5, <1>c DEF BrokerTtl
<1>6. ASSUME NEW q \in Queues, hand[q] \in Messages, hand' = [hand EXCEPT ![q] = NoMessage],
             UNCHANGED <<ready, retryQ, routed>>,
             \/ acked' = [acked EXCEPT ![q][hand[q]] = @ + 1] /\ dead' = dead
             \/ dead' = [dead EXCEPT ![q][hand[q]] = @ + 1] /\ acked' = acked
      PROVE  Delivers
  <2> DEFINE m == hand[q]
  <2>1. AtHand(q, m) /\ \A p \in Queues, x \in Messages : p # q \/ x # m => (AtHand(p, x)' <=> AtHand(p, x))
    BY <1>a, <1>d, <1>6 DEF AtHand
  <2>2. Settles(q, m[1])
    BY <1>6, <2>1, OneSettled DEF Settles
  <2>3. published' = published
    BY <1>6 DEF published
  <2>4. CASE acked' = [acked EXCEPT ![q][hand[q]] = @ + 1] /\ dead' = dead
    <3>1. handled' = handled \cup {<<q, m[1]>>}
      BY <1>f, <1>6, <2>4, Acknowledged
    <3> QED  BY <1>d, <1>6, <2>2, <2>3, <2>4, <3>1 DEF Delivers, dropped
  <2>5. CASE dead' = [dead EXCEPT ![q][hand[q]] = @ + 1] /\ acked' = acked
    <3>1. dropped' = dropped \cup {<<q, m[1]>>}
      BY <1>f, <1>6, <2>5, DeadLettered
    <3> QED  BY <1>d, <1>6, <2>2, <2>3, <2>5, <3>1 DEF Delivers, handled
  <2> QED  BY <1>6, <2>4, <2>5
<1>7. ASSUME NEW q \in Queues, Commit(q) \/ GiveUp(q) PROVE Delivers
  BY <1>6, <1>7, <1>b DEF Commit, GiveUp
<1>8. ASSUME NEW q \in Queues, PublishRetry(q) PROVE Delivers
  <2> DEFINE m == hand[q]
             n == RetryOf(m)
  <2>1. /\ m \in Messages /\ n \in Messages /\ n[1] = m[1]
        /\ retryQ' = [retryQ EXCEPT ![n] = @ + 1] /\ UNCHANGED <<ready, hand, acked, dead, routed>>
    BY <1>b, <1>8, RetryIsMessage DEF PublishRetry
  <2>2. <<q, m[1]>> \in owed
    BY <2>1, Owing DEF AtHand
  <2> HIDE DEF n
  <2>3. \A p \in Queues, x \in Messages : AtHand(p, x)' <=> AtHand(p, x) \/ (x = n /\ p \in BoundTo[n[1]])
    BY <1>a, <2>1 DEF AtHand
  <2>4. owed' = owed \cup (BoundTo[m[1]] \X {m[1]})
    BY <2>1, <2>3, AllOwed
  <2> QED  BY <1>d, <2>1, <2>2, <2>4 DEF Delivers, published, handled, dropped
<1>9. ASSUME NEW q \in Queues, AckOriginal(q) PROVE Delivers
  <2>1. /\ step[q] = "copied" /\ hand' = [hand EXCEPT ![q] = NoMessage]
        /\ UNCHANGED <<ready, retryQ, acked, dead, routed>>
    BY <1>9 DEF AckOriginal
  <2>2. PICK m \in Messages : hand[q] = m
    BY <1>b, <2>1
  <2>3. m[2] < MaxRetries
    BY <2>1, <2>2 DEF DeliveryInv, CopiedInv, CopyWaits
  <2>4. PICK n \in Messages : n = RetryOf(m)
    BY <2>3, RetryIsMessage
  <2>5. n[1] = m[1] /\ n # m /\ (retryQ[n] > 0 \/ ready[q][n] > 0)
    <3>1. retryQ[n] > 0 \/ ready[q][n] > 0
      BY <2>1, <2>2, <2>4 DEF DeliveryInv, CopiedInv, CopyWaits
    <3>2. n[1] = m[1] /\ n # m
      BY <2>4 DEF RetryOf, Messages, Levels
    <3> QED  BY <3>1, <3>2
  <2>6. q \in BoundTo[m[1]]
    BY <1>f, <2>2, BoundHolders
  <2>7. AtHand(q, m) /\ \A p \in Queues, x \in Messages : p # q \/ x # m => (AtHand(p, x)' <=> AtHand(p, x))
    BY <1>a, <1>d, <2>1, <2>2 DEF AtHand
  <2>8. AtHand(q, n)
    BY <2>5, <2>6 DEF AtHand
  <2>9. AtHand(q, n)'
    BY <2>5, <2>7, <2>8
  <2>10. \E r \in Levels : AtHand(q, <<m[1], r>>)'
    <3>1. n[2] \in Levels /\ n = <<m[1], n[2]>>
      BY <2>5 DEF Messages
    <3> QED  BY <2>9, <3>1
  <2>11. <<q, m[1]>> \in owed'
    BY <1>d, <2>10 DEF owed
  <2>12. owed' \in {owed, owed \ {<<q, m[1]>>}}
    BY <2>7, OneSettled
  <2> HIDE DEF owed
  <2>13. owed' = owed
    BY <2>11, <2>12
  <2>14. UNCHANGED <<published, handled, dropped>>
    BY <2>1 DEF published, handled, dropped
  <2> QED  BY <2>13, <2>14 DEF Delivers
<1>10. ASSUME NEW q \in Queues, Restart(q) PROVE Delivers
  <2>1. CASE hand[q] = NoMessage
    <3>1. UNCHANGED <<ready, retryQ, acked, dead, routed>> /\ hand' = hand
      BY <1>a, <1>10, <2>1 DEF Restart
    <3> QED  BY <3>1 DEF Delivers, published, owed, AtHand, handled, dropped
  <2>2. CASE hand[q] # NoMessage
    <3>1. /\ hand[q] \in Messages /\ ready' = [ready EXCEPT ![q][hand[q]] = @ + 1]
          /\ hand' = [hand EXCEPT ![q] = NoMessage] /\ UNCHANGED <<retryQ, acked, dead, routed>>
      BY <1>a, <1>10, <2>2 DEF Restart
    <3>2. \A p \in Queues, x \in Messages : AtHand(p, x)' <=> AtHand(p, x)
      BY <1>a, <1>d, <1>e, <3>1 DEF AtHand
    <3>3. owed' = owed
      BY <3>2, NoneSettled
    <3> QED  BY <3>1, <3>3 DEF Delivers, published, handled, dropped
  <2> QED  BY <2>1, <2>2
<1>11. ASSUME NEW m \in Messages, RetryTtl(m) PROVE Delivers
  <2>1. /\ retryQ[m] > 0 /\ retryQ' = [retryQ EXCEPT ![m] = @ - 1] /\ Route(m)
        /\ UNCHANGED <<hand, acked, dead>>
    BY <1>11 DEF RetryTtl
  <2>2. \A e \in Events : <<e, 0>> # m
    BY <2>1 DEF DeliveryInv, StormInv
  <2>3. published' = published
    BY <1>a, <1>c, <2>1, <2>2 DEF published, Route
  <2>4. \A p \in Queues, x \in Messages : AtHand(p, x)' <=> AtHand(p, x)
    BY <1>a, <1>e, <2>1 DEF AtHand, Route
  <2>5. owed' = owed
    BY <2>4, NoneSettled
  <2> QED  BY <2>1, <2>3, <2>5 DEF Delivers, handled, dropped
<1>12. CASE UNCHANGED <<ready, hand, retryQ, acked, dead, routed>>
  BY <1>12 DEF Delivers, published, owed, AtHand, handled, dropped
<1>13. \/ UNCHANGED <<ready, hand, retryQ, acked, dead, routed>>
       \/ \E d \in Events : Publish(d) \/ \E q \in Queues : BrokerTtl(q, d)
       \/ \E q \in Queues : Commit(q) \/ GiveUp(q) \/ PublishRetry(q) \/ AckOriginal(q) \/ Restart(q)
       \/ \E q \in Queues, m \in Messages : TakeMalformed(q, m) \/ TakeForHandling(q, m) \/ TakeExpired(q, m)
       \/ \E m \in Messages : RetryTtl(m)
  BY DEF Next, vars, EnvelopeExpires, EndHandling, HandlerReturns, HandlerRaises, Settle, Failure,
     CommitRaises, SettlingRaises, Take
<1> QED  BY <1>1, <1>2, <1>4, <1>5, <1>7, <1>8, <1>9, <1>10, <1>11, <1>12, <1>13

(* The transport keeps the promise of EventDelivery, for any queues,       *)
(* bindings, retry limit and faults.                                       *)
THEOREM TransportImplementsDelivery == Spec => ImplementsDelivery
<1>1. Init => DeliveryInv /\ Delivery!Init
  <2> SUFFICES ASSUME Init PROVE DeliveryInv /\ Delivery!Init
    OBVIOUS
  <2>1. IndInv /\ StormInv
    BY InitInd, StormInit
  <2>2. CopiedInv
    BY DEF Init, CopiedInv
  <2>3. \A e \in Events, r \in Levels : <<e, r>> \in Messages /\ <<e, r>> # NoMessage
    BY NoMessageAssumption DEF Messages
  <2>4. 0 \in Levels
    BY MaxRetriesAssumption DEF Levels
  <2>5. \A m \in Messages :
          /\ routed[m] = 0 /\ retryQ[m] = 0
          /\ \A q \in Queues : /\ ready[q][m] = 0 /\ acked[q][m] = 0 /\ dead[q][m] = 0
                               /\ hand[q] = NoMessage
    BY DEF Init, None
  <2>6. published = {}
    BY <2>3, <2>4, <2>5 DEF published
  <2>7. owed = {}
    <3>1. \A q \in Queues, m \in Messages : m # NoMessage => ~AtHand(q, m)
      BY <2>5 DEF AtHand
    <3> QED  BY <2>3, <3>1 DEF owed
  <2>8. handled = {} /\ dropped = {}
    <3>1. \A q \in Queues, m \in Messages : ~(acked[q][m] > 0) /\ ~(dead[q][m] > 0)
      BY <2>5
    <3> QED  BY <2>3, <3>1 DEF handled, dropped
  <2>9. Delivery!Init
    BY <2>6, <2>7, <2>8 DEF Delivery!Init, published, owed, handled, dropped
  <2> QED  BY <2>1, <2>2, <2>9 DEF DeliveryInv
<1>2. DeliveryInv /\ [Next]_vars => DeliveryInv'
  BY TypeStep, HandStep, ConservationStep, NotLostStep, StormStep, CopiedStep DEF DeliveryInv, IndInv
<1>3. DeliveryInv /\ [Next]_vars => [Delivery!Next]_Delivery!vars
  <2>1. Delivers => [Delivery!Next]_Delivery!vars
    BY DEF Delivers, Settles, published, owed, handled, dropped, Delivery!vars, Delivery!Next,
       Delivery!Publish, Delivery!Handle, Delivery!Drop, Delivery!Again, Delivery!Settles, Delivery!OwedToAll
  <2> QED  BY <2>1, DeliveryStep
<1> QED  BY <1>1, <1>2, <1>3, PTL DEF Spec, ImplementsDelivery, Delivery!Spec
=============================================================================
