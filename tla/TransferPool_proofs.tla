------------------------ MODULE TransferPool_proofs ------------------------
(***************************************************************************)
(* Theorems about TransferPool, for any number of pools, transfers, relays *)
(* and limits, any pool size and any cap on the marks.                     *)
(***************************************************************************)
EXTENDS TransferPool, FiniteSetTheorems, SequenceTheorems, TLAPS

(* What is left of a sequence when one element is removed. *)
LEMMA RemoveAtProperties ==
    ASSUME NEW S, NEW s \in Seq(S), NEW i \in 1..Len(s)
    PROVE  /\ RemoveAt(s, i) \in Seq(S)
           /\ Len(RemoveAt(s, i)) = Len(s) - 1
           /\ \A j \in 1..(Len(s) - 1) :
                RemoveAt(s, i)[j] = IF j < i THEN s[j] ELSE s[j + 1]
<1> DEFINE a == SubSeq(s, 1, i - 1)
           b == SubSeq(s, i + 1, Len(s))
<1>1. a \in Seq(S) /\ Len(a) = i - 1 /\ \A j \in 1..(i - 1) : a[j] = s[j]
  OBVIOUS
<1>2. b \in Seq(S) /\ Len(b) = Len(s) - i /\ \A j \in 1..(Len(s) - i) : b[j] = s[i + j]
  OBVIOUS
<1>3. RemoveAt(s, i) = a \o b
  BY DEF RemoveAt
<1> HIDE DEF a, b
<1>4. a \o b \in Seq(S) /\ Len(a \o b) = Len(s) - 1
  <2>1. a \in Seq(S) /\ Len(a) = i - 1 /\ b \in Seq(S) /\ Len(b) = Len(s) - i
    BY <1>1, <1>2
  <2>2. a \o b \in Seq(S) /\ Len(a \o b) = Len(a) + Len(b)
    BY <2>1
  <2>3. QED
    BY <2>1, <2>2
<1>5. ASSUME NEW j \in 1..(Len(s) - 1)
      PROVE  (a \o b)[j] = IF j < i THEN s[j] ELSE s[j + 1]
  <2>1. CASE j < i
    BY <1>1, <1>2, <2>1
  <2>2. CASE ~(j < i)
    <3>1. (a \o b)[j] = b[j - Len(a)] /\ j - Len(a) = j - i + 1
      BY <1>1, <1>2, <2>2
    <3>2. b[j - i + 1] = s[i + (j - i + 1)]
      BY <1>2, <2>2
    <3>3. QED
      BY <1>1, <2>2, <3>1, <3>2
  <2>3. QED
    BY <2>1, <2>2
<1>6. QED
  BY <1>3, <1>4, <1>5

(* Every transfer is a leg and belongs to a pool. *)
LEMMA LegTypes ==
    /\ \A t \in Tasks : t \in Legs
    /\ \A r \in Relays : SrcLeg[r] \in Legs /\ DstLeg[r] \in Legs
    /\ \A l \in Legs : PoolOf[l] \in Pools
    /\ \A r \in Relays : SrcPool(r) \in Pools /\ DstPool(r) \in Pools
  BY PoolAssumption DEF Legs, RelayLegs, SrcPool, DstPool

(* Whoever asks for workers may stand in line for the gate. *)
LEMMA GrowerTypes ==
    /\ \A t \in Tasks : CallGrower(t) \in Growers
    /\ \A l \in Legs : ReplaceGrower(l) \in Growers
    /\ \A r \in Relays : RelayGrower(r) \in Growers
  BY DEF Growers, CallGrower, ReplaceGrower, RelayGrower

(* One pool's value is replaced, or none is. *)
LEMMA PutValue ==
    ASSUME NEW S, NEW f \in [Pools -> S], NEW p \in Pools, NEW s \in S,
           NEW g, g = f \/ g = [f EXCEPT ![p] = s]
    PROVE  g \in [Pools -> S]
<1>1. [f EXCEPT ![p] = s] \in [Pools -> S]
  OBVIOUS
<1>2. QED
  BY <1>1

(* A leg taken out of the middle of a queue leaves queues of legs. *)
LEMMA QueueRemoval ==
    ASSUME NEW f \in [Pools -> Seq(Legs)], NEW p \in Pools, NEW i \in DOMAIN f[p]
    PROVE  [f EXCEPT ![p] = RemoveAt(@, i)] \in [Pools -> Seq(Legs)]
<1>1. f[p] \in Seq(Legs) /\ i \in 1..Len(f[p])
  OBVIOUS
<1>2. RemoveAt(f[p], i) \in Seq(Legs)
  BY <1>1, RemoveAtProperties
<1>3. QED
  BY <1>2

(* Answer keeps the types of what it changes. *)
LEMMA AnswerTypes ==
    ASSUME TypeOK, NEW ls, NEW why \in Answers, Answer(ls, why)
    PROVE  /\ answer' \in [Legs -> Answers]
           /\ caller' \in [Tasks -> CallerStates]
           /\ seen' \in [Tasks -> Nat]
<1>1. /\ answer \in [Legs -> Answers]
      /\ caller \in [Tasks -> CallerStates]
      /\ seen \in [Tasks -> Nat]
  BY DEF TypeOK
<1>2. "done" \in CallerStates
  BY DEF CallerStates
<1>3. answer' \in [Legs -> Answers]
  BY <1>1 DEF Answer
<1>4. caller' \in [Tasks -> CallerStates]
  BY <1>1, <1>2 DEF Answer
<1>5. seen' \in [Tasks -> Nat]
  BY <1>1 DEF Answer
<1>6. QED
  BY <1>3, <1>4, <1>5

(* ensure_workers_for keeps the types of what it changes. *)
LEMMA EnsureTypes ==
    ASSUME TypeOK, NEW p \in Pools, NEW g \in Growers, EnsureWorkers(p, g)
    PROVE  /\ growthChanged' \in [Pools -> BOOLEAN]
           /\ growingGate' \in [Pools -> Seq(Growers)]
           /\ growth' \in [Pools -> Growths]
<1>1. /\ growthChanged \in [Pools -> BOOLEAN] /\ growingGate \in [Pools -> Seq(Growers)]
      /\ growth \in [Pools -> Growths]
  BY DEF TypeOK
<1>2. growthChanged' \in [Pools -> BOOLEAN]
  BY <1>1 DEF EnsureWorkers
<1>3. growingGate' \in [Pools -> Seq(Growers)]
  BY <1>1 DEF EnsureWorkers
<1>4. QED
  BY <1>1, <1>2, <1>3 DEF EnsureWorkers

(* The end of a runner keeps the types of what it changes. *)
LEMMA SettleTypes ==
    ASSUME TypeOK, NEW l \in Legs, NEW alive \in BOOLEAN, Settle(l, alive)
    PROVE  /\ active' \in [Pools -> SUBSET Legs]
           /\ workers' \in [Pools -> Nat]
           /\ runner' \in [Legs -> RunnerStates]
<1>1. /\ active \in [Pools -> SUBSET Legs] /\ workers \in [Pools -> Nat]
      /\ runner \in [Legs -> RunnerStates] /\ PoolOf[l] \in Pools
  BY LegTypes DEF TypeOK
<1>2. active' \in [Pools -> SUBSET Legs]
  BY <1>1 DEF Settle
<1>3. workers' \in [Pools -> Nat]
  BY <1>1 DEF Settle
<1>4. \E to \in RunnerStates : runner' = [runner EXCEPT ![l] = to]
  BY DEF Settle, RunnerStates
<1>5. QED
  BY <1>1, <1>2, <1>3, <1>4
-----------------------------------------------------------------------------
(* What the types rest on: a relay that grows or waits has its turn, so it  *)
(* can give it back; a grower that waits for a login has one pending.       *)
TurnIsHeld ==
    \A r \in Relays : relay[r] \in {"growingSrc", "growingDst", "wait"} => HasTurn(r)
LoginIsPending ==
    \A p \in Pools : growth[p].at = "select" => growth[p].connecting > 0

(* Every action keeps the types. *)
LEMMA TypeStep == TypeOK /\ TurnIsHeld /\ LoginIsPending /\ Next => TypeOK'
<1> SUFFICES ASSUME TypeOK, TurnIsHeld, LoginIsPending, Next PROVE TypeOK'
  OBVIOUS
<1> USE DEF stateVars, closeVars, growVars, userVars, runVars
<1>limit. limit \in Limits
  BY DEF TypeOK
<1>permits. permits \subseteq Legs
  BY DEF TypeOK
<1>workers. workers \in [Pools -> Nat]
  BY DEF TypeOK
<1>queue. queue \in [Pools -> Seq(Legs)]
  BY DEF TypeOK
<1>active. active \in [Pools -> SUBSET Legs]
  BY DEF TypeOK
<1>cancelled. cancelled \in [Pools -> {marks \in Seq(Legs) : Len(marks) <= CancelledCap}]
  BY DEF TypeOK
<1>retry. retryGrowthAfter \in [Pools -> {"none", "cooling", "over"}]
  BY DEF TypeOK
<1>closing. closing \in [Pools -> {"open", "closing", "taken", "destroyed", "idle"}]
  BY DEF TypeOK
<1>doomed. doomed \in [Pools -> SUBSET Legs]
  BY DEF TypeOK
<1>releases. releases \in [Pools -> Nat]
  BY DEF TypeOK
<1>gate. growingGate \in [Pools -> Seq(Growers)]
  BY DEF TypeOK
<1>growth. growth \in [Pools -> Growths]
  BY DEF TypeOK
<1>changed. growthChanged \in [Pools -> BOOLEAN]
  BY DEF TypeOK
<1>turn. pairTurn \in [Pools -> Seq(Relays)]
  BY DEF TypeOK
<1>caller. caller \in [Tasks -> CallerStates]
  BY DEF TypeOK
<1>seen. seen \in [Tasks -> Nat]
  BY DEF TypeOK
<1>relay. relay \in [Relays -> RelayStates]
  BY DEF TypeOK
<1>runner. runner \in [Legs -> RunnerStates]
  BY DEF TypeOK
<1>token. token \in [Legs -> BOOLEAN]
  BY DEF TypeOK
<1>result. result \in [Legs -> {"none", "done", "cancelled"}]
  BY DEF TypeOK
<1>answer. answer \in [Legs -> Answers]
  BY DEF TypeOK
<1>stopped. stopped \subseteq Legs
  BY DEF TypeOK
<1>legs. /\ \A t \in Tasks : t \in Legs /\ PoolOf[t] \in Pools
        /\ \A l \in Legs : PoolOf[l] \in Pools
  BY LegTypes
<1>rlegs. \A r \in Relays : SrcLeg[r] \in Legs /\ DstLeg[r] \in Legs
  BY LegTypes
<1>pools. \A r \in Relays : SrcPool(r) \in Pools /\ DstPool(r) \in Pools
  BY LegTypes
<1>1. ASSUME NEW p \in Pools, Drain(p) PROVE TypeOK'
  <2>1. Head(queue[p]) \in Legs /\ Tail(queue[p]) \in Seq(Legs)
    BY <1>1, <1>queue DEF Drain, CanDispatch
  <2>2. workers' \in [Pools -> Nat]
    BY <1>1, <1>workers DEF Drain, CanDispatch, Dispatch
  <2>3. queue' \in [Pools -> Seq(Legs)]
    BY <1>1, <2>1, <1>queue DEF Drain, Dispatch
  <2>4. active' \in [Pools -> SUBSET Legs]
    BY <1>1, <2>1, <1>active DEF Drain, Dispatch
  <2>5. runner' \in [Legs -> RunnerStates]
    BY <1>1, <2>1, <1>runner DEF Drain, Dispatch, RunnerStates
  <2>6. releases' \in [Pools -> Nat]
    BY <1>1, <1>releases DEF Drain, Dispatch
  <2>7. QED
    BY <1>1, <2>1, <2>2, <2>3, <2>4, <2>5, <2>6 DEF TypeOK, Drain
<1>2. ASSUME NEW t \in Tasks, Submit(t) PROVE TypeOK'
  <2>1. /\ PoolOf[t] \in Pools
        /\ queue' = queue
            \/ queue' = [queue EXCEPT ![PoolOf[t]] = Append(queue[PoolOf[t]], t)]
    BY <1>2, <1>legs DEF Submit
  <2>2. Append(queue[PoolOf[t]], t) \in Seq(Legs)
    BY <1>queue, <1>legs
  <2>3. queue' \in [Pools -> Seq(Legs)]
    BY <2>1, <2>2, <1>queue, PutValue
  <2>4. cancelled' = cancelled \/ \E i \in DOMAIN cancelled[PoolOf[t]] :
            cancelled' = [cancelled EXCEPT ![PoolOf[t]] = RemoveAt(cancelled[PoolOf[t]], i)]
    BY <1>2 DEF Submit
  <2>5. cancelled' \in [Pools -> {marks \in Seq(Legs) : Len(marks) <= CancelledCap}]
    <3> DEFINE p == PoolOf[t]
               Marks == {marks \in Seq(Legs) : Len(marks) <= CancelledCap}
    <3>1. p \in Pools /\ cancelled \in [Pools -> Marks]
      BY <1>legs, <1>cancelled
    <3>2. \A i \in DOMAIN cancelled[p] : RemoveAt(cancelled[p], i) \in Marks
      <4>1. SUFFICES ASSUME NEW i \in DOMAIN cancelled[p]
                     PROVE  RemoveAt(cancelled[p], i) \in Marks
        OBVIOUS
      <4>2. /\ cancelled[p] \in Seq(Legs) /\ i \in 1..Len(cancelled[p])
            /\ Len(cancelled[p]) <= CancelledCap
        BY <3>1
      <4>3. /\ RemoveAt(cancelled[p], i) \in Seq(Legs)
            /\ Len(RemoveAt(cancelled[p], i)) = Len(cancelled[p]) - 1
        BY <4>2, RemoveAtProperties
      <4>4. Len(RemoveAt(cancelled[p], i)) <= CancelledCap
        BY <4>2, <4>3, PoolAssumption
      <4>5. QED
        BY <4>3, <4>4
    <3>3. cancelled' = cancelled \/ \E i \in DOMAIN cancelled[p] :
                cancelled' = [cancelled EXCEPT ![p] = RemoveAt(cancelled[p], i)]
      BY <2>4
    <3> HIDE DEF p, Marks
    <3>4. cancelled' \in [Pools -> Marks]
      BY <3>1, <3>2, <3>3, PutValue
    <3>5. QED
      BY <3>4 DEF Marks
  <2>6. \E to \in CallerStates : caller' = [caller EXCEPT ![t] = to]
    BY <1>2 DEF Submit, CallerStates
  <2>7. caller' \in [Tasks -> CallerStates]
    BY <2>6, <1>caller
  <2>8. answer' = answer \/ \E why \in Answers : answer' = [answer EXCEPT ![t] = why]
    BY <1>2 DEF Submit, Answers
  <2>9. answer' \in [Legs -> Answers]
    BY <2>8, <1>answer, <1>legs
  <2>10. QED
    BY <1>2, <2>1, <2>2, <2>3, <2>4, <2>5, <2>6, <2>7, <2>8, <2>9 DEF TypeOK, Submit
<1>3. ASSUME NEW t \in Tasks, CallerDrained(t) PROVE TypeOK'
  <2>1. \E to \in CallerStates : caller' = [caller EXCEPT ![t] = to]
    BY <1>3 DEF CallerDrained, CallerGoes, CallerRegrown, CallerStates
  <2>2. caller' \in [Tasks -> CallerStates]
    BY <2>1, <1>caller
  <2>3. limit \in Nat
    BY <1>limit, PoolAssumption
  <2>4. seen' \in [Tasks -> Nat]
    BY <1>3, <2>3, <1>seen DEF CallerDrained
  <2>5. QED
    BY <1>3, <2>1, <2>2, <2>3, <2>4 DEF TypeOK, CallerDrained
<1>4. ASSUME NEW t \in Tasks, CallerEnsures(t) PROVE TypeOK'
  <2>1. \E to \in CallerStates : caller' = [caller EXCEPT ![t] = to]
    BY <1>4 DEF CallerEnsures, CallerGoes, CallerStates
  <2>2. caller' \in [Tasks -> CallerStates]
    BY <2>1, <1>caller
  <2>3. /\ growthChanged' \in [Pools -> BOOLEAN]
        /\ growingGate' \in [Pools -> Seq(Growers)]
        /\ growth' \in [Pools -> Growths]
    BY <1>4, EnsureTypes, GrowerTypes, <1>legs DEF CallerEnsures
  <2>4. QED
    BY <1>4, <2>1, <2>2, <2>3 DEF TypeOK, CallerEnsures
<1>5. ASSUME NEW t \in Tasks, CallerChecks(t) PROVE TypeOK'
  <2>1. \E to \in CallerStates : caller' = [caller EXCEPT ![t] = to]
    BY <1>5 DEF CallerChecks, CallerGoes, CallerStates
  <2>2. caller' \in [Tasks -> CallerStates]
    BY <2>1, <1>caller
  <2>3. queue' = queue \/ \E i \in DOMAIN queue[PoolOf[t]] :
            queue' = [queue EXCEPT ![PoolOf[t]] = RemoveAt(@, i)]
    BY <1>5 DEF CallerChecks
  <2>4. queue' \in [Pools -> Seq(Legs)]
    BY <2>3, <1>queue, <1>legs, QueueRemoval
  <2>5. answer' = answer \/ \E why \in Answers : answer' = [answer EXCEPT ![t] = why]
    BY <1>5 DEF CallerChecks, Answers
  <2>6. answer' \in [Legs -> Answers]
    BY <2>5, <1>answer, <1>legs
  <2>7. QED
    BY <1>5, <2>1, <2>2, <2>3, <2>4, <2>5, <2>6 DEF TypeOK, CallerChecks
<1>6. ASSUME NEW t \in Tasks, CallerSeesLimit(t) PROVE TypeOK'
  <2>1. \E to \in CallerStates : caller' = [caller EXCEPT ![t] = to]
    BY <1>6 DEF CallerSeesLimit, CallerGoes, CallerStates
  <2>2. caller' \in [Tasks -> CallerStates]
    BY <2>1, <1>caller
  <2>3. seen' \in [Tasks -> Nat]
    BY <1>6, <1>seen DEF CallerSeesLimit
  <2>4. QED
    BY <1>6, <2>1, <2>2, <2>3 DEF TypeOK, CallerSeesLimit
<1>7. ASSUME NEW p \in Pools, GrowLogin(p) PROVE TypeOK'
  <2>1. growth' \in [Pools -> Growths]
    BY <1>7, <1>growth DEF GrowLogin, Growths
  <2>2. QED
    BY <1>7, <2>1 DEF TypeOK, GrowLogin
<1>8. ASSUME NEW p \in Pools, GrowEnough(p) PROVE TypeOK'
  <2>1. growth' \in [Pools -> Growths]
    BY <1>8, <1>growth DEF GrowEnough, Growths
  <2>2. QED
    BY <1>8, <2>1 DEF TypeOK, GrowEnough
<1>9. ASSUME NEW p \in Pools, GrowCancelled(p) PROVE TypeOK'
  <2>1. growth' \in [Pools -> Growths]
    BY <1>9, <1>growth DEF GrowCancelled, Growths
  <2>2. QED
    BY <1>9, <2>1 DEF TypeOK, GrowCancelled
<1>10. ASSUME NEW p \in Pools, GrowNudged(p) PROVE TypeOK'
  <2>1. growth' \in [Pools -> Growths]
    BY <1>10, <1>growth DEF GrowNudged, Growths
  <2>2. growthChanged' \in [Pools -> BOOLEAN]
    BY <1>10, <1>changed DEF GrowNudged
  <2>3. QED
    BY <1>10, <2>1, <2>2 DEF TypeOK, GrowNudged
<1>11. ASSUME NEW p \in Pools, LoginOk(p) PROVE TypeOK'
  <2>1. growth[p].connecting - 1 \in Nat
    BY <1>11, <1>growth DEF LoginOk, Growing, LoginIsPending, Growths
  <2>2. growth' \in [Pools -> Growths]
    BY <1>11, <2>1, <1>growth DEF LoginOk, Growths
  <2>3. workers' \in [Pools -> Nat]
    BY <1>11, <1>workers DEF LoginOk
  <2>4. QED
    BY <1>11, <2>1, <2>2, <2>3 DEF TypeOK, LoginOk
<1>12. ASSUME NEW p \in Pools, LoginTurnedAway(p) PROVE TypeOK'
  <2>1. growth[p].connecting - 1 \in Nat
    BY <1>12, <1>growth DEF LoginTurnedAway, Growing, LoginIsPending, Growths
  <2>2. growth' \in [Pools -> Growths]
    BY <1>12, <2>1, <1>growth DEF LoginTurnedAway, Growths
  <2>3. QED
    BY <1>12, <2>1, <2>2 DEF TypeOK, LoginTurnedAway
<1>13. ASSUME NEW p \in Pools, LoginFails(p) PROVE TypeOK'
  <2>1. growth[p].connecting - 1 \in Nat
    BY <1>13, <1>growth DEF LoginFails, Growing, LoginIsPending, Growths
  <2>2. growth' \in [Pools -> Growths]
    BY <1>13, <2>1, <1>growth DEF LoginFails, Growths
  <2>3. retryGrowthAfter' \in [Pools -> {"none", "cooling", "over"}]
    BY <1>13, <1>retry DEF LoginFails
  <2>4. QED
    BY <1>13, <2>1, <2>2, <2>3 DEF TypeOK, LoginFails
<1>14. ASSUME NEW p \in Pools, GrowDrained(p) PROVE TypeOK'
  <2>1. growth' \in [Pools -> Growths]
    BY <1>14, <1>growth DEF GrowDrained, Growths
  <2>2. QED
    BY <1>14, <2>1 DEF TypeOK, GrowDrained
<1>15. ASSUME NEW p \in Pools, GrowLeaves(p) PROVE TypeOK'
  <2>1. /\ answer' \in [Legs -> Answers]
        /\ caller' \in [Tasks -> CallerStates]
        /\ seen' \in [Tasks -> Nat]
    <3>1. "refused" \in Answers
      BY DEF Answers
    <3>2. CASE UNCHANGED <<answer, caller, seen>>
      BY <3>2, <1>answer, <1>caller, <1>seen
    <3>3. CASE AnswerQueue(p, "refused")
      BY <3>1, <3>3, AnswerTypes DEF AnswerQueue
    <3>4. QED
      BY <1>15, <3>2, <3>3 DEF GrowLeaves
  <2>2. queue' = queue \/ queue' = [queue EXCEPT ![p] = <<>>]
    BY <1>15 DEF GrowLeaves, AnswerQueue
  <2>3. <<>> \in Seq(Legs)
    BY EmptySeq
  <2>4. queue' \in [Pools -> Seq(Legs)]
    BY <2>2, <2>3, <1>queue, PutValue
  <2>5. growingGate' \in [Pools -> Seq(Growers)]
    BY <1>15, <1>gate DEF GrowLeaves, Growing
  <2>6. growth' \in [Pools -> Growths]
    BY <1>15, <1>growth DEF GrowLeaves, FreshGrowth, Growths
  <2>7. QED
    BY <1>15, <2>1, <2>2, <2>3, <2>4, <2>5, <2>6 DEF TypeOK, GrowLeaves
<1>16. ASSUME NEW p \in Pools, RetryDelayPasses(p) PROVE TypeOK'
  <2>1. retryGrowthAfter' \in [Pools -> {"none", "cooling", "over"}]
    BY <1>16, <1>retry DEF RetryDelayPasses
  <2>2. QED
    BY <1>16, <2>1 DEF TypeOK, RetryDelayPasses
<1>17. ASSUME NEW l \in Legs, RunnerAcquires(l) PROVE TypeOK'
  <2>1. runner' \in [Legs -> RunnerStates]
    BY <1>17, <1>runner DEF RunnerAcquires, RunnerGoes, RunnerStates
  <2>2. permits' \subseteq Legs
    BY <1>17, <1>permits DEF RunnerAcquires
  <2>3. QED
    BY <1>17, <2>1, <2>2 DEF TypeOK, RunnerAcquires
<1>18. ASSUME NEW l \in Legs, RunnerEnds(l) PROVE TypeOK'
  <2>1. /\ active' \in [Pools -> SUBSET Legs]
        /\ workers' \in [Pools -> Nat]
        /\ runner' \in [Legs -> RunnerStates]
    BY <1>18, SettleTypes DEF RunnerEnds
  <2>2. result' \in [Legs -> {"none", "done", "cancelled"}]
    BY <1>18, <1>result DEF RunnerEnds
  <2>3. UNCHANGED <<limit, permits, queue, cancelled, retryGrowthAfter, closeVars, releases,
                  growVars, userVars, token, answer, stopped>>
    BY <1>18 DEF RunnerEnds, Settle
  <2>4. QED
    BY <1>18, <2>1, <2>2, <2>3 DEF TypeOK, RunnerEnds
<1>19. ASSUME NEW l \in Legs, RunnerStops(l) PROVE TypeOK'
  <2>1. /\ active' \in [Pools -> SUBSET Legs]
        /\ workers' \in [Pools -> Nat]
        /\ runner' \in [Legs -> RunnerStates]
    BY <1>19, SettleTypes DEF RunnerStops
  <2>2. result' \in [Legs -> {"none", "done", "cancelled"}]
    BY <1>19, <1>result DEF RunnerStops
  <2>3. permits' \subseteq Legs
    BY <1>19, <1>permits DEF RunnerStops
  <2>4. QED
    BY <1>19, <2>1, <2>2, <2>3 DEF TypeOK, RunnerStops, Settle
<1>20. ASSUME NEW l \in Legs, RunnerAnswers(l) PROVE TypeOK'
  <2>1. \E to \in RunnerStates : runner' = [runner EXCEPT ![l] = to]
    BY <1>20 DEF RunnerAnswers, AfterRunning, RunnerGoes, RunnerStates
  <2>2. runner' \in [Legs -> RunnerStates]
    BY <2>1, <1>runner
  <2>3. /\ growthChanged' \in [Pools -> BOOLEAN]
        /\ growingGate' \in [Pools -> Seq(Growers)]
        /\ growth' \in [Pools -> Growths]
    <3>1. CASE UNCHANGED growVars
      BY <3>1, <1>changed, <1>gate, <1>growth
    <3>2. CASE EnsureWorkers(PoolOf[l], ReplaceGrower(l))
      BY <3>2, EnsureTypes, GrowerTypes, <1>legs
    <3>3. QED
      BY <1>20, <3>1, <3>2 DEF RunnerAnswers, AfterRunning
  <2>4. permits' \subseteq Legs
    BY <1>20, <1>permits DEF RunnerAnswers
  <2>5. result[l] \in Answers
    BY <1>result DEF Answers
  <2>6. /\ answer' \in [Legs -> Answers]
        /\ caller' \in [Tasks -> CallerStates]
        /\ seen' \in [Tasks -> Nat]
    BY <1>20, <2>5, AnswerTypes DEF RunnerAnswers
  <2>7. QED
    BY <1>20, <2>1, <2>2, <2>3, <2>4, <2>5, <2>6 DEF TypeOK, RunnerAnswers
<1>21. ASSUME NEW l \in Legs, RunnerDrained(l) PROVE TypeOK'
  <2>1. \E to \in RunnerStates : runner' = [runner EXCEPT ![l] = to]
    BY <1>21 DEF RunnerDrained, RunnerGoes, RunnerStates
  <2>2. runner' \in [Legs -> RunnerStates]
    BY <2>1, <1>runner
  <2>3. releases' \in [Pools -> Nat]
    BY <1>21, <1>releases, <1>legs DEF RunnerDrained
  <2>4. QED
    BY <1>21, <2>1, <2>2, <2>3 DEF TypeOK, RunnerDrained
<1>22. ASSUME NEW p \in Pools, Release(p) PROVE TypeOK'
  <2>1. releases' \in [Pools -> Nat]
    BY <1>22, <1>releases DEF Release
  <2>2. workers' \in [Pools -> Nat]
    BY <1>22, <1>workers DEF Release
  <2>3. QED
    BY <1>22, <2>1, <2>2 DEF TypeOK, Release
<1>23. ASSUME NEW r \in Relays, RelayAsks(r) PROVE TypeOK'
  <2>1. \E to \in RelayStates : relay' = [relay EXCEPT ![r] = to]
    BY <1>23 DEF RelayAsks, RelayGoes, RelayStates
  <2>2. relay' \in [Relays -> RelayStates]
    BY <2>1, <1>relay
  <2>3. /\ SrcPool(r) \in Pools
        /\ pairTurn' = [pairTurn EXCEPT ![SrcPool(r)] = Append(pairTurn[SrcPool(r)], r)]
    BY <1>23, <1>pools DEF RelayAsks
  <2>4. Append(pairTurn[SrcPool(r)], r) \in Seq(Relays)
    BY <2>3, <1>turn
  <2>5. pairTurn' \in [Pools -> Seq(Relays)]
    BY <2>3, <2>4, <1>turn, PutValue
  <2>6. QED
    BY <1>23, <2>1, <2>2, <2>3, <2>4, <2>5 DEF TypeOK, RelayAsks
<1>24. ASSUME NEW r \in Relays, RelayGlances(r) PROVE TypeOK'
  <2>1. \E to \in RelayStates : relay' = [relay EXCEPT ![r] = to]
    BY <1>24 DEF RelayGlances, RelayGoes, RelayEnds, LegErrors, RelayStates
  <2>2. relay' \in [Relays -> RelayStates]
    BY <2>1, <1>relay
  <2>3. pairTurn' \in [Pools -> Seq(Relays)]
    <3>1. PICK i \in DOMAIN pairTurn[SrcPool(r)] :
                /\ pairTurn[SrcPool(r)][i] = r
                /\ pairTurn' = [pairTurn EXCEPT ![SrcPool(r)] =
                                    RemoveAt(pairTurn[SrcPool(r)], i)]
      BY <1>24, Zenon DEF RelayGlances
    <3>2. pairTurn[SrcPool(r)] \in Seq(Relays) /\ i \in 1..Len(pairTurn[SrcPool(r)])
      <4>1. SrcPool(r) \in Pools
        BY <1>pools
      <4>2. QED
        BY <4>1, <1>turn
    <3>3. RemoveAt(pairTurn[SrcPool(r)], i) \in Seq(Relays)
      BY <3>2, RemoveAtProperties
    <3>4. SrcPool(r) \in Pools
      BY <1>pools
    <3>5. QED
      BY <3>1, <3>3, <3>4, <1>turn, PutValue
  <2>4. QED
    BY <1>24, <2>1, <2>2, <2>3 DEF TypeOK, RelayGlances
<1>25. ASSUME NEW r \in Relays, RelayGrowsSource(r) PROVE TypeOK'
  <2>1. \E to \in RelayStates : relay' = [relay EXCEPT ![r] = to]
    BY <1>25 DEF RelayGrowsSource, RelayGoes, RelayStates
  <2>2. relay' \in [Relays -> RelayStates]
    BY <2>1, <1>relay
  <2>3. SrcPool(r) \in Pools /\ RelayGrower(r) \in Growers
    BY GrowerTypes, <1>pools
  <2>4. EnsureWorkers(SrcPool(r), RelayGrower(r))
    BY <1>25 DEF RelayGrowsSource
  <2>5. /\ growthChanged' \in [Pools -> BOOLEAN]
        /\ growingGate' \in [Pools -> Seq(Growers)]
        /\ growth' \in [Pools -> Growths]
    BY <2>3, <2>4, EnsureTypes
  <2>6. QED
    BY <1>25, <2>1, <2>2, <2>3, <2>4, <2>5 DEF TypeOK, RelayGrowsSource
<1>26. ASSUME NEW r \in Relays, RelayGrowsTarget(r) PROVE TypeOK'
  <2>1. \E to \in RelayStates : relay' = [relay EXCEPT ![r] = to]
    BY <1>26 DEF RelayGrowsTarget, RelayGoes, RelayStates
  <2>2. relay' \in [Relays -> RelayStates]
    BY <2>1, <1>relay
  <2>3. DstPool(r) \in Pools /\ RelayGrower(r) \in Growers
    BY GrowerTypes, <1>pools
  <2>4. EnsureWorkers(DstPool(r), RelayGrower(r))
    BY <1>26 DEF RelayGrowsTarget
  <2>5. /\ growthChanged' \in [Pools -> BOOLEAN]
        /\ growingGate' \in [Pools -> Seq(Growers)]
        /\ growth' \in [Pools -> Growths]
    BY <2>3, <2>4, EnsureTypes
  <2>6. QED
    BY <1>26, <2>1, <2>2, <2>3, <2>4, <2>5 DEF TypeOK, RelayGrowsTarget
<1>27. ASSUME NEW r \in Relays, RelayAdmits(r) PROVE TypeOK'
  <2>1. \E to \in RelayStates : relay' = [relay EXCEPT ![r] = to]
    BY <1>27 DEF RelayAdmits, RelayGoes, RelayEnds, RelayStates
  <2>2. relay' \in [Relays -> RelayStates]
    BY <2>1, <1>relay
  <2>3. pairTurn[SrcPool(r)] # <<>>
    BY <1>27 DEF RelayAdmits, TurnIsHeld, HasTurn
  <2>4. /\ SrcPool(r) \in Pools
        /\ pairTurn' = pairTurn
            \/ pairTurn' = [pairTurn EXCEPT ![SrcPool(r)] = Tail(pairTurn[SrcPool(r)])]
    BY <1>27, <1>pools DEF RelayAdmits
  <2>5. Tail(pairTurn[SrcPool(r)]) \in Seq(Relays)
    BY <2>3, <2>4, <1>turn
  <2>6. pairTurn' \in [Pools -> Seq(Relays)]
    BY <2>4, <2>5, <1>turn, PutValue
  <2>7. permits' = permits \/ permits' = permits \cup {SrcLeg[r], DstLeg[r]}
    BY <1>27 DEF RelayAdmits
  <2>8. permits' \subseteq Legs
    BY <2>7, <1>permits, <1>rlegs
  <2>9. queue' \in [Pools -> Seq(Legs)]
    <3>1. CASE queue' = queue
      BY <3>1, <1>queue
    <3>2. CASE PushBoth(r)
      <4>1. SrcLeg[r] \in Legs /\ DstLeg[r] \in Legs
        BY <1>rlegs
      <4>2. ASSUME NEW p \in Pools
            PROVE  (queue[p] \o (IF p = SrcPool(r) THEN <<SrcLeg[r]>> ELSE <<>>))
                        \o (IF p = DstPool(r) THEN <<DstLeg[r]>> ELSE <<>>) \in Seq(Legs)
        BY <4>1, <1>queue
      <4>3. QED
        BY <3>2, <4>2 DEF PushBoth
    <3>3. QED
      BY <1>27, <3>1, <3>2 DEF RelayAdmits
  <2>10. QED
    BY <1>27, <2>1, <2>2, <2>3, <2>4, <2>5, <2>6, <2>7, <2>8, <2>9 DEF TypeOK, RelayAdmits
<1>28. ASSUME NEW r \in Relays, RelayDrained(r) PROVE TypeOK'
  <2>1. \E to \in RelayStates : relay' = [relay EXCEPT ![r] = to]
    BY <1>28 DEF RelayDrained, RelayGoes, RelayStates
  <2>2. relay' \in [Relays -> RelayStates]
    BY <2>1, <1>relay
  <2>3. QED
    BY <1>28, <2>1, <2>2 DEF TypeOK, RelayDrained
<1>29. ASSUME NEW r \in Relays, RelayJoins(r) PROVE TypeOK'
  <2>1. \E to \in RelayStates : relay' = [relay EXCEPT ![r] = to]
    BY <1>29 DEF RelayJoins, RelayGoes, RelayEnds, RelayStates
  <2>2. relay' \in [Relays -> RelayStates]
    BY <2>1, <1>relay
  <2>3. QED
    BY <1>29, <2>1, <2>2 DEF TypeOK, RelayJoins
<1>30. ASSUME NEW l \in Legs, Cancel(l) PROVE TypeOK'
  <2>1. stopped' \subseteq Legs
    BY <1>30, <1>stopped DEF Cancel
  <2>2. queue' = queue \/ \E i \in DOMAIN queue[PoolOf[l]] :
            queue' = [queue EXCEPT ![PoolOf[l]] = RemoveAt(@, i)]
    BY <1>30 DEF Cancel
  <2>3. queue' \in [Pools -> Seq(Legs)]
    BY <2>2, <1>queue, <1>legs, QueueRemoval
  <2>4. "cancelled" \in Answers
    BY DEF Answers
  <2>5. /\ answer' \in [Legs -> Answers]
        /\ caller' \in [Tasks -> CallerStates]
        /\ seen' \in [Tasks -> Nat]
    <3>1. CASE UNCHANGED <<answer, caller, seen>>
      BY <3>1, <1>answer, <1>caller, <1>seen
    <3>2. CASE Answer({l}, "cancelled")
      BY <2>4, <3>2, AnswerTypes
    <3>3. QED
      BY <1>30, <3>1, <3>2 DEF Cancel
  <2>6. permits' \subseteq Legs
    BY <1>30, <1>permits DEF Cancel
  <2>7. token' \in [Legs -> BOOLEAN]
    BY <1>30, <1>token DEF Cancel
  <2>8. cancelled' \in [Pools -> {marks \in Seq(Legs) : Len(marks) <= CancelledCap}]
    <3>1. CASE cancelled' = cancelled
      BY <3>1, <1>cancelled
    <3>2. CASE MarkCancelled(PoolOf[l], l)
      <4> DEFINE old == cancelled[PoolOf[l]]
                 marks == Append(old, l)
      <4>1. old \in Seq(Legs) /\ Len(old) <= CancelledCap
        BY <1>cancelled, <1>legs
      <4>2. marks \in Seq(Legs) /\ Len(marks) = Len(old) + 1 /\ marks # <<>>
        BY <4>1
      <4>3. Tail(marks) \in Seq(Legs) /\ Len(Tail(marks)) = Len(old)
        BY <4>1, <4>2
      <4>4. \E new \in {m \in Seq(Legs) : Len(m) <= CancelledCap} :
                cancelled' = [cancelled EXCEPT ![PoolOf[l]] = new]
        <5> HIDE DEF old, marks
        <5>1. cancelled' = [cancelled EXCEPT ![PoolOf[l]] =
                    IF Contains(old, l) THEN old
                    ELSE IF Len(marks) > CancelledCap THEN Tail(marks) ELSE marks]
          BY <3>2 DEF MarkCancelled, old, marks
        <5>2. \/ Contains(old, l)
              \/ Len(marks) > CancelledCap
              \/ Len(marks) <= CancelledCap
          BY <4>1, <4>2, PoolAssumption
        <5>3. QED
          BY <4>1, <4>2, <4>3, <5>1, <5>2
      <4>5. QED
        BY <4>4, <1>cancelled
    <3>3. QED
      BY <1>30, <3>1, <3>2 DEF Cancel
  <2>9. QED
    BY <1>30, <2>1, <2>2, <2>3, <2>4, <2>5, <2>6, <2>7, <2>8 DEF TypeOK, Cancel
<1>31. ASSUME SetLimit PROVE TypeOK'
  BY <1>31 DEF TypeOK, SetLimit
<1>32. ASSUME NEW p \in Pools, CloseStarts(p) PROVE TypeOK'
  <2>1. closing' \in [Pools -> {"open", "closing", "taken", "destroyed", "idle"}]
    BY <1>32, <1>closing DEF CloseStarts
  <2>2. QED
    BY <1>32, <2>1 DEF TypeOK, CloseStarts
<1>33. ASSUME NEW p \in Pools, CancelAll(p) PROVE TypeOK'
  <2>1. closing' \in [Pools -> {"open", "closing", "taken", "destroyed", "idle"}]
    BY <1>33, <1>closing DEF CancelAll
  <2>2. token' \in [Legs -> BOOLEAN]
    BY <1>33, <1>token DEF CancelAll
  <2>3. "cancelled" \in Answers
    BY DEF Answers
  <2>4. /\ answer' \in [Legs -> Answers]
        /\ caller' \in [Tasks -> CallerStates]
        /\ seen' \in [Tasks -> Nat]
    BY <1>33, <2>3, AnswerTypes DEF CancelAll, AnswerQueue
  <2>5. queue' \in [Pools -> Seq(Legs)]
    BY <1>33, <1>queue DEF CancelAll, AnswerQueue
  <2>6. permits' \subseteq Legs
    BY <1>33, <1>permits DEF CancelAll
  <2>7. workers' \in [Pools -> Nat]
    BY <1>33, <1>workers DEF CancelAll
  <2>8. QED
    BY <1>33, <2>1, <2>2, <2>3, <2>4, <2>5, <2>6, <2>7 DEF TypeOK, CancelAll
<1>34. ASSUME NEW p \in Pools, DestroyTakes(p) PROVE TypeOK'
  <2>1. closing' \in [Pools -> {"open", "closing", "taken", "destroyed", "idle"}]
    BY <1>34, <1>closing DEF DestroyTakes
  <2>2. Queued(p) \subseteq Legs
    BY <1>queue DEF Queued, ToSet
  <2>3. doomed' \in [Pools -> SUBSET Legs]
    BY <1>34, <2>2, <1>active, <1>doomed DEF DestroyTakes
  <2>4. queue' \in [Pools -> Seq(Legs)]
    BY <1>34, <1>queue DEF DestroyTakes
  <2>5. workers' \in [Pools -> Nat]
    BY <1>34, <1>workers DEF DestroyTakes
  <2>6. QED
    BY <1>34, <2>1, <2>2, <2>3, <2>4, <2>5 DEF TypeOK, DestroyTakes
<1>35. ASSUME NEW p \in Pools, DestroyTells(p) PROVE TypeOK'
  <2>1. closing' \in [Pools -> {"open", "closing", "taken", "destroyed", "idle"}]
    BY <1>35, <1>closing DEF DestroyTells
  <2>2. token' \in [Legs -> BOOLEAN]
    BY <1>35, <1>token DEF DestroyTells
  <2>3. "cancelled" \in Answers
    BY DEF Answers
  <2>4. /\ answer' \in [Legs -> Answers]
        /\ caller' \in [Tasks -> CallerStates]
        /\ seen' \in [Tasks -> Nat]
    BY <1>35, <2>3, AnswerTypes DEF DestroyTells
  <2>5. permits' \subseteq Legs
    BY <1>35, <1>permits DEF DestroyTells
  <2>6. doomed' \in [Pools -> SUBSET Legs]
    BY <1>35, <1>doomed DEF DestroyTells
  <2>7. QED
    BY <1>35, <2>1, <2>2, <2>3, <2>4, <2>5, <2>6 DEF TypeOK, DestroyTells
<1>36. ASSUME NEW p \in Pools, WaitedUntilIdle(p) PROVE TypeOK'
  <2>1. closing' \in [Pools -> {"open", "closing", "taken", "destroyed", "idle"}]
    BY <1>36, <1>closing DEF WaitedUntilIdle
  <2>2. QED
    BY <1>36, <2>1 DEF TypeOK, WaitedUntilIdle
<1>37. QED
  BY <1>1, <1>2, <1>3, <1>4, <1>5, <1>6, <1>7, <1>8, <1>9, <1>10, <1>11, <1>12, <1>13, <1>14,
     <1>15, <1>16, <1>17, <1>18, <1>19, <1>20, <1>21, <1>22, <1>23, <1>24, <1>25, <1>26,
     <1>27, <1>28, <1>29, <1>30, <1>31, <1>32, <1>33, <1>34, <1>35, <1>36
     DEF Next, Grow, Login, Call, Unwind, Pair, Close

(* They hold at the start. *)
LEMMA TypeInit == Init => TypeOK /\ TurnIsHeld /\ LoginIsPending
<1> SUFFICES ASSUME Init PROVE TypeOK /\ TurnIsHeld /\ LoginIsPending
  OBVIOUS
<1>1. /\ workers \in [Pools -> Nat] /\ active \in [Pools -> SUBSET Legs]
      /\ queue \in [Pools -> Seq(Legs)] /\ doomed \in [Pools -> SUBSET Legs]
      /\ releases \in [Pools -> Nat] /\ growingGate \in [Pools -> Seq(Growers)]
      /\ pairTurn \in [Pools -> Seq(Relays)]
  BY DEF Init
<1>2. cancelled \in [Pools -> {marks \in Seq(Legs) : Len(marks) <= CancelledCap}]
  BY PoolAssumption, EmptySeq DEF Init
<1>3. growth \in [Pools -> Growths]
  BY DEF Init, FreshGrowth, Growths
<1>4. /\ caller \in [Tasks -> CallerStates] /\ seen \in [Tasks -> Nat]
      /\ relay \in [Relays -> RelayStates] /\ runner \in [Legs -> RunnerStates]
      /\ answer \in [Legs -> Answers] /\ permits \subseteq Legs /\ stopped \subseteq Legs
  BY DEF Init, CallerStates, RelayStates, RunnerStates, Answers
<1>5. TypeOK
  BY <1>1, <1>2, <1>3, <1>4 DEF Init, TypeOK
<1>6. TurnIsHeld /\ LoginIsPending
  BY DEF Init, FreshGrowth, TurnIsHeld, LoginIsPending
<1>7. QED
  BY <1>5, <1>6

(* No relay but the first in line leaves it from the head: the one that     *)
(* glances is behind, the one that is admitted or fails is the first.       *)
LEMMA TurnStep == TypeOK /\ TurnIsHeld /\ Next => TurnIsHeld'
<1> SUFFICES ASSUME TypeOK, TurnIsHeld, Next,
                    NEW r \in Relays, relay'[r] \in {"growingSrc", "growingDst", "wait"}
             PROVE  HasTurn(r)'
  BY DEF TurnIsHeld
<1> DEFINE p == SrcPool(r)
<1>types. /\ p \in Pools /\ pairTurn \in [Pools -> Seq(Relays)]
          /\ relay \in [Relays -> RelayStates]
  BY LegTypes DEF TypeOK
<1>pools. \A q \in Relays : SrcPool(q) \in Pools
  BY LegTypes
<1>line. pairTurn[p] \in Seq(Relays)
  BY <1>types
<1>held. relay[r] \in {"growingSrc", "growingDst", "wait"}
            => pairTurn[p] # <<>> /\ Head(pairTurn[p]) = r
  BY DEF TurnIsHeld, HasTurn
<1>goal. ASSUME pairTurn'[p] # <<>>, Head(pairTurn'[p]) = r PROVE HasTurn(r)'
  BY <1>goal DEF HasTurn, SrcPool
<1> HIDE DEF p
<1>1. ASSUME NEW q \in Relays, RelayAsks(q) PROVE HasTurn(r)'
  <2>1. relay'[r] = relay[r]
    BY <1>1, <1>types DEF RelayAsks, RelayGoes
  <2>2. pairTurn'[p] = pairTurn[p] \/ pairTurn'[p] = Append(pairTurn[p], q)
    BY <1>1, <1>types DEF RelayAsks
  <2>3. Append(pairTurn[p], q) # <<>> /\ Head(Append(pairTurn[p], q)) = r
    BY <1>held, <1>line, <2>1
  <2>4. QED
    BY <1>goal, <1>held, <2>1, <2>2, <2>3
<1>2. ASSUME NEW q \in Relays, RelayGlances(q) PROVE HasTurn(r)'
  <2>1. PICK i \in DOMAIN pairTurn[SrcPool(q)] :
                /\ pairTurn[SrcPool(q)][i] = q
                /\ pairTurn' = [pairTurn EXCEPT ![SrcPool(q)] =
                                    RemoveAt(pairTurn[SrcPool(q)], i)]
    BY <1>2, Zenon DEF RelayGlances
  <2>2. relay[q] = "turn" /\ relay'[q] \in LegErrors /\ relay' = [relay EXCEPT ![q] = relay'[q]]
    BY <1>2, <1>types, Zenon DEF RelayGlances, RelayGoes
  <2>3. r # q /\ relay'[r] = relay[r]
    BY <2>2, <1>types DEF LegErrors
  <2>4. CASE SrcPool(q) # p
    BY <1>goal, <1>held, <1>types, <2>1, <2>3, <2>4
  <2>5. CASE SrcPool(q) = p
    <3>1. i \in 1..Len(pairTurn[p]) /\ pairTurn[p][i] = q /\ pairTurn[p][1] = r
      BY <1>held, <1>line, <2>1, <2>3, <2>5
    <3>2. 1 < i /\ 1 <= Len(pairTurn[p]) - 1
      BY <2>3, <3>1, <1>line
    <3>3. /\ RemoveAt(pairTurn[p], i) \in Seq(Relays)
          /\ Len(RemoveAt(pairTurn[p], i)) = Len(pairTurn[p]) - 1
          /\ RemoveAt(pairTurn[p], i)[1] = pairTurn[p][1]
      <4>1. /\ RemoveAt(pairTurn[p], i) \in Seq(Relays)
            /\ Len(RemoveAt(pairTurn[p], i)) = Len(pairTurn[p]) - 1
            /\ \A j \in 1..(Len(pairTurn[p]) - 1) : RemoveAt(pairTurn[p], i)[j] =
                    IF j < i THEN pairTurn[p][j] ELSE pairTurn[p][j + 1]
        BY <1>line, <3>1, RemoveAtProperties
      <4>2. 1 \in 1..(Len(pairTurn[p]) - 1)
        BY <1>line, <3>2
      <4>3. QED
        BY <3>2, <4>1, <4>2
    <3>4. pairTurn'[p] = RemoveAt(pairTurn[p], i)
      BY <1>types, <2>1, <2>5
    <3>5. QED
      BY <1>goal, <3>1, <3>2, <3>3, <3>4
  <2>6. QED
    BY <2>4, <2>5
<1>3. ASSUME NEW q \in Relays, RelayGrowsSource(q) PROVE HasTurn(r)'
  <2>1. pairTurn' = pairTurn /\ (HasTurn(q) \/ relay[q] = "wait")
    BY <1>3 DEF RelayGrowsSource
  <2>2. HasTurn(q)
    BY <2>1 DEF TurnIsHeld
  <2>3. CASE r = q
    BY <1>goal, <2>1, <2>2, <2>3 DEF HasTurn, p
  <2>4. CASE r # q
    BY <1>3, <1>goal, <1>held, <1>types, <2>1, <2>4 DEF RelayGrowsSource, RelayGoes
  <2>5. QED
    BY <2>3, <2>4
<1>4. ASSUME NEW q \in Relays, RelayGrowsTarget(q) PROVE HasTurn(r)'
  <2>1. pairTurn' = pairTurn /\ relay[q] = "growingSrc"
    BY <1>4 DEF RelayGrowsTarget
  <2>2. relay[r] \in {"growingSrc", "growingDst", "wait"}
    BY <1>4, <1>types, <2>1 DEF RelayGrowsTarget, RelayGoes
  <2>3. QED
    BY <1>goal, <1>held, <2>1, <2>2
<1>5. ASSUME NEW q \in Relays, RelayAdmits(q) PROVE HasTurn(r)'
  <2>1. relay[q] \in {"growingSrc", "growingDst"}
    BY <1>5 DEF RelayAdmits
  <2>2. relay[r] \in {"growingSrc", "growingDst", "wait"}
    BY <1>5, <1>types, <2>1 DEF RelayAdmits, RelayGoes
  <2>3. HasTurn(q)
    BY <2>1 DEF TurnIsHeld
  <2>4. CASE pairTurn' = pairTurn
    BY <1>goal, <1>held, <2>2, <2>4
  <2>5. CASE pairTurn' # pairTurn
    <3>1. relay'[q] \in LegErrors \cup {"drainSrc"}
      BY <1>5, <1>types, <2>5 DEF RelayAdmits, RelayGoes
    <3>2. r # q
      BY <3>1 DEF LegErrors
    <3>3. SrcPool(q) # p
      BY <1>held, <2>2, <2>3, <3>2 DEF HasTurn
    <3>4. pairTurn'[p] = pairTurn[p]
      BY <1>5, <1>types, <2>5, <3>3 DEF RelayAdmits
    <3>5. QED
      BY <1>goal, <1>held, <2>2, <3>4
  <2>6. QED
    BY <2>4, <2>5
<1>6. ASSUME NEW q \in Relays, RelayDrained(q) \/ RelayJoins(q) PROVE HasTurn(r)'
  <2>1. pairTurn' = pairTurn /\ relay'[r] = relay[r]
    BY <1>6, <1>types DEF RelayDrained, RelayJoins, RelayGoes, userVars
  <2>2. QED
    BY <1>goal, <1>held, <2>1
<1>7. ASSUME UNCHANGED <<relay, pairTurn>> PROVE HasTurn(r)'
  BY <1>7, <1>goal, <1>held
<1>8. ASSUME NEW q \in Pools,
             Drain(q) \/ Grow(q) \/ Login(q) \/ RetryDelayPasses(q) \/ Release(q)
                \/ CloseStarts(q) \/ Close(q)
      PROVE  UNCHANGED <<relay, pairTurn>>
  BY <1>8 DEF userVars, Drain, Grow, GrowLogin, GrowEnough, GrowCancelled, GrowNudged,
     GrowDrained, GrowLeaves, Login, LoginOk, LoginTurnedAway, LoginFails,
     RetryDelayPasses, Release, CloseStarts, Close, CancelAll, DestroyTakes, DestroyTells,
     WaitedUntilIdle
<1>9. ASSUME NEW t \in Tasks, Submit(t) \/ Call(t) PROVE UNCHANGED <<relay, pairTurn>>
  BY <1>9 DEF Submit, Call, CallerDrained, CallerEnsures, CallerChecks, CallerSeesLimit
<1>10. ASSUME NEW l \in Legs,
              RunnerAcquires(l) \/ RunnerEnds(l) \/ RunnerStops(l) \/ Unwind(l) \/ Cancel(l)
       PROVE  UNCHANGED <<relay, pairTurn>>
  BY <1>10 DEF userVars, RunnerAcquires, RunnerEnds, RunnerStops, Settle, Unwind,
     RunnerAnswers, RunnerDrained, Cancel
<1>11. SetLimit => UNCHANGED <<relay, pairTurn>>
  BY DEF SetLimit, userVars
<1>12. QED
  BY <1>1, <1>2, <1>3, <1>4, <1>5, <1>6, <1>7, <1>8, <1>9, <1>10, <1>11 DEF Next, Pair

(* A grower selects only when a login is pending, and nobody else ends one. *)
LEMMA LoginStep == TypeOK /\ LoginIsPending /\ Next => LoginIsPending'
<1> SUFFICES ASSUME TypeOK, LoginIsPending, Next PROVE LoginIsPending'
  OBVIOUS
<1>types. growth \in [Pools -> Growths]
  BY DEF TypeOK
<1>1. ASSUME NEW p \in Pools, GrowEnough(p) PROVE LoginIsPending'
  BY <1>1, <1>types DEF GrowEnough, LoginIsPending, Growths
<1>2. ASSUME NEW p \in Pools, NEW at \in {"check", "drain", "leave"},
             growth' = [growth EXCEPT ![p] = growth'[p]], growth'[p].at = at
      PROVE  LoginIsPending'
  BY <1>2, <1>types DEF LoginIsPending
<1>3. ASSUME NEW p \in Pools, Grow(p) PROVE LoginIsPending'
  <2>1. ASSUME GrowLogin(p) \/ GrowCancelled(p) \/ GrowNudged(p) \/ GrowDrained(p)
                    \/ GrowLeaves(p)
        PROVE  /\ growth' = [growth EXCEPT ![p] = growth'[p]]
               /\ growth'[p].at \in {"check", "drain", "leave"}
    BY <2>1, <1>types DEF GrowLogin, GrowCancelled, GrowNudged, GrowDrained, GrowLeaves,
       Growing, FreshGrowth, Growths
  <2>2. QED
    BY <1>1, <1>2, <1>3, <2>1 DEF Grow
<1>4. ASSUME NEW p \in Pools, Login(p) PROVE LoginIsPending'
  <2>1. /\ growth' = [growth EXCEPT ![p] = growth'[p]]
        /\ growth'[p].at \in {"check", "drain", "leave"}
    BY <1>4, <1>types DEF Login, LoginOk, LoginTurnedAway, LoginFails, Growths
  <2>2. QED
    BY <1>2, <2>1
<1>5. ASSUME UNCHANGED growth PROVE LoginIsPending'
  BY <1>5 DEF LoginIsPending
<1>6. ASSUME NEW p \in Pools,
             Drain(p) \/ RetryDelayPasses(p) \/ Release(p) \/ CloseStarts(p) \/ Close(p)
      PROVE  UNCHANGED growth
  BY <1>6 DEF growVars, Drain, RetryDelayPasses, Release, CloseStarts, Close, CancelAll,
     DestroyTakes, DestroyTells, WaitedUntilIdle
<1>7. ASSUME NEW t \in Tasks, Submit(t) \/ Call(t) PROVE UNCHANGED growth
  BY <1>7 DEF growVars, Submit, Call, CallerDrained, CallerEnsures, CallerChecks,
     CallerSeesLimit, EnsureWorkers
<1>8. ASSUME NEW l \in Legs,
             RunnerAcquires(l) \/ RunnerEnds(l) \/ RunnerStops(l) \/ Unwind(l) \/ Cancel(l)
      PROVE  UNCHANGED growth
  BY <1>8 DEF growVars, RunnerAcquires, RunnerEnds, RunnerStops, Settle, Unwind,
     RunnerAnswers, AfterRunning, EnsureWorkers, RunnerDrained, Cancel
<1>9. ASSUME NEW r \in Relays, RelayAsks(r) \/ Pair(r) PROVE UNCHANGED growth
  BY <1>9 DEF growVars, RelayAsks, Pair, RelayGlances, RelayGrowsSource,
     RelayGrowsTarget, EnsureWorkers, RelayAdmits, RelayDrained, RelayJoins
<1>10. SetLimit => UNCHANGED growth
  BY DEF SetLimit, growVars
<1>11. QED
  BY <1>3, <1>4, <1>5, <1>6, <1>7, <1>8, <1>9, <1>10 DEF Next

(* The types and what they rest on, together inductive. *)
LEMMA TypeInvariant == Spec => [](TypeOK /\ TurnIsHeld /\ LoginIsPending)
<1>1. UNCHANGED vars /\ TypeOK /\ TurnIsHeld /\ LoginIsPending
        => TypeOK' /\ TurnIsHeld' /\ LoginIsPending'
  BY DEF vars, stateVars, closeVars, growVars, userVars, runVars, TypeOK, TurnIsHeld,
     HasTurn, LoginIsPending
<1>2. QED
  BY <1>1, TypeInit, TypeStep, TurnStep, LoginStep, PTL DEF Spec

(* transfer_pool.rs: every variable keeps its type, for any number of       *)
(* pools, transfers and relays.  The counts of idle and pending logins never *)
(* go below zero, a relay gives back a turn it has, and the marks of         *)
(* stopped transfers stay within CANCELLED_CAP.                              *)
THEOREM PoolTypes == Spec => []TypeOK
  BY TypeInvariant, PTL
=============================================================================
