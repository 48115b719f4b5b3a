-------------------- MODULE TransferPool_safety_proofs --------------------
(***************************************************************************)
(* The safety of TransferPool for any number of pools, transfers, relays   *)
(* and logins.  What a step may do to a pool's idle workers and queue is   *)
(* summed up in PoolStep; the invariants follow from that.                 *)
(***************************************************************************)
EXTENDS TransferPool_proofs

Kept(p) == queue'[p] = queue[p] /\ workers'[p] = workers[p]

(* A login or a live connection joins the idle workers. *)
Joined(p) == ~destroyed(p) /\ queue'[p] = queue[p] /\ workers'[p] = workers[p] + 1

Dispatched(p) ==
    CanDispatch(p) /\ queue'[p] = Tail(queue[p]) /\ workers'[p] = workers[p] - 1

Entered(p) ==
    /\ ~destroyed(p) /\ workers'[p] = workers[p]
    /\ \E t \in Tasks : PoolOf[t] = p /\ queue'[p] = Append(queue[p], t)

TakenOut(p) ==
    /\ workers'[p] = workers[p]
    /\ \E i \in DOMAIN queue[p] : queue'[p] = RemoveAt(queue[p], i)

Emptied(p) == queue'[p] = <<>> /\ workers'[p] \in {0, workers[p]}

(* One or both legs of a relay enter an empty queue of an open pool, with   *)
(* an idle worker each.                                                     *)
Paired(p) ==
    /\ ~destroyed(p) /\ workers'[p] = workers[p]
    /\ queue'[p] \in Seq(Legs) /\ Len(queue'[p]) <= workers[p]
    /\ \A i \in DOMAIN queue'[p] : PoolOf[queue'[p][i]] = p

PoolStep(p) ==
    \/ Kept(p) \/ Joined(p) \/ Dispatched(p) \/ Entered(p) \/ TakenOut(p)
    \/ Emptied(p) \/ Paired(p)

(* What LegReady's "ready" says of the leg's pool. *)
LEMMA ReadyMeansIdle ==
    ASSUME NEW p, NEW l, NEW need, LegReady(p, l, need) = "ready"
    PROVE  ~destroyed(p) /\ queue[p] = <<>> /\ workers[p] >= need
  BY DEF LegReady

(* An empty queue, with one or both legs of a relay pushed. *)
LEMMA PushedOnEmpty ==
    ASSUME NEW a \in Legs, NEW b \in Legs
    PROVE  /\ (<<>> \o <<a>>) \o <<b>> = <<a, b>>
           /\ (<<>> \o <<a>>) \o <<>> = <<a>>
           /\ (<<>> \o <<>>) \o <<b>> = <<b>>
<1>1. <<>> \o <<a>> = <<a>>
  OBVIOUS
<1>2. <<>> \o <<b>> = <<b>>
  OBVIOUS
<1>3. <<a>> \o <<>> = <<a>>
  OBVIOUS
<1>4. <<a>> \o <<b>> = <<a, b>>
  <2>1. /\ <<a>> \o <<b>> \in Seq(Legs) /\ Len(<<a>> \o <<b>>) = 2
        /\ (<<a>> \o <<b>>)[1] = a /\ (<<a>> \o <<b>>)[2] = b
    OBVIOUS
  <2>2. /\ <<a, b>> \in Seq(Legs) /\ Len(<<a, b>>) = 2
        /\ <<a, b>>[1] = a /\ <<a, b>>[2] = b
    OBVIOUS
  <2>3. \A i \in 1..2 : (<<a>> \o <<b>>)[i] = <<a, b>>[i]
    BY <2>1, <2>2
  <2> QED
    BY <2>1, <2>2, <2>3, SeqEqual
<1>5. <<>> \o <<>> = <<>>
  OBVIOUS
<1>6. QED
  BY <1>1, <1>2, <1>3, <1>4, <1>5

(* A relay's legs enter the queues of pools that have the workers for them. *)
LEMMA AdmitStep ==
    ASSUME TypeOK, NEW r \in Relays, RelayAdmits(r), NEW p \in Pools
    PROVE  PoolStep(p)
<1> DEFINE src == SrcPool(r)
           dst == DstPool(r)
<1>types. /\ workers[p] \in Nat /\ queue[p] \in Seq(Legs)
          /\ src \in Pools /\ dst \in Pools
          /\ SrcLeg[r] \in Legs /\ DstLeg[r] \in Legs
  BY LegTypes DEF TypeOK
<1>same. workers' = workers
  BY <1>types DEF RelayAdmits
<1>1. CASE queue' = queue
  BY <1>1, <1>same DEF PoolStep, Kept
<1>2. CASE Admitted(r) /\ PushBoth(r)
  <2>1. LegReady(src, SrcLeg[r], Need(r)) = "ready"
        /\ LegReady(dst, DstLeg[r], Need(r)) = "ready"
    BY <1>2 DEF Admitted, PairReady
  <2>2. /\ ~destroyed(src) /\ queue[src] = <<>> /\ workers[src] >= Need(r)
        /\ ~destroyed(dst) /\ queue[dst] = <<>> /\ workers[dst] >= Need(r)
    BY <2>1, ReadyMeansIdle
  <2>3. queue'[p] = (queue[p] \o (IF p = src THEN <<SrcLeg[r]>> ELSE <<>>))
                            \o (IF p = dst THEN <<DstLeg[r]>> ELSE <<>>)
    BY <1>2 DEF PushBoth
  <2>4. PoolOf[SrcLeg[r]] = src /\ PoolOf[DstLeg[r]] = dst
    BY DEF SrcPool, DstPool
  <2>5. Need(r) = IF src = dst THEN 2 ELSE 1
    BY DEF Need, SamePool
  <2> HIDE DEF src, dst
  <2>6. CASE p = src /\ p = dst
    <3>1. queue'[p] = <<SrcLeg[r], DstLeg[r]>>
      <4>1. queue'[p] = (<<>> \o <<SrcLeg[r]>>) \o <<DstLeg[r]>>
        BY <2>2, <2>3, <2>6
      <4>2. QED
        BY <4>1, <1>types, PushedOnEmpty
    <3>2. /\ queue'[p] \in Seq(Legs) /\ Len(queue'[p]) <= workers[p]
          /\ \A i \in DOMAIN queue'[p] : PoolOf[queue'[p][i]] = p
      BY <3>1, <2>2, <2>4, <2>5, <2>6, <1>types
    <3>3. QED
      BY <3>2, <2>2, <2>6, <1>same DEF PoolStep, Paired
  <2>7. CASE p = src /\ p # dst
    <3>1. queue'[p] = <<SrcLeg[r]>>
      BY <2>2, <2>3, <2>7, <1>types, PushedOnEmpty
    <3>2. /\ queue'[p] \in Seq(Legs) /\ Len(queue'[p]) <= workers[p]
          /\ \A i \in DOMAIN queue'[p] : PoolOf[queue'[p][i]] = p
      BY <3>1, <2>2, <2>4, <2>5, <2>7, <1>types
    <3>3. QED
      BY <3>2, <2>2, <2>7, <1>same DEF PoolStep, Paired
  <2>8. CASE p # src /\ p = dst
    <3>1. queue'[p] = <<DstLeg[r]>>
      BY <2>2, <2>3, <2>8, <1>types, PushedOnEmpty
    <3>2. /\ queue'[p] \in Seq(Legs) /\ Len(queue'[p]) <= workers[p]
          /\ \A i \in DOMAIN queue'[p] : PoolOf[queue'[p][i]] = p
      BY <3>1, <2>2, <2>4, <2>5, <2>8, <1>types
    <3>3. QED
      BY <3>2, <2>2, <2>8, <1>same DEF PoolStep, Paired
  <2>9. CASE p # src /\ p # dst
    <3>1. queue'[p] = queue[p]
      BY <2>3, <2>9, <1>types
    <3>2. QED
      BY <3>1, <1>same DEF PoolStep, Kept
  <2>10. QED
    BY <2>6, <2>7, <2>8, <2>9
<1>3. QED
  BY <1>1, <1>2 DEF RelayAdmits

(* Every step treats every pool in one of the ways above. *)
LEMMA PoolSteps ==
    ASSUME TypeOK, Next, NEW p \in Pools
    PROVE  PoolStep(p)
<1> USE DEF stateVars
<1>types. workers \in [Pools -> Nat] /\ queue \in [Pools -> Seq(Legs)]
  BY DEF TypeOK
<1>legs. (\A l \in Legs : PoolOf[l] \in Pools) /\ (\A t \in Tasks : PoolOf[t] \in Pools)
  BY LegTypes
<1>kept. ASSUME UNCHANGED <<queue, workers>> PROVE PoolStep(p)
  BY <1>kept DEF PoolStep, Kept
<1>1. ASSUME NEW q \in Pools, Drain(q) PROVE PoolStep(p)
  <2>1. /\ CanDispatch(q) /\ workers' = [workers EXCEPT ![q] = @ - 1]
        /\ queue' = [queue EXCEPT ![q] = Tail(@)]
    BY <1>1 DEF Drain, Dispatch
  <2>2. CASE q = p
    BY <2>1, <2>2, <1>types DEF PoolStep, Dispatched
  <2>3. CASE q # p
    BY <2>1, <2>3, <1>types DEF PoolStep, Kept
  <2>4. QED
    BY <2>2, <2>3
<1>2. ASSUME NEW q \in Pools, GrowLeaves(q) PROVE PoolStep(p)
  <2>1. workers' = workers /\ (queue' = queue \/ queue' = [queue EXCEPT ![q] = <<>>])
    BY <1>2 DEF GrowLeaves, AnswerQueue
  <2>2. QED
    BY <2>1, <1>types DEF PoolStep, Kept, Emptied
<1>3. ASSUME NEW q \in Pools, Login(q) PROVE PoolStep(p)
  <2>1. /\ queue' = queue
        /\ \/ workers' = workers
           \/ ~destroyed(q) /\ workers' = [workers EXCEPT ![q] = @ + 1]
    BY <1>3 DEF Login, LoginOk, LoginTurnedAway, LoginFails
  <2>2. QED
    BY <2>1, <1>types DEF PoolStep, Kept, Joined
<1>4. ASSUME NEW q \in Pools, Release(q) PROVE PoolStep(p)
  <2>1. /\ queue' = queue
        /\ \/ workers' = workers
           \/ queue[q] = <<>> /\ workers' = [workers EXCEPT ![q] = 0]
    BY <1>4 DEF Release
  <2>2. QED
    BY <2>1, <1>types DEF PoolStep, Kept, Emptied
<1>5. ASSUME NEW q \in Pools, CancelAll(q) \/ DestroyTakes(q) PROVE PoolStep(p)
  <2>1. /\ queue' = [queue EXCEPT ![q] = <<>>]
        /\ workers' = [workers EXCEPT ![q] = 0]
    BY <1>5 DEF CancelAll, DestroyTakes, AnswerQueue
  <2>2. QED
    BY <2>1, <1>types DEF PoolStep, Kept, Emptied
<1>6. ASSUME NEW t \in Tasks, Submit(t) PROVE PoolStep(p)
  <2>1. /\ workers' = workers
        /\ \/ queue' = queue
           \/ /\ ~destroyed(PoolOf[t])
              /\ queue' = [queue EXCEPT ![PoolOf[t]] = Append(@, t)]
    BY <1>6 DEF Submit
  <2>2. CASE PoolOf[t] = p
    BY <2>1, <2>2, <1>types DEF PoolStep, Kept, Entered
  <2>3. CASE PoolOf[t] # p
    BY <2>1, <2>3, <1>types, <1>legs DEF PoolStep, Kept
  <2>4. QED
    BY <2>2, <2>3
<1>7. ASSUME NEW q \in Pools, workers' = workers, NEW i \in DOMAIN queue[q],
             queue' = [queue EXCEPT ![q] = RemoveAt(queue[q], i)]
      PROVE  PoolStep(p)
  <2>1. CASE q = p
    BY <1>7, <2>1, <1>types DEF PoolStep, TakenOut
  <2>2. CASE q # p
    BY <1>7, <2>2, <1>types DEF PoolStep, Kept
  <2>3. QED
    BY <2>1, <2>2
<1>8. ASSUME NEW t \in Tasks, Call(t) PROVE PoolStep(p)
  <2>1. CASE CallerChecks(t)
    <3>1. workers' = workers
      BY <2>1 DEF CallerChecks
    <3>2. queue' = queue \/ \E i \in DOMAIN queue[PoolOf[t]] :
            queue' = [queue EXCEPT ![PoolOf[t]] = RemoveAt(queue[PoolOf[t]], i)]
      BY <2>1 DEF CallerChecks
    <3>3. QED
      BY <3>1, <3>2, <1>7, <1>kept, <1>legs
  <2>2. CASE CallerDrained(t) \/ CallerEnsures(t) \/ CallerSeesLimit(t)
    BY <2>2, <1>kept DEF CallerDrained, CallerEnsures, CallerSeesLimit
  <2>3. QED
    BY <1>8, <2>1, <2>2 DEF Call
<1>9. ASSUME NEW l \in Legs, Cancel(l) PROVE PoolStep(p)
  <2>1. workers' = workers
    BY <1>9 DEF Cancel
  <2>2. queue' = queue \/ \E i \in DOMAIN queue[PoolOf[l]] :
            queue' = [queue EXCEPT ![PoolOf[l]] = RemoveAt(queue[PoolOf[l]], i)]
    BY <1>9 DEF Cancel
  <2>3. QED
    BY <2>1, <2>2, <1>7, <1>kept, <1>legs
<1>10. ASSUME NEW l \in Legs, NEW alive \in BOOLEAN, Settle(l, alive) PROVE PoolStep(p)
  <2>1. /\ queue' = queue
        /\ \/ workers' = workers
           \/ ~destroyed(PoolOf[l]) /\ workers' = [workers EXCEPT ![PoolOf[l]] = @ + 1]
    BY <1>10 DEF Settle
  <2>2. QED
    BY <2>1, <1>types, <1>legs DEF PoolStep, Kept, Joined
<1>11. ASSUME NEW l \in Legs, RunnerEnds(l) \/ RunnerStops(l) PROVE PoolStep(p)
  <2>1. \E alive \in BOOLEAN : Settle(l, alive)
    BY <1>11 DEF RunnerEnds, RunnerStops
  <2>2. QED
    BY <2>1, <1>10
<1>12. ASSUME NEW q \in Pools,
              Grow(q) \/ RetryDelayPasses(q) \/ CloseStarts(q) \/ Close(q)
       PROVE  PoolStep(p)
  <2>1. CASE GrowLeaves(q) \/ CancelAll(q) \/ DestroyTakes(q)
    BY <2>1, <1>2, <1>5
  <2>2. CASE GrowLogin(q) \/ GrowEnough(q) \/ GrowCancelled(q) \/ GrowNudged(q)
                \/ GrowDrained(q)
    BY <2>2, <1>kept DEF GrowLogin, GrowEnough, GrowCancelled, GrowNudged, GrowDrained
  <2>3. CASE RetryDelayPasses(q) \/ CloseStarts(q) \/ DestroyTells(q) \/ WaitedUntilIdle(q)
    BY <2>3, <1>kept DEF RetryDelayPasses, CloseStarts, DestroyTells, WaitedUntilIdle
  <2>4. QED
    BY <1>12, <2>1, <2>2, <2>3 DEF Grow, Close
<1>13. ASSUME NEW l \in Legs, RunnerAcquires(l) \/ Unwind(l) PROVE PoolStep(p)
  BY <1>13, <1>kept DEF RunnerAcquires, Unwind, RunnerAnswers, RunnerDrained
<1>14. ASSUME NEW r \in Relays, RelayAsks(r) \/ Pair(r) PROVE PoolStep(p)
  <2>1. CASE RelayAdmits(r)
    BY <2>1, AdmitStep
  <2>2. CASE RelayAsks(r) \/ RelayGlances(r) \/ RelayGrowsSource(r) \/ RelayGrowsTarget(r)
                \/ RelayDrained(r) \/ RelayJoins(r)
    BY <2>2, <1>kept DEF RelayAsks, RelayGlances, RelayGrowsSource, RelayGrowsTarget,
       RelayDrained, RelayJoins
  <2>3. QED
    BY <1>14, <2>1, <2>2 DEF Pair
<1>15. SetLimit => PoolStep(p)
  BY <1>kept DEF SetLimit
<1>16. QED
  BY <1>1, <1>3, <1>4, <1>6, <1>8, <1>9, <1>11, <1>12, <1>13, <1>14, <1>15 DEF Next
-----------------------------------------------------------------------------
(* A removal moves nothing towards the back. *)
LEMMA RemovedFrom ==
    ASSUME NEW s \in Seq(Legs), NEW i \in DOMAIN s, NEW j \in DOMAIN RemoveAt(s, i)
    PROVE  /\ RemoveAt(s, i) \in Seq(Legs)
           /\ \E k \in DOMAIN s : k >= j /\ RemoveAt(s, i)[j] = s[k]
<1>1. i \in 1..Len(s)
  OBVIOUS
<1>2. /\ RemoveAt(s, i) \in Seq(Legs) /\ Len(RemoveAt(s, i)) = Len(s) - 1
      /\ \A m \in 1..(Len(s) - 1) :
            RemoveAt(s, i)[m] = IF m < i THEN s[m] ELSE s[m + 1]
  BY <1>1, RemoveAtProperties
<1>3. j \in 1..(Len(s) - 1)
  BY <1>2
<1>4. CASE j < i
  BY <1>2, <1>3, <1>4
<1>5. CASE ~(j < i)
  BY <1>2, <1>3, <1>5
<1>6. QED
  BY <1>2, <1>4, <1>5

(* Relay legs stand in the queue only within the workers that are idle. *)
LEMMA AdmittedStep == TypeOK /\ AdmittedLegsHaveWorkers /\ Next => AdmittedLegsHaveWorkers'
<1> SUFFICES ASSUME TypeOK, AdmittedLegsHaveWorkers, Next, NEW p \in Pools,
                    NEW i \in DOMAIN queue'[p], queue'[p][i] \in RelayLegs
             PROVE  i <= workers'[p]
  BY DEF AdmittedLegsHaveWorkers
<1>types. workers[p] \in Nat /\ queue[p] \in Seq(Legs)
  BY DEF TypeOK
<1>before. \A j \in DOMAIN queue[p] : queue[p][j] \in RelayLegs => j <= workers[p]
  BY DEF AdmittedLegsHaveWorkers
<1>1. PoolStep(p)
  BY PoolSteps
<1>2. CASE Kept(p) \/ Joined(p)
  BY <1>2, <1>types, <1>before DEF Kept, Joined
<1>3. CASE Dispatched(p)
  <2>1. /\ queue[p] # <<>> /\ queue'[p] = Tail(queue[p]) /\ workers'[p] = workers[p] - 1
    BY <1>3 DEF Dispatched, CanDispatch
  <2>2. i + 1 \in DOMAIN queue[p] /\ queue'[p][i] = queue[p][i + 1] /\ i \in Nat
    BY <2>1, <1>types
  <2>3. QED
    BY <2>1, <2>2, <1>before, <1>types
<1>4. CASE Entered(p)
  <2>1. PICK t \in Tasks : queue'[p] = Append(queue[p], t)
    BY <1>4 DEF Entered
  <2>2. t \notin RelayLegs
    BY PoolAssumption
  <2>3. i \in DOMAIN queue[p] /\ queue'[p][i] = queue[p][i]
    BY <2>1, <2>2, <1>types
  <2>4. QED
    BY <2>3, <1>4, <1>before DEF Entered
<1>5. CASE TakenOut(p)
  <2>1. PICK k \in DOMAIN queue[p] : queue'[p] = RemoveAt(queue[p], k)
    BY <1>5 DEF TakenOut
  <2>2. PICK m \in DOMAIN queue[p] : m >= i /\ queue'[p][i] = queue[p][m]
    BY <2>1, <1>types, RemovedFrom
  <2>3. queue'[p] \in Seq(Legs)
    BY <2>1, <1>types, RemovedFrom
  <2>4. i \in Nat /\ m \in Nat
    BY <2>3, <1>types
  <2>5. QED
    BY <2>2, <2>4, <1>5, <1>before, <1>types DEF TakenOut
<1>6. CASE Emptied(p)
  BY <1>6 DEF Emptied
<1>7. CASE Paired(p)
  BY <1>7, <1>types DEF Paired
<1>8. QED
  BY <1>1, <1>2, <1>3, <1>4, <1>5, <1>6, <1>7 DEF PoolStep

(* transfer_pool.rs run_pair: a relay never waits with a worker in hand.    *)
(* Once its legs are queued, the workers for them and for what is ahead of  *)
(* them are idle, in any number of pools and whoever drains, logs in, stops, *)
(* releases or closes in between.                                           *)
THEOREM AdmittedLegs == Spec => []AdmittedLegsHaveWorkers
<1>1. Init => AdmittedLegsHaveWorkers
  BY DEF Init, AdmittedLegsHaveWorkers
<1>2. UNCHANGED vars /\ AdmittedLegsHaveWorkers => AdmittedLegsHaveWorkers'
  BY DEF vars, stateVars, AdmittedLegsHaveWorkers
<1>3. QED
  BY <1>1, <1>2, AdmittedStep, PoolTypes, PTL DEF Spec
-----------------------------------------------------------------------------
(* A queue holds its own pool's transfers; the active map holds exactly the *)
(* transfers whose runner has a worker.                                     *)
QueuedHere == \A p \in Pools : \A i \in DOMAIN queue[p] : PoolOf[queue[p][i]] = p
Busy == {"starting", "running"}
ActiveRuns == \A p \in Pools : \A l \in active[p] : PoolOf[l] = p /\ runner[l] \in Busy
RunsAreActive == \A l \in Legs : runner[l] \in Busy => l \in active[PoolOf[l]]
ActiveIsRunning == QueuedHere /\ ActiveRuns /\ RunsAreActive

(* What enters a queue belongs to the pool, and nothing moves between pools. *)
LEMMA QueuedHereStep == TypeOK /\ QueuedHere /\ Next => QueuedHere'
<1> SUFFICES ASSUME TypeOK, QueuedHere, Next, NEW p \in Pools, NEW i \in DOMAIN queue'[p]
             PROVE  PoolOf[queue'[p][i]] = p
  BY DEF QueuedHere
<1>types. workers[p] \in Nat /\ queue[p] \in Seq(Legs)
  BY DEF TypeOK
<1>before. \A j \in DOMAIN queue[p] : PoolOf[queue[p][j]] = p
  BY DEF QueuedHere
<1>1. PoolStep(p)
  BY PoolSteps
<1>2. CASE Kept(p) \/ Joined(p) \/ Emptied(p)
  BY <1>2, <1>before DEF Kept, Joined, Emptied
<1>3. CASE Dispatched(p)
  <2>1. queue[p] # <<>> /\ queue'[p] = Tail(queue[p])
    BY <1>3 DEF Dispatched, CanDispatch
  <2>2. i + 1 \in DOMAIN queue[p] /\ queue'[p][i] = queue[p][i + 1]
    BY <2>1, <1>types
  <2>3. QED
    BY <2>2, <1>before
<1>4. CASE Entered(p)
  <2>1. PICK t \in Tasks : PoolOf[t] = p /\ queue'[p] = Append(queue[p], t)
    BY <1>4 DEF Entered
  <2>2. queue'[p][i] = t \/ (i \in DOMAIN queue[p] /\ queue'[p][i] = queue[p][i])
    BY <2>1, <1>types
  <2>3. QED
    BY <2>1, <2>2, <1>before
<1>5. CASE TakenOut(p)
  <2>1. PICK k \in DOMAIN queue[p] : queue'[p] = RemoveAt(queue[p], k)
    BY <1>5 DEF TakenOut
  <2>2. PICK m \in DOMAIN queue[p] : m >= i /\ queue'[p][i] = queue[p][m]
    BY <2>1, <1>types, RemovedFrom
  <2>3. QED
    BY <2>2, <1>before
<1>6. CASE Paired(p)
  BY <1>6 DEF Paired
<1>7. QED
  BY <1>1, <1>2, <1>3, <1>4, <1>5, <1>6 DEF PoolStep

(* Only drain and a runner's last critical section change the active map.   *)
LEMMA ActiveSteps ==
    ASSUME TypeOK, Next
    PROVE  \/ active' = active /\ \A l \in Legs : runner'[l] \in Busy <=> runner[l] \in Busy
           \/ \E p \in Pools : Drain(p)
           \/ \E l \in Legs : RunnerEnds(l) \/ RunnerStops(l)
<1> USE DEF stateVars, runVars
<1> DEFINE Same == active' = active /\ \A l \in Legs : runner'[l] \in Busy <=> runner[l] \in Busy
<1>types. runner \in [Legs -> RunnerStates]
  BY DEF TypeOK
<1>same. ASSUME UNCHANGED <<active, runner>> PROVE Same
  BY <1>same
<1>1. ASSUME NEW l \in Legs, RunnerAcquires(l) \/ Unwind(l) PROVE Same
  <2>1. active' = active
    BY <1>1 DEF RunnerAcquires, Unwind, RunnerAnswers, RunnerDrained
  <2>2. \/ runner[l] = "starting" /\ runner' = [runner EXCEPT ![l] = "running"]
        \/ \E to \in {"drain", "replacing", "gone"} :
                runner[l] \notin Busy /\ runner' = [runner EXCEPT ![l] = to]
    BY <1>1 DEF RunnerAcquires, Unwind, RunnerAnswers, AfterRunning, RunnerDrained,
       RunnerGoes, Busy
  <2>3. QED
    BY <2>1, <2>2, <1>types DEF Busy
<1>2. ASSUME NEW p \in Pools,
             Grow(p) \/ Login(p) \/ RetryDelayPasses(p) \/ Release(p) \/ CloseStarts(p)
                \/ Close(p)
      PROVE  UNCHANGED <<active, runner>>
  BY <1>2 DEF Grow, GrowLogin, GrowEnough, GrowCancelled, GrowNudged, GrowDrained,
     GrowLeaves, Login, LoginOk, LoginTurnedAway, LoginFails, RetryDelayPasses, Release,
     CloseStarts, Close, CancelAll, DestroyTakes, DestroyTells, WaitedUntilIdle
<1>3. ASSUME NEW t \in Tasks, Submit(t) \/ Call(t) PROVE UNCHANGED <<active, runner>>
  BY <1>3 DEF Submit, Call, CallerDrained, CallerEnsures, CallerChecks, CallerSeesLimit
<1>4. ASSUME NEW l \in Legs, Cancel(l) PROVE UNCHANGED <<active, runner>>
  BY <1>4 DEF Cancel
<1>5. ASSUME NEW r \in Relays, RelayAsks(r) \/ Pair(r) PROVE UNCHANGED <<active, runner>>
  BY <1>5 DEF RelayAsks, Pair, RelayGlances, RelayGrowsSource, RelayGrowsTarget,
     RelayAdmits, RelayDrained, RelayJoins
<1>6. SetLimit => UNCHANGED <<active, runner>>
  BY DEF SetLimit
<1> HIDE DEF Same
<1>7. Same \/ (\E p \in Pools : Drain(p)) \/ (\E l \in Legs : RunnerEnds(l) \/ RunnerStops(l))
  BY <1>same, <1>1, <1>2, <1>3, <1>4, <1>5, <1>6 DEF Next
<1>8. QED
  BY <1>7 DEF Same

(* The active map and the runners change together. *)
LEMMA ActiveIsRunningStep == TypeOK /\ ActiveIsRunning /\ Next => ActiveIsRunning'
<1> SUFFICES ASSUME TypeOK, ActiveIsRunning, Next PROVE ActiveIsRunning'
  OBVIOUS
<1>types. /\ active \in [Pools -> SUBSET Legs] /\ runner \in [Legs -> RunnerStates]
          /\ queue \in [Pools -> Seq(Legs)] /\ \A l \in Legs : PoolOf[l] \in Pools
  BY LegTypes DEF TypeOK
<1>here. QueuedHere'
  BY QueuedHereStep DEF ActiveIsRunning
<1>1. CASE active' = active /\ \A l \in Legs : runner'[l] \in Busy <=> runner[l] \in Busy
  BY <1>1, <1>here, <1>types DEF ActiveIsRunning, ActiveRuns, RunsAreActive
<1>2. ASSUME NEW p \in Pools, Drain(p) PROVE ActiveIsRunning'
  <2> DEFINE l == Head(queue[p])
  <2>1. queue[p] # <<>> /\ queue[p] \in Seq(Legs)
    BY <1>2, <1>types DEF Drain, CanDispatch
  <2>2. l \in Legs /\ 1 \in DOMAIN queue[p] /\ l = queue[p][1]
    BY <2>1
  <2>3. PoolOf[l] = p
    BY <2>2 DEF ActiveIsRunning, QueuedHere
  <2>4. /\ active' = [active EXCEPT ![p] = @ \cup {l}]
        /\ runner' = [runner EXCEPT ![l] = "starting"]
    BY <1>2 DEF Drain, Dispatch
  <2> HIDE DEF l
  <2>5. ActiveRuns'
    BY <2>2, <2>3, <2>4, <1>types DEF ActiveIsRunning, ActiveRuns, Busy
  <2>6. RunsAreActive'
    BY <2>2, <2>3, <2>4, <1>types DEF ActiveIsRunning, RunsAreActive, Busy
  <2>7. QED
    BY <1>here, <2>5, <2>6 DEF ActiveIsRunning
<1>3. ASSUME NEW l \in Legs, RunnerEnds(l) \/ RunnerStops(l) PROVE ActiveIsRunning'
  <2>1. /\ active' = [active EXCEPT ![PoolOf[l]] = @ \ {l}]
        /\ \E to \in {"leftClosed", "leftLive", "leftLost"} :
                runner' = [runner EXCEPT ![l] = to]
    BY <1>3 DEF RunnerEnds, RunnerStops, Settle
  <2>2. ActiveRuns'
    BY <2>1, <1>types DEF ActiveIsRunning, ActiveRuns, Busy
  <2>3. RunsAreActive'
    BY <2>1, <1>types DEF ActiveIsRunning, RunsAreActive, Busy
  <2>4. QED
    BY <1>here, <2>2, <2>3 DEF ActiveIsRunning
<1>4. QED
  BY <1>1, <1>2, <1>3, ActiveSteps

(* So they agree in every reachable state. *)
LEMMA ActiveIsRunningInvariant == Spec => []ActiveIsRunning
<1>1. Init => ActiveIsRunning
  BY DEF Init, ActiveIsRunning, QueuedHere, ActiveRuns, RunsAreActive, Busy
<1>2. UNCHANGED vars /\ ActiveIsRunning => ActiveIsRunning'
  BY DEF vars, stateVars, runVars, ActiveIsRunning, QueuedHere, ActiveRuns, RunsAreActive
<1>3. QED
  BY <1>1, <1>2, ActiveIsRunningStep, PoolTypes, PTL DEF Spec
-----------------------------------------------------------------------------
(* There are finitely many legs, so every pool runs finitely many. *)
LEMMA LegsFinite == IsFiniteSet(Legs)
<1> DEFINE src == [r \in Relays |-> SrcLeg[r]]
           dst == [r \in Relays |-> DstLeg[r]]
           S == {SrcLeg[r] : r \in Relays}
           D == {DstLeg[r] : r \in Relays}
<1>1. src \in Surjection(Relays, S) /\ dst \in Surjection(Relays, D)
  BY DEF Surjection
<1>2. IsFiniteSet(S) /\ IsFiniteSet(D)
  <2> HIDE DEF S, D, src, dst
  <2>1. IsFiniteSet(Relays)
    BY PoolAssumption
  <2>2. QED
    BY <1>1, <2>1, FS_Surjection
<1>3. Legs = Tasks \cup (S \cup D)
  BY DEF Legs, RelayLegs
<1> HIDE DEF S, D, src, dst
<1>4. IsFiniteSet(Tasks)
  BY PoolAssumption
<1>5. QED
  BY <1>2, <1>3, <1>4, FS_Union

(* What a step does to a pool's logins: idle, busy and pending. *)
Connecting(p) == growth[p].connecting
LoginsKept(p) ==
    active'[p] = active[p] /\ workers'[p] + Connecting(p)' <= workers[p] + Connecting(p)
LoginStarted(p) ==
    /\ NeedMore(p) /\ active'[p] = active[p] /\ workers'[p] = workers[p]
    /\ Connecting(p)' = Connecting(p) + 1
LoginTaken(p) ==
    /\ workers[p] > 0 /\ workers'[p] = workers[p] - 1 /\ Connecting(p)' = Connecting(p)
    /\ \E l \in Legs : active'[p] = active[p] \cup {l}
LoginBack(p) ==
    /\ workers'[p] <= workers[p] + 1 /\ Connecting(p)' = Connecting(p)
    /\ \E l \in active[p] : active'[p] = active[p] \ {l}
LoginShape(p) == LoginsKept(p) \/ LoginStarted(p) \/ LoginTaken(p) \/ LoginBack(p)

(* Every step moves the logins of every pool in one of these ways. *)
LEMMA LoginSteps ==
    ASSUME TypeOK, LoginIsPending, ActiveIsRunning, Next, NEW p \in Pools
    PROVE  LoginShape(p)
<1> USE DEF stateVars, growVars
<1>types. /\ active \in [Pools -> SUBSET Legs] /\ workers \in [Pools -> Nat]
          /\ growth \in [Pools -> Growths]
  BY DEF TypeOK
<1>runs. /\ runner \in [Legs -> RunnerStates] /\ queue \in [Pools -> Seq(Legs)]
         /\ \A l \in Legs : PoolOf[l] \in Pools
  BY LegTypes DEF TypeOK
<1>pending. \A q \in Pools : Connecting(q) \in Nat
  BY <1>types DEF Growths, Connecting
<1>kept. ASSUME UNCHANGED <<workers, active, growth>> PROVE LoginShape(p)
  BY <1>kept, <1>types, <1>pending DEF LoginShape, LoginsKept, Connecting
<1>fewer. ASSUME NEW q \in Pools, NEW w \in Nat, w <= workers[q], active' = active,
                 workers' = [workers EXCEPT ![q] = w], growth' = growth
          PROVE  LoginShape(p)
  BY <1>fewer, <1>types, <1>pending DEF LoginShape, LoginsKept, Connecting
<1>1. ASSUME NEW q \in Pools, Drain(q) PROVE LoginShape(p)
  <2>1. Head(queue[q]) \in Legs /\ workers[q] > 0
    BY <1>1, <1>runs DEF Drain, CanDispatch
  <2>2. /\ workers' = [workers EXCEPT ![q] = @ - 1] /\ growth' = growth
        /\ active' = [active EXCEPT ![q] = @ \cup {Head(queue[q])}]
    BY <1>1 DEF Drain, Dispatch
  <2>3. CASE q = p
    BY <2>1, <2>2, <2>3, <1>types DEF LoginShape, LoginTaken, Connecting
  <2>4. CASE q # p
    BY <2>2, <2>4, <1>types, <1>pending DEF LoginShape, LoginsKept, Connecting
  <2>5. QED
    BY <2>3, <2>4
<1>2. ASSUME NEW q \in Pools, GrowLogin(q) PROVE LoginShape(p)
  <2>1. /\ NeedMore(q) /\ workers' = workers /\ active' = active
        /\ growth' = [growth EXCEPT ![q].connecting = @ + 1]
    BY <1>2 DEF GrowLogin
  <2>2. CASE q = p
    BY <2>1, <2>2, <1>types DEF LoginShape, LoginStarted, Connecting, Growths
  <2>3. CASE q # p
    BY <2>1, <2>3, <1>types, <1>pending DEF LoginShape, LoginsKept, Connecting
  <2>4. QED
    BY <2>2, <2>3
<1>3. ASSUME NEW q \in Pools,
             GrowEnough(q) \/ GrowCancelled(q) \/ GrowNudged(q) \/ GrowDrained(q)
                \/ GrowLeaves(q)
      PROVE  LoginShape(p)
  <2>1. workers' = workers /\ active' = active
    BY <1>3 DEF GrowEnough, GrowCancelled, GrowNudged, GrowDrained, GrowLeaves
  <2>2. Connecting(p)' \in {Connecting(p), 0}
    <3>1. CASE GrowEnough(q) \/ GrowNudged(q) \/ GrowDrained(q)
      BY <3>1, <1>types DEF GrowEnough, GrowNudged, GrowDrained, Connecting, Growths
    <3>2. CASE GrowCancelled(q)
      BY <3>2, <1>types DEF GrowCancelled, Connecting, Growths
    <3>3. CASE GrowLeaves(q)
      BY <3>3, <1>types DEF GrowLeaves, FreshGrowth, Connecting
    <3>4. QED
      BY <1>3, <3>1, <3>2, <3>3
  <2>3. QED
    BY <2>1, <2>2, <1>types, <1>pending DEF LoginShape, LoginsKept
<1>4. ASSUME NEW q \in Pools, Login(q) PROVE LoginShape(p)
  <2>1. active' = active /\ Growing(q, "select")
    BY <1>4 DEF Login, LoginOk, LoginTurnedAway, LoginFails
  <2>2. Connecting(q) > 0
    BY <2>1 DEF Growing, LoginIsPending, Connecting
  <2>3. CASE q = p
    <3>1. \/ workers'[p] = workers[p] /\ Connecting(p)' \in {0, Connecting(p) - 1}
          \/ workers'[p] = workers[p] + 1 /\ Connecting(p)' = Connecting(p) - 1
      BY <1>4, <2>3, <1>types DEF Login, LoginOk, LoginTurnedAway, LoginFails, Connecting,
         Growths
    <3>2. QED
      BY <2>1, <2>2, <2>3, <3>1, <1>types, <1>pending DEF LoginShape, LoginsKept
  <2>4. CASE q # p
    <3>1. workers'[p] = workers[p] /\ Connecting(p)' = Connecting(p)
      BY <1>4, <2>4, <1>types DEF Login, LoginOk, LoginTurnedAway, LoginFails, Connecting
    <3>2. QED
      BY <2>1, <3>1, <1>types, <1>pending DEF LoginShape, LoginsKept
  <2>5. QED
    BY <2>3, <2>4
<1>5. ASSUME NEW l \in Legs, RunnerEnds(l) \/ RunnerStops(l) PROVE LoginShape(p)
  <2>1. runner[l] \in Busy
    BY <1>5 DEF RunnerEnds, RunnerStops, Busy
  <2>2. l \in active[PoolOf[l]] /\ PoolOf[l] \in Pools
    BY <2>1, <1>runs DEF ActiveIsRunning, RunsAreActive
  <2>3. /\ active' = [active EXCEPT ![PoolOf[l]] = @ \ {l}] /\ growth' = growth
        /\ workers' = workers \/ workers' = [workers EXCEPT ![PoolOf[l]] = @ + 1]
    BY <1>5 DEF RunnerEnds, RunnerStops, Settle
  <2>4. CASE PoolOf[l] = p
    BY <2>2, <2>3, <2>4, <1>types DEF LoginShape, LoginBack, Connecting
  <2>5. CASE PoolOf[l] # p
    BY <2>2, <2>3, <2>5, <1>types, <1>pending DEF LoginShape, LoginsKept, Connecting
  <2>6. QED
    BY <2>4, <2>5
<1>6. ASSUME NEW q \in Pools, Release(q) \/ Close(q) PROVE LoginShape(p)
  <2>1. /\ active' = active /\ growth' = growth
        /\ workers' = workers \/ workers' = [workers EXCEPT ![q] = 0]
    BY <1>6 DEF Release, Close, CancelAll, DestroyTakes, DestroyTells, WaitedUntilIdle
  <2>2. QED
    BY <2>1, <1>kept, <1>fewer, <1>types
<1>7. ASSUME NEW q \in Pools, RetryDelayPasses(q) \/ CloseStarts(q) PROVE LoginShape(p)
  BY <1>7, <1>kept DEF RetryDelayPasses, CloseStarts
<1>8. ASSUME NEW t \in Tasks, Submit(t) \/ Call(t) PROVE LoginShape(p)
  BY <1>8, <1>kept DEF Submit, Call, CallerDrained, CallerEnsures, CallerChecks,
     CallerSeesLimit, EnsureWorkers
<1>9. ASSUME NEW l \in Legs, RunnerAcquires(l) \/ Unwind(l) \/ Cancel(l) PROVE LoginShape(p)
  BY <1>9, <1>kept DEF RunnerAcquires, Unwind, RunnerAnswers, AfterRunning, EnsureWorkers,
     RunnerDrained, Cancel
<1>10. ASSUME NEW r \in Relays, RelayAsks(r) \/ Pair(r) PROVE LoginShape(p)
  BY <1>10, <1>kept DEF RelayAsks, Pair, RelayGlances, RelayGrowsSource,
     RelayGrowsTarget, EnsureWorkers, RelayAdmits, RelayDrained, RelayJoins
<1>11. SetLimit => LoginShape(p)
  BY <1>kept DEF SetLimit
<1>12. QED
  BY <1>1, <1>2, <1>3, <1>4, <1>5, <1>6, <1>7, <1>8, <1>9, <1>10, <1>11 DEF Next, Grow

(* A login is started only where the site's limit leaves room for one. *)
LEMMA RoomForLogin ==
    ASSUME TypeOK, NEW p \in Pools, NeedMore(p), Size # 0
    PROVE  workers[p] + Cardinality(active[p]) + growth[p].connecting < Size
<1>1. /\ active[p] \subseteq Legs /\ queue[p] \in Seq(Legs) /\ workers[p] \in Nat
      /\ growth[p] \in Growths
  BY DEF TypeOK
<1>2. Cardinality(active[p]) \in Nat
  BY <1>1, LegsFinite, FS_Subset, FS_CardinalityType
<1>3. Spare(p) \in Nat
  BY DEF Spare, Need
<1>4. Total(p) \in Nat /\ Needed(p) \in Nat
  BY <1>1, <1>2, <1>3 DEF Total, Needed, Growths
<1>5. ~Satisfied(Total(p), Needed(p))
  BY DEF NeedMore
<1>6. Total(p) < Size
  BY <1>4, <1>5, PoolAssumption DEF Satisfied
<1>7. QED
  BY <1>6 DEF Total

(* No step takes a pool's logins above the site's limit. *)
LEMMA LoginsStep ==
    TypeOK /\ TypeOK' /\ LoginIsPending /\ ActiveIsRunning /\ LoginsWithinSize /\ Next
        => LoginsWithinSize'
<1> SUFFICES ASSUME TypeOK, TypeOK', LoginIsPending, ActiveIsRunning, LoginsWithinSize, Next,
                    Size # 0, NEW p \in Pools
             PROVE  workers'[p] + Cardinality(active'[p]) + Connecting(p)' <= Size
  BY DEF LoginsWithinSize, Connecting
<1> DEFINE w == workers[p]
           a == Cardinality(active[p])
           c == Connecting(p)
<1>types. /\ active[p] \subseteq Legs /\ w \in Nat /\ c \in Nat
          /\ active'[p] \subseteq Legs /\ workers'[p] \in Nat /\ Connecting(p)' \in Nat
  BY DEF TypeOK, Growths, Connecting
<1>finite. IsFiniteSet(active[p]) /\ a \in Nat
  BY <1>types, LegsFinite, FS_Subset, FS_CardinalityType
<1>within. w + a + c <= Size /\ Size \in Nat
  BY PoolAssumption DEF LoginsWithinSize, Connecting
<1>1. LoginShape(p)
  BY LoginSteps
<1> HIDE DEF w, a, c
<1>2. CASE LoginsKept(p)
  BY <1>2, <1>types, <1>finite, <1>within DEF LoginsKept, w, a, c
<1>3. CASE LoginStarted(p)
  <2>1. w + a + c < Size
    BY <1>3, RoomForLogin DEF LoginStarted, w, a, c, Connecting
  <2>2. QED
    BY <1>3, <2>1, <1>types, <1>finite, <1>within DEF LoginStarted, w, a, c
<1>4. CASE LoginTaken(p)
  <2>1. PICK l \in Legs : active'[p] = active[p] \cup {l}
    BY <1>4 DEF LoginTaken
  <2>2. Cardinality(active'[p]) \in {a, a + 1}
    BY <2>1, <1>finite, FS_AddElement DEF a
  <2>3. QED
    BY <1>4, <2>2, <1>types, <1>finite, <1>within DEF LoginTaken, w, c
<1>5. CASE LoginBack(p)
  <2>1. PICK l \in active[p] : active'[p] = active[p] \ {l}
    BY <1>5 DEF LoginBack
  <2>2. Cardinality(active'[p]) = a - 1
    BY <2>1, <1>finite, FS_RemoveElement DEF a
  <2>3. QED
    BY <1>5, <2>2, <1>types, <1>finite, <1>within DEF LoginBack, w, c
<1>6. QED
  BY <1>1, <1>2, <1>3, <1>4, <1>5 DEF LoginShape

(* transfer_pool.rs grow_workers: "Pending logins reserve capacity before   *)
(* any network work begins".  Idle, busy and pending logins of a pool never *)
(* exceed the site's limit, for any size and any number of pools, transfers *)
(* and relays.                                                              *)
THEOREM LoginsStayWithinSize == Spec => []LoginsWithinSize
<1>1. Init => LoginsWithinSize
  <2>1. Init => \A p \in Pools : workers[p] = 0 /\ active[p] = {} /\ growth[p].connecting = 0
    BY DEF Init, FreshGrowth
  <2>2. Cardinality({}) = 0 /\ Size \in Nat
    BY FS_EmptySet, PoolAssumption
  <2>3. 0 + 0 + 0 <= Size
    BY <2>2
  <2>4. QED
    BY <2>1, <2>2, <2>3 DEF LoginsWithinSize
<1>2. UNCHANGED vars /\ LoginsWithinSize => LoginsWithinSize'
  BY DEF vars, stateVars, growVars, LoginsWithinSize
<1>3. QED
  BY <1>1, <1>2, LoginsStep, TypeInvariant, ActiveIsRunningInvariant, PTL DEF Spec
-----------------------------------------------------------------------------
(* What ClosedHoldsNothing says, part by part, and what it rests on: the    *)
(* destroy has taken every running transfer before it tells them, and a     *)
(* free gate leaves no login pending.                                       *)
ClosedIsEmpty == \A p \in Pools : destroyed(p) => queue[p] = <<>> /\ workers[p] = 0
ClosedIsTold ==
    \A p \in Pools :
        /\ closing[p] = "taken" => active[p] \subseteq doomed[p]
        /\ closing[p] \in {"destroyed", "idle"} => \A l \in active[p] : token[l]
IdleIsOver == \A p \in Pools : closing[p] = "idle" => active[p] = {} /\ Connecting(p) = 0
GateIsHeld == \A p \in Pools : growingGate[p] = <<>> => Connecting(p) = 0

(* Only the pool's own close moves its closing on. *)
LEMMA ClosingSteps ==
    ASSUME TypeOK, Next, NEW p \in Pools
    PROVE  \/ closing'[p] = closing[p] /\ doomed'[p] = doomed[p]
           \/ CloseStarts(p) \/ Close(p)
<1> USE DEF closeVars
<1>types. closing \in [Pools -> {"open", "closing", "taken", "destroyed", "idle"}]
          /\ doomed \in [Pools -> SUBSET Legs]
  BY DEF TypeOK
<1>1. ASSUME NEW q \in Pools, CloseStarts(q) \/ Close(q), q # p
      PROVE  closing'[p] = closing[p] /\ doomed'[p] = doomed[p]
  BY <1>1, <1>types DEF CloseStarts, Close, CancelAll, DestroyTakes, DestroyTells,
     WaitedUntilIdle
<1>2. ASSUME NEW q \in Pools,
             Drain(q) \/ Grow(q) \/ Login(q) \/ RetryDelayPasses(q) \/ Release(q)
      PROVE  UNCHANGED <<closing, doomed>>
  BY <1>2 DEF Drain, Grow, GrowLogin, GrowEnough, GrowCancelled, GrowNudged, GrowDrained,
     GrowLeaves, Login, LoginOk, LoginTurnedAway, LoginFails, RetryDelayPasses, Release
<1>3. ASSUME NEW t \in Tasks, Submit(t) \/ Call(t) PROVE UNCHANGED <<closing, doomed>>
  BY <1>3 DEF Submit, Call, CallerDrained, CallerEnsures, CallerChecks, CallerSeesLimit
<1>4. ASSUME NEW l \in Legs,
             RunnerAcquires(l) \/ RunnerEnds(l) \/ RunnerStops(l) \/ Unwind(l) \/ Cancel(l)
      PROVE  UNCHANGED <<closing, doomed>>
  BY <1>4 DEF RunnerAcquires, RunnerEnds, RunnerStops, Settle, Unwind, RunnerAnswers,
     RunnerDrained, Cancel
<1>5. ASSUME NEW r \in Relays, RelayAsks(r) \/ Pair(r) PROVE UNCHANGED <<closing, doomed>>
  BY <1>5 DEF RelayAsks, Pair, RelayGlances, RelayGrowsSource, RelayGrowsTarget,
     RelayAdmits, RelayDrained, RelayJoins
<1>6. SetLimit => UNCHANGED <<closing, doomed>>
  BY DEF SetLimit
<1>7. QED
  BY <1>1, <1>2, <1>3, <1>4, <1>5, <1>6 DEF Next

(* Nothing takes a token's cancellation back. *)
LEMMA TokensStay ==
    ASSUME TypeOK, Next, NEW l \in Legs, token[l]
    PROVE  token'[l]
<1> USE DEF runVars
<1>types. token \in [Legs -> BOOLEAN]
  BY DEF TypeOK
<1>1. ASSUME NEW p \in Pools,
             Drain(p) \/ Grow(p) \/ Login(p) \/ RetryDelayPasses(p) \/ Release(p)
                \/ CloseStarts(p)
      PROVE  UNCHANGED token
  BY <1>1 DEF Drain, Grow, GrowLogin, GrowEnough, GrowCancelled, GrowNudged, GrowDrained,
     GrowLeaves, Login, LoginOk, LoginTurnedAway, LoginFails, RetryDelayPasses, Release,
     CloseStarts
<1>2. ASSUME NEW p \in Pools, Close(p) PROVE token'[l]
  <2>1. CASE CancelAll(p) \/ DestroyTells(p)
    BY <2>1 DEF CancelAll, DestroyTells
  <2>2. CASE DestroyTakes(p) \/ WaitedUntilIdle(p)
    BY <2>2 DEF DestroyTakes, WaitedUntilIdle
  <2>3. QED
    BY <1>2, <2>1, <2>2 DEF Close
<1>3. ASSUME NEW t \in Tasks, Submit(t) \/ Call(t) PROVE UNCHANGED token
  BY <1>3 DEF Submit, Call, CallerDrained, CallerEnsures, CallerChecks, CallerSeesLimit
<1>4. ASSUME NEW k \in Legs, RunnerAcquires(k) \/ RunnerEnds(k) \/ RunnerStops(k) \/ Unwind(k)
      PROVE  UNCHANGED token
  BY <1>4 DEF RunnerAcquires, RunnerEnds, RunnerStops, Settle, Unwind, RunnerAnswers,
     RunnerDrained
<1>5. ASSUME NEW k \in Legs, Cancel(k) PROVE token'[l]
  <2>1. token' = token \/ token' = [token EXCEPT ![k] = TRUE]
    BY <1>5 DEF Cancel
  <2>2. QED
    BY <2>1, <1>types
<1>6. ASSUME NEW r \in Relays, RelayAsks(r) \/ Pair(r) PROVE UNCHANGED token
  BY <1>6 DEF RelayAsks, Pair, RelayGlances, RelayGrowsSource, RelayGrowsTarget,
     RelayAdmits, RelayDrained, RelayJoins
<1>7. SetLimit => UNCHANGED token
  BY DEF SetLimit
<1>8. QED
  BY <1>1, <1>2, <1>3, <1>4, <1>5, <1>6, <1>7 DEF Next

(* Only grow_workers starts a login, and it leaves the gate with none.      *)
LEMMA GateSteps ==
    ASSUME TypeOK, LoginIsPending, Next, NEW p \in Pools
    PROVE  \/ GrowLogin(p)
           \/ /\ Connecting(p)' <= Connecting(p)
              /\ growingGate'[p] = <<>> => growingGate[p] = <<>> \/ Connecting(p)' = 0
<1> USE DEF growVars
<1> DEFINE Fewer ==
              /\ Connecting(p)' <= Connecting(p)
              /\ growingGate'[p] = <<>> => growingGate[p] = <<>> \/ Connecting(p)' = 0
<1>types. growth \in [Pools -> Growths] /\ growingGate \in [Pools -> Seq(Growers)]
  BY DEF TypeOK
<1>pending. \A q \in Pools : Connecting(q) \in Nat
  BY <1>types DEF Growths, Connecting
<1>gates. /\ \A t \in Tasks : CallGrower(t) \in Growers /\ PoolOf[t] \in Pools
          /\ \A l \in Legs : ReplaceGrower(l) \in Growers /\ PoolOf[l] \in Pools
          /\ \A r \in Relays : RelayGrower(r) \in Growers
  BY LegTypes, GrowerTypes
<1>pools. \A r \in Relays : SrcPool(r) \in Pools /\ DstPool(r) \in Pools
  BY LegTypes
<1>kept. ASSUME UNCHANGED <<growth, growingGate>> PROVE Fewer
  BY <1>kept, <1>pending DEF Connecting
<1>asked. ASSUME NEW q \in Pools, NEW g \in Growers, EnsureWorkers(q, g) PROVE Fewer
  <2>1. growth' = growth /\ growingGate' = [growingGate EXCEPT ![q] = Append(@, g)]
    BY <1>asked DEF EnsureWorkers
  <2>2. growingGate[q] \in Seq(Growers) /\ Append(growingGate[q], g) # <<>>
    BY <1>types
  <2>3. QED
    BY <2>1, <2>2, <1>pending, <1>types DEF Connecting
<1> HIDE DEF Fewer
<1>1. ASSUME NEW q \in Pools, Grow(q), q # p PROVE Fewer
  <2>1. growth'[p] = growth[p] /\ growingGate'[p] = growingGate[p]
    BY <1>1, <1>types DEF Grow, GrowLogin, GrowEnough, GrowCancelled, GrowNudged,
       GrowDrained, GrowLeaves
  <2>2. QED
    BY <2>1, <1>pending DEF Fewer, Connecting
<1>2. ASSUME GrowEnough(p) \/ GrowNudged(p) \/ GrowDrained(p) PROVE Fewer
  <2>1. growingGate' = growingGate /\ Connecting(p)' = Connecting(p)
    BY <1>2, <1>types DEF GrowEnough, GrowNudged, GrowDrained, Connecting, Growths
  <2>2. QED
    BY <2>1, <1>pending DEF Fewer
<1>3. ASSUME GrowCancelled(p) \/ GrowLeaves(p) PROVE Fewer
  <2>1. Connecting(p)' = 0
    <3>1. CASE GrowCancelled(p)
      BY <3>1, <1>types DEF GrowCancelled, Connecting, Growths
    <3>2. CASE GrowLeaves(p)
      BY <3>2, <1>types DEF GrowLeaves, Connecting, FreshGrowth
    <3>3. QED
      BY <1>3, <3>1, <3>2
  <2>2. QED
    BY <2>1, <1>pending DEF Fewer
<1>4. ASSUME NEW q \in Pools, Login(q) PROVE Fewer
  <2>1. growingGate' = growingGate /\ Growing(q, "select")
    BY <1>4 DEF Login, LoginOk, LoginTurnedAway, LoginFails
  <2>2. Connecting(q) > 0
    BY <2>1 DEF Growing, LoginIsPending, Connecting
  <2>3. Connecting(p)' \in {0, Connecting(p), Connecting(p) - 1}
    <3>1. CASE q = p
      BY <3>1, <1>4, <1>types DEF Login, LoginOk, LoginTurnedAway, LoginFails, Connecting,
         Growths
    <3>2. CASE q # p
      BY <3>2, <1>4, <1>types DEF Login, LoginOk, LoginTurnedAway, LoginFails, Connecting
    <3>3. QED
      BY <3>1, <3>2
  <2>4. QED
    BY <2>1, <2>3, <1>pending DEF Fewer
<1>5. ASSUME NEW t \in Tasks, Submit(t) \/ Call(t) PROVE Fewer
  <2>1. CASE CallerEnsures(t)
    BY <2>1, <1>asked, <1>gates DEF CallerEnsures
  <2>2. CASE Submit(t) \/ CallerDrained(t) \/ CallerChecks(t) \/ CallerSeesLimit(t)
    BY <2>2, <1>kept DEF Submit, CallerDrained, CallerChecks, CallerSeesLimit
  <2>3. QED
    BY <1>5, <2>1, <2>2 DEF Call
<1>6. ASSUME NEW l \in Legs,
             RunnerAcquires(l) \/ RunnerEnds(l) \/ RunnerStops(l) \/ Unwind(l) \/ Cancel(l)
      PROVE  Fewer
  <2>1. CASE RunnerAnswers(l)
    <3>1. UNCHANGED growVars \/ EnsureWorkers(PoolOf[l], ReplaceGrower(l))
      BY <2>1 DEF RunnerAnswers, AfterRunning
    <3>2. QED
      BY <3>1, <1>kept, <1>asked, <1>gates
  <2>2. CASE RunnerAcquires(l) \/ RunnerEnds(l) \/ RunnerStops(l) \/ RunnerDrained(l)
                \/ Cancel(l)
    BY <2>2, <1>kept DEF RunnerAcquires, RunnerEnds, RunnerStops, Settle, RunnerDrained,
       Cancel
  <2>3. QED
    BY <1>6, <2>1, <2>2 DEF Unwind
<1>7. ASSUME NEW r \in Relays, RelayAsks(r) \/ Pair(r) PROVE Fewer
  <2>1. CASE RelayGrowsSource(r)
    BY <2>1, <1>asked, <1>gates, <1>pools DEF RelayGrowsSource
  <2>2. CASE RelayGrowsTarget(r)
    BY <2>2, <1>asked, <1>gates, <1>pools DEF RelayGrowsTarget
  <2>3. CASE RelayAsks(r) \/ RelayGlances(r) \/ RelayAdmits(r) \/ RelayDrained(r)
                \/ RelayJoins(r)
    BY <2>3, <1>kept DEF RelayAsks, RelayGlances, RelayAdmits, RelayDrained, RelayJoins
  <2>4. QED
    BY <1>7, <2>1, <2>2, <2>3 DEF Pair
<1>8. ASSUME NEW q \in Pools,
             Drain(q) \/ RetryDelayPasses(q) \/ Release(q) \/ CloseStarts(q) \/ Close(q)
      PROVE  Fewer
  BY <1>8, <1>kept DEF Drain, RetryDelayPasses, Release, CloseStarts, Close, CancelAll,
     DestroyTakes, DestroyTells, WaitedUntilIdle
<1>9. SetLimit => Fewer
  BY <1>kept DEF SetLimit
<1>10. ASSUME NEW q \in Pools, Grow(q) PROVE GrowLogin(p) \/ Fewer
  BY <1>1, <1>2, <1>3, <1>10 DEF Grow
<1>11. GrowLogin(p) \/ Fewer
  BY <1>4, <1>5, <1>6, <1>7, <1>8, <1>9, <1>10 DEF Next
<1>12. QED
  BY <1>11 DEF Fewer

(* A destroyed pool neither queues nor employs anybody again. *)
LEMMA ClosedIsEmptyStep == TypeOK /\ ClosedIsEmpty /\ Next => ClosedIsEmpty'
<1> SUFFICES ASSUME TypeOK, ClosedIsEmpty, Next, NEW p \in Pools, destroyed(p)'
             PROVE  queue'[p] = <<>> /\ workers'[p] = 0
  BY DEF ClosedIsEmpty
<1>types. queue \in [Pools -> Seq(Legs)] /\ workers \in [Pools -> Nat]
          /\ closing \in [Pools -> {"open", "closing", "taken", "destroyed", "idle"}]
  BY DEF TypeOK
<1>1. CASE destroyed(p)
  <2>1. queue[p] = <<>> /\ workers[p] = 0
    BY <1>1 DEF ClosedIsEmpty
  <2>2. PoolStep(p)
    BY PoolSteps
  <2>3. Kept(p) \/ Emptied(p)
    BY <1>1, <2>1, <2>2 DEF PoolStep, Joined, Dispatched, CanDispatch, Entered, TakenOut,
       Paired
  <2>4. QED
    BY <2>1, <2>3 DEF Kept, Emptied
<1>2. CASE ~destroyed(p)
  <2>1. closing'[p] # closing[p]
    BY <1>2 DEF destroyed
  <2>2. CloseStarts(p) \/ Close(p)
    BY <2>1, ClosingSteps
  <2>3. ~CloseStarts(p)
    BY <1>types DEF CloseStarts, destroyed
  <2>4. CancelAll(p) \/ DestroyTakes(p)
    BY <1>2, <2>2, <2>3 DEF Close, DestroyTells, WaitedUntilIdle, destroyed
  <2>5. QED
    BY <2>4, <1>types DEF CancelAll, AnswerQueue, DestroyTakes
<1>3. QED
  BY <1>1, <1>2

(* A destroyed pool only loses active transfers. *)
LEMMA ClosedOnlySettles ==
    ASSUME TypeOK, ClosedIsEmpty, Next, NEW p \in Pools, destroyed(p)
    PROVE  active'[p] \subseteq active[p]
<1>types. active \in [Pools -> SUBSET Legs] /\ \A l \in Legs : PoolOf[l] \in Pools
  BY LegTypes DEF TypeOK
<1>1. CASE active' = active
  BY <1>1
<1>2. ASSUME NEW q \in Pools, Drain(q) PROVE active'[p] \subseteq active[p]
  <2>1. q # p
    BY <1>2 DEF ClosedIsEmpty, Drain, CanDispatch
  <2>2. QED
    BY <1>2, <2>1, <1>types DEF Drain, Dispatch
<1>3. ASSUME NEW l \in Legs, RunnerEnds(l) \/ RunnerStops(l)
      PROVE  active'[p] \subseteq active[p]
  BY <1>3, <1>types DEF RunnerEnds, RunnerStops, Settle
<1>4. QED
  BY <1>1, <1>2, <1>3, ActiveSteps

(* The transfers running at the destroy are told, and none joins them. *)
LEMMA ClosedIsToldStep ==
    TypeOK /\ ActiveIsRunning /\ ClosedIsEmpty /\ ClosedIsTold /\ Next => ClosedIsTold'
<1> SUFFICES ASSUME TypeOK, ActiveIsRunning, ClosedIsEmpty, ClosedIsTold, Next,
                    NEW p \in Pools
             PROVE  /\ closing'[p] = "taken" => active'[p] \subseteq doomed'[p]
                    /\ closing'[p] \in {"destroyed", "idle"} => \A l \in active'[p] : token'[l]
  BY DEF ClosedIsTold
<1>types. /\ active \in [Pools -> SUBSET Legs] /\ doomed \in [Pools -> SUBSET Legs]
          /\ closing \in [Pools -> {"open", "closing", "taken", "destroyed", "idle"}]
  BY DEF TypeOK
<1>told. /\ closing[p] = "taken" => active[p] \subseteq doomed[p]
         /\ closing[p] \in {"destroyed", "idle"} => \A l \in active[p] : token[l]
  BY DEF ClosedIsTold
<1>1. CASE closing'[p] = closing[p] /\ doomed'[p] = doomed[p]
  <2>1. CASE destroyed(p)
    <3>1. active'[p] \subseteq active[p]
      BY <2>1, ClosedOnlySettles
    <3>2. \A l \in active[p] : token[l] => token'[l]
      BY <1>types, TokensStay
    <3>3. QED
      BY <1>1, <1>told, <3>1, <3>2
  <2>2. CASE ~destroyed(p)
    BY <1>1, <2>2 DEF destroyed
  <2>3. QED
    BY <2>1, <2>2
<1>2. CASE CloseStarts(p)
  BY <1>2, <1>types DEF CloseStarts
<1>3. CASE CancelAll(p)
  BY <1>3, <1>types DEF CancelAll
<1>4. CASE DestroyTakes(p)
  BY <1>4, <1>types DEF DestroyTakes
<1>5. CASE DestroyTells(p)
  <2>1. closing'[p] = "destroyed" /\ active' = active /\ active[p] \subseteq doomed[p]
    BY <1>5, <1>told, <1>types DEF DestroyTells, stateVars
  <2>2. \A l \in active[p] : l \in Legs /\ runner[l] # "none"
    BY <1>types DEF ActiveIsRunning, ActiveRuns, Busy
  <2>3. \A l \in active[p] : token'[l]
    BY <1>5, <2>1, <2>2 DEF DestroyTells
  <2>4. QED
    BY <2>1, <2>3
<1>6. CASE WaitedUntilIdle(p)
  <2>1. active[p] = {} /\ active' = active /\ closing'[p] = "idle"
    BY <1>6, <1>types DEF WaitedUntilIdle, stateVars
  <2>2. QED
    BY <2>1
<1>7. QED
  BY <1>1, <1>2, <1>3, <1>4, <1>5, <1>6, ClosingSteps DEF Close

(* Once wait_until_idle returned, nothing starts again. *)
LEMMA IdleIsOverStep ==
    /\ TypeOK /\ TypeOK' /\ LoginIsPending /\ ClosedIsEmpty /\ GateIsHeld /\ IdleIsOver
    /\ Next
    => GateIsHeld' /\ IdleIsOver'
<1> SUFFICES ASSUME TypeOK, TypeOK', LoginIsPending, ClosedIsEmpty, GateIsHeld, IdleIsOver,
                    Next, NEW p \in Pools
             PROVE  /\ growingGate'[p] = <<>> => Connecting(p)' = 0
                    /\ closing'[p] = "idle" => active'[p] = {} /\ Connecting(p)' = 0
  BY DEF GateIsHeld, IdleIsOver
<1>types. Connecting(p) \in Nat /\ Connecting(p)' \in Nat
  BY DEF TypeOK, Connecting, Growths
<1>closing. closing \in [Pools -> {"open", "closing", "taken", "destroyed", "idle"}]
  BY DEF TypeOK
<1>held. growingGate[p] = <<>> => Connecting(p) = 0
  BY DEF GateIsHeld
<1>over. closing[p] = "idle" => active[p] = {} /\ Connecting(p) = 0
  BY DEF IdleIsOver
<1>1. growingGate'[p] = <<>> => Connecting(p)' = 0
  <2>1. CASE GrowLogin(p)
    BY <2>1 DEF GrowLogin, Growing
  <2>2. CASE /\ Connecting(p)' <= Connecting(p)
             /\ growingGate'[p] = <<>> => growingGate[p] = <<>> \/ Connecting(p)' = 0
    BY <2>2, <1>held, <1>types
  <2>3. QED
    BY <2>1, <2>2, GateSteps
<1>2. ASSUME closing'[p] = "idle", closing[p] = "idle"
      PROVE  active'[p] = {} /\ Connecting(p)' = 0
  <2>1. destroyed(p)
    BY <1>2 DEF destroyed
  <2>2. active'[p] = {}
    BY <1>2, <1>over, <2>1, ClosedOnlySettles
  <2>3. ~GrowLogin(p)
    BY <2>1 DEF GrowLogin, NeedMore
  <2>4. Connecting(p)' <= Connecting(p)
    BY <2>3, GateSteps
  <2>5. QED
    BY <1>2, <1>over, <1>types, <2>2, <2>4
<1>3. ASSUME closing'[p] = "idle", closing[p] # "idle"
      PROVE  active'[p] = {} /\ Connecting(p)' = 0
  <2>1. CloseStarts(p) \/ Close(p)
    BY <1>3, ClosingSteps
  <2>2. WaitedUntilIdle(p)
    BY <1>3, <2>1, <1>closing DEF CloseStarts, Close, CancelAll, DestroyTakes, DestroyTells
  <2>3. active[p] = {} /\ growingGate[p] = <<>> /\ active' = active /\ growth' = growth
    BY <2>2 DEF WaitedUntilIdle, stateVars, growVars
  <2>4. QED
    BY <2>3, <1>held DEF Connecting
<1>4. QED
  BY <1>1, <1>2, <1>3

(* The parts of ClosedHoldsNothing, inductive together. *)
LEMMA ClosedInvariant ==
    Spec => [](ClosedIsEmpty /\ ClosedIsTold /\ GateIsHeld /\ IdleIsOver)
<1>1. Init => ClosedIsEmpty /\ ClosedIsTold /\ GateIsHeld /\ IdleIsOver
  BY DEF Init, ClosedIsEmpty, ClosedIsTold, GateIsHeld, IdleIsOver, destroyed, Connecting,
     FreshGrowth
<1>2. /\ UNCHANGED vars /\ ClosedIsEmpty /\ ClosedIsTold /\ GateIsHeld /\ IdleIsOver
      => ClosedIsEmpty' /\ ClosedIsTold' /\ GateIsHeld' /\ IdleIsOver'
  BY DEF vars, stateVars, closeVars, growVars, runVars, ClosedIsEmpty, ClosedIsTold,
     GateIsHeld, IdleIsOver, destroyed, Connecting
<1>3. QED
  BY <1>1, <1>2, ClosedIsEmptyStep, ClosedIsToldStep, IdleIsOverStep, TypeInvariant,
     ActiveIsRunningInvariant, PTL DEF Spec

(* transfer_pool.rs cancel_all, destroy and wait_until_idle: a closed pool  *)
(* keeps no worker and no queue whatever arrives late, has told every       *)
(* transfer that still runs, and once it is idle has neither a transfer nor *)
(* a pending login.                                                         *)
THEOREM ClosedPoolsHoldNothing == Spec => []ClosedHoldsNothing
<1>1. ClosedIsEmpty /\ ClosedIsTold /\ IdleIsOver => ClosedHoldsNothing
  BY DEF ClosedIsEmpty, ClosedIsTold, IdleIsOver, ClosedHoldsNothing, Connecting
<1>2. QED
  BY <1>1, ClosedInvariant, PTL
-----------------------------------------------------------------------------

(* The places again, without counting them: a transfer is queued, taken out *)
(* of a queue by the destroy, with a runner, or leaving one.                *)
IsQueued(l) == l \in Queued(PoolOf[l])
IsTaken(l) == runner[l] = "none" /\ l \in doomed[PoolOf[l]]
Open(l) == Accepted(l) /\ answer[l] = "none"

(* A transfer's life: it is not accepted yet, in one of the four places and *)
(* unanswered, or answered and in none.                                     *)
Unsent(l) == ~Accepted(l) /\ answer[l] = "none" /\ runner[l] = "none" /\ ~IsQueued(l) /\ ~IsTaken(l)
Waits(l) == Open(l) /\ IsQueued(l) /\ runner[l] = "none" /\ ~IsTaken(l)
Works(l) == Open(l) /\ ~IsQueued(l) /\ runner[l] \in Busy
Leaves(l) == Open(l) /\ ~IsQueued(l) /\ Leaving(l) /\ result[l] # "none"
Taken(l) == Open(l) /\ ~IsQueued(l) /\ IsTaken(l)
Over(l) ==
    /\ Accepted(l) /\ answer[l] # "none" /\ ~IsQueued(l) /\ ~IsTaken(l)
    /\ runner[l] \notin Busy /\ ~Leaving(l)
Lives(l) == Unsent(l) \/ Waits(l) \/ Works(l) \/ Leaves(l) \/ Taken(l) \/ Over(l)

(* The inductive invariant of the answers. *)
EveryLegLives == \A l \in Legs : Lives(l)
Apart(s) == \A i, j \in DOMAIN s : s[i] = s[j] => i = j
QueuesApart == \A p \in Pools : Apart(queue[p])
(* Only a destroy that has not told yet has taken transfers out, its own. *)
DoomedHere == \A p \in Pools : \A l \in doomed[p] : PoolOf[l] = p /\ closing[p] = "taken"

AnswerInv == EveryLegLives /\ QueuesApart /\ DoomedHere
(* Queues without repetition: what Append, Tail and RemoveAt make of them. *)
LEMMA ApartSequences ==
  ASSUME NEW s \in Seq(Legs), Apart(s)
  PROVE  /\ \A l \in Legs : l \notin ToSet(s) =>
               Apart(Append(s, l)) /\ ToSet(Append(s, l)) = ToSet(s) \cup {l}
         /\ s # <<>> =>
               Apart(Tail(s)) /\ ToSet(Tail(s)) = ToSet(s) \ {Head(s)} /\ Head(s) \in ToSet(s)
         /\ \A i \in DOMAIN s :
               Apart(RemoveAt(s, i)) /\ ToSet(RemoveAt(s, i)) = ToSet(s) \ {s[i]}
<1>1. DOMAIN s = 1 .. Len(s) /\ Len(s) \in Nat
  BY LenProperties
<1>2. ToSet(s) = {s[i] : i \in DOMAIN s}
  BY DEF ToSet
<1>3. ASSUME NEW l \in Legs, l \notin ToSet(s)
      PROVE  Apart(Append(s, l)) /\ ToSet(Append(s, l)) = ToSet(s) \cup {l}
  <2> DEFINE e == Append(s, l)
  <2>1. /\ e \in Seq(Legs) /\ Len(e) = Len(s) + 1
        /\ \A i \in 1 .. Len(s) : e[i] = s[i]
        /\ e[Len(s) + 1] = l
    BY <1>1, AppendProperties
  <2>2. DOMAIN e = 1 .. Len(s) + 1
    BY <2>1, LenProperties
  <2> HIDE DEF e
  <2>3. Apart(e)
    BY <1>1, <1>2, <1>3, <2>1, <2>2 DEF Apart
  <2>4. ToSet(e) = {e[i] : i \in DOMAIN e}
    BY DEF ToSet
  <2>5. ToSet(e) \subseteq ToSet(s) \cup {l}
    BY <1>1, <1>2, <2>1, <2>2, <2>4
  <2>6. ToSet(s) \cup {l} \subseteq ToSet(e)
    <3>1. \A i \in DOMAIN s : i \in DOMAIN e /\ e[i] = s[i]
      BY <1>1, <2>1, <2>2
    <3>2. Len(s) + 1 \in DOMAIN e
      BY <1>1, <2>2
    <3> QED
      BY <1>2, <2>1, <2>4, <3>1, <3>2
  <2> QED
    BY <2>3, <2>5, <2>6 DEF e
<1>4. ASSUME s # <<>>
      PROVE  Apart(Tail(s)) /\ ToSet(Tail(s)) = ToSet(s) \ {Head(s)} /\ Head(s) \in ToSet(s)
  <2> DEFINE e == Tail(s)
  <2>1. /\ e \in Seq(Legs) /\ Len(e) = Len(s) - 1 /\ Len(s) >= 1 /\ Head(s) = s[1]
        /\ \A i \in 1 .. Len(s) - 1 : e[i] = s[i + 1]
    BY <1>1, <1>4, HeadTailProperties, EmptySeq
  <2>2. DOMAIN e = 1 .. Len(s) - 1
    BY <2>1, LenProperties
  <2> HIDE DEF e
  <2>3. \A i \in DOMAIN e : i + 1 \in DOMAIN s /\ i + 1 # 1 /\ e[i] = s[i + 1] /\ i \in Nat
    BY <1>1, <2>1, <2>2
  <2>4. Apart(e)
    BY <2>3 DEF Apart
  <2>5. ToSet(e) = {e[i] : i \in DOMAIN e}
    BY DEF ToSet
  <2>6. 1 \in DOMAIN s
    BY <1>1, <2>1
  <2>7. ToSet(e) \subseteq ToSet(s) \ {Head(s)}
    BY <1>2, <2>1, <2>3, <2>5, <2>6 DEF Apart
  <2>8. ASSUME NEW x \in ToSet(s) \ {Head(s)} PROVE x \in ToSet(e)
    <3>1. PICK i \in DOMAIN s : x = s[i]
      BY <1>2, <2>8
    <3>2. i # 1
      BY <2>1, <2>8, <3>1
    <3>3. i - 1 \in DOMAIN e /\ e[i - 1] = s[i]
      BY <1>1, <2>1, <2>2, <3>2
    <3> QED
      BY <2>5, <3>1, <3>3
  <2> QED
    BY <1>2, <2>1, <2>4, <2>6, <2>7, <2>8 DEF e
<1>5. ASSUME NEW k \in DOMAIN s
      PROVE  Apart(RemoveAt(s, k)) /\ ToSet(RemoveAt(s, k)) = ToSet(s) \ {s[k]}
  <2> DEFINE e == RemoveAt(s, k)
  <2>1. /\ e \in Seq(Legs) /\ Len(e) = Len(s) - 1
        /\ \A i \in 1 .. Len(s) - 1 : e[i] = IF i < k THEN s[i] ELSE s[i + 1]
    BY <1>1, RemoveAtProperties
  <2>2. DOMAIN e = 1 .. Len(s) - 1
    BY <2>1, LenProperties
  <2> HIDE DEF e
  <2> DEFINE at(i) == IF i < k THEN i ELSE i + 1
  <2>3. \A i \in DOMAIN e : at(i) \in DOMAIN s /\ at(i) # k /\ e[i] = s[at(i)]
    BY <1>1, <2>1, <2>2
  <2>4. \A i, j \in DOMAIN e : at(i) = at(j) => i = j
    BY <1>1, <2>2
  <2> HIDE DEF at
  <2>5. Apart(e)
    BY <2>3, <2>4 DEF Apart
  <2>6. ToSet(e) = {e[i] : i \in DOMAIN e}
    BY DEF ToSet
  <2>7. ToSet(e) \subseteq ToSet(s) \ {s[k]}
    BY <1>2, <2>3, <2>6 DEF Apart
  <2>8. ASSUME NEW x \in ToSet(s) \ {s[k]} PROVE x \in ToSet(e)
    <3>1. PICK i \in DOMAIN s : x = s[i]
      BY <1>2, <2>8
    <3>2. i # k
      BY <2>8, <3>1
    <3>3. CASE i < k
      <4>1. i \in DOMAIN e /\ e[i] = s[i]
        BY <1>1, <2>1, <2>2, <3>3
      <4> QED
        BY <2>6, <3>1, <4>1
    <3>4. CASE i > k
      <4>1. i - 1 \in DOMAIN e /\ e[i - 1] = s[i]
        BY <1>1, <2>1, <2>2, <3>4
      <4> QED
        BY <2>6, <3>1, <4>1
    <3> QED
      BY <1>1, <3>2, <3>3, <3>4
  <2> QED
    BY <2>5, <2>7, <2>8 DEF e
<1> QED
  BY <1>3, <1>4, <1>5

(* A relay's legs are its own. *)
LEMMA OwnLegs ==
  ASSUME NEW r \in Relays
  PROVE  /\ RelayOf(SrcLeg[r]) = r /\ RelayOf(DstLeg[r]) = r
         /\ SrcLeg[r] # DstLeg[r]
         /\ SrcLeg[r] \in RelayLegs /\ DstLeg[r] \in RelayLegs
         /\ SrcLeg[r] \notin Tasks /\ DstLeg[r] \notin Tasks
         /\ \A l \in RelayLegs : RelayOf(l) = r => l \in {SrcLeg[r], DstLeg[r]}
<1>1. /\ \A q \in Relays : SrcLeg[r] # DstLeg[q] /\ SrcLeg[q] # DstLeg[r]
      /\ \A q \in Relays : q # r => SrcLeg[r] # SrcLeg[q] /\ DstLeg[r] # DstLeg[q]
  BY PoolAssumption
<1>2. SrcLeg[r] \in RelayLegs /\ DstLeg[r] \in RelayLegs
  BY DEF RelayLegs
<1>3. SrcLeg[r] \notin Tasks /\ DstLeg[r] \notin Tasks
  BY <1>2, PoolAssumption
<1>4. RelayOf(SrcLeg[r]) = r
  BY <1>1 DEF RelayOf
<1>5. RelayOf(DstLeg[r]) = r
  BY <1>1 DEF RelayOf
<1>6. ASSUME NEW l \in RelayLegs, RelayOf(l) = r PROVE l \in {SrcLeg[r], DstLeg[r]}
  <2>1. \E q \in Relays : l \in {SrcLeg[q], DstLeg[q]}
    BY DEF RelayLegs
  <2> QED
    BY <1>6, <2>1 DEF RelayOf
<1> QED
  BY <1>1, <1>2, <1>3, <1>4, <1>5, <1>6

(* A step that leaves a leg's place, its answer and its acceptance alone.  *)
SameClass(from, to) ==
    \/ from = to
    \/ from \in Busy /\ to \in Busy
    \/ from \in {"drain", "replacing"} /\ to = "gone"
KeptLeg(l) ==
    /\ IsQueued(l)' <=> IsQueued(l)
    /\ SameClass(runner[l], runner'[l])
    /\ (l \in doomed[PoolOf[l]])' <=> l \in doomed[PoolOf[l]]
    /\ answer'[l] = answer[l] /\ result'[l] = result[l]
    /\ Accepted(l)' <=> Accepted(l)

(* Its life goes on as it was. *)
LEMMA KeptLives ==
  ASSUME NEW l \in Legs, Lives(l), KeptLeg(l)
  PROVE  Lives(l)'
<1>1. /\ runner'[l] = "none" <=> runner[l] = "none"
      /\ runner'[l] \in Busy <=> runner[l] \in Busy
      /\ runner'[l] \in {"leftClosed", "leftLive", "leftLost"}
            <=> runner[l] \in {"leftClosed", "leftLive", "leftLost"}
  BY DEF KeptLeg, SameClass, Busy
<1>2. (Leaving(l)' <=> Leaving(l)) /\ (IsTaken(l)' <=> IsTaken(l)) /\ (Open(l)' <=> Open(l))
  BY <1>1 DEF KeptLeg, Leaving, IsTaken, Open
<1> QED
  BY <1>1, <1>2 DEF KeptLeg, Lives, Unsent, Waits, Works, Leaves, Taken, Over

(* A step that changes no queue, destroy, answer or result, and of runners,  *)
(* callers and relays only what says nothing of a leg's place.             *)
AnswerQuiet ==
    /\ UNCHANGED <<queue, doomed, answer, result>>
    /\ \A l \in Legs : SameClass(runner[l], runner'[l])
    /\ \A t \in Tasks : caller'[t] = "new" <=> caller[t] = "new"
    /\ \A r \in Relays : relay'[r] \in {"drainSrc", "drainDst", "join", "joined"}
                            <=> relay[r] \in {"drainSrc", "drainDst", "join", "joined"}
    /\ \A p \in Pools : closing[p] = "taken" => closing'[p] = "taken"

(* Whether a leg is accepted depends on its caller or its relay alone. *)
LEMMA AcceptedBy ==
  ASSUME NEW l \in Legs,
         \A t \in Tasks : caller'[t] = "new" <=> caller[t] = "new",
         \A r \in Relays : relay'[r] \in {"drainSrc", "drainDst", "join", "joined"}
                              <=> relay[r] \in {"drainSrc", "drainDst", "join", "joined"}
  PROVE  Accepted(l)' <=> Accepted(l)
<1>1. CASE l \in Tasks
  BY <1>1, PoolAssumption DEF Accepted
<1>2. CASE l \in RelayLegs
  <2>1. RelayOf(l) \in Relays
    BY <1>2, OwnLegs DEF RelayLegs
  <2> QED
    BY <1>2, <2>1, PoolAssumption DEF Accepted
<1> QED
  BY <1>1, <1>2 DEF Legs

(* Such a step keeps every leg's life. *)
LEMMA QuietKeepsAnswers ==
  ASSUME TypeOK, AnswerInv, AnswerQuiet
  PROVE  AnswerInv'
<1>1. ASSUME NEW l \in Legs PROVE Lives(l)'
  <2>1. Accepted(l)' <=> Accepted(l)
    BY AcceptedBy DEF AnswerQuiet
  <2>2. KeptLeg(l)
    BY <2>1 DEF AnswerQuiet, KeptLeg, IsQueued, Queued
  <2> QED
    BY <2>2, KeptLives DEF AnswerInv, EveryLegLives
<1>2. QueuesApart' /\ DoomedHere'
  BY DEF AnswerQuiet, AnswerInv, QueuesApart, DoomedHere
<1> QED
  BY <1>1, <1>2 DEF AnswerInv, EveryLegLives

(* The steps of a growth, a release and a close that are quiet. *)
LEMMA PoolIsQuiet ==
  ASSUME TypeOK, NEW p \in Pools,
         \/ GrowLogin(p) \/ GrowEnough(p) \/ GrowCancelled(p) \/ GrowNudged(p) \/ GrowDrained(p)
         \/ Login(p) \/ RetryDelayPasses(p) \/ Release(p) \/ CloseStarts(p) \/ WaitedUntilIdle(p)
  PROVE  AnswerQuiet
<1> USE DEF AnswerQuiet, SameClass, stateVars, closeVars, userVars, runVars
<1>1. CASE GrowLogin(p) \/ GrowEnough(p) \/ GrowCancelled(p) \/ GrowNudged(p) \/ GrowDrained(p)
  BY <1>1 DEF GrowLogin, GrowEnough, GrowCancelled, GrowNudged, GrowDrained
<1>2. CASE Login(p) \/ RetryDelayPasses(p) \/ Release(p)
  BY <1>2 DEF Login, LoginOk, LoginTurnedAway, LoginFails, RetryDelayPasses, Release
<1>3. CASE CloseStarts(p) \/ WaitedUntilIdle(p)
  BY <1>3 DEF CloseStarts, WaitedUntilIdle, TypeOK
<1> QED
  BY <1>1, <1>2, <1>3

(* The steps of a caller that are quiet. *)
LEMMA CallIsQuiet ==
  ASSUME TypeOK, NEW t \in Tasks, CallerDrained(t) \/ CallerEnsures(t) \/ CallerSeesLimit(t)
  PROVE  AnswerQuiet
<1>1. UNCHANGED <<queue, doomed, answer, result, runner, relay, closing>>
  BY DEF CallerDrained, CallerEnsures, CallerSeesLimit, stateVars, closeVars, runVars
<1>2. \E to \in CallerStates \ {"new"} :
         caller[t] # "new" /\ caller' = [caller EXCEPT ![t] = to]
  BY DEF CallerDrained, CallerEnsures, CallerSeesLimit, CallerGoes, CallerRegrown, CallerStates
<1>3. \A u \in Tasks : caller'[u] = "new" <=> caller[u] = "new"
  BY <1>2 DEF TypeOK
<1> QED
  BY <1>1, <1>3 DEF AnswerQuiet, SameClass

(* The steps of a relay outside its admission, and of a runner. *)
LEMMA RelayIsQuiet ==
  ASSUME TypeOK, NEW r \in Relays,
         \/ RelayAsks(r) \/ RelayGlances(r) \/ RelayGrowsSource(r) \/ RelayGrowsTarget(r)
         \/ RelayDrained(r) \/ RelayJoins(r)
  PROVE  AnswerQuiet
<1>1. UNCHANGED <<queue, doomed, answer, result, runner, caller, closing>>
  BY DEF RelayAsks, RelayGlances, RelayGrowsSource, RelayGrowsTarget, RelayDrained, RelayJoins,
         stateVars, closeVars, runVars
<1> DEFINE In == {"drainSrc", "drainDst", "join", "joined"}
<1>2. \E to \in RelayStates :
         relay' = [relay EXCEPT ![r] = to] /\ (to \in In <=> relay[r] \in In)
  <2>1. CASE RelayGlances(r)
    BY <2>1 DEF RelayGlances, RelayGoes, RelayStates, RelayEnds, LegErrors
  <2>2. CASE ~RelayGlances(r)
    BY <2>2 DEF RelayAsks, RelayGrowsSource, RelayGrowsTarget, RelayDrained, RelayJoins, RelayGoes,
                RelayStates, RelayEnds, LegErrors
  <2> QED
    BY <2>1, <2>2
<1>3. \A q \in Relays : relay'[q] \in In <=> relay[q] \in In
  BY <1>2 DEF TypeOK
<1> QED
  BY <1>1, <1>3 DEF AnswerQuiet, SameClass

(* So are a runner's start, the end of its drain, and a new limit. *)
LEMMA RunnerIsQuiet ==
  ASSUME TypeOK,
         (\E l \in Legs : RunnerAcquires(l) \/ RunnerDrained(l)) \/ SetLimit \/ UNCHANGED vars
  PROVE  AnswerQuiet
<1>1. ASSUME NEW l \in Legs, RunnerAcquires(l) \/ RunnerDrained(l) PROVE AnswerQuiet
  <2>1. UNCHANGED <<queue, doomed, answer, result, relay, caller, closing>>
    BY <1>1 DEF RunnerAcquires, RunnerDrained, stateVars, closeVars, userVars
  <2>2. \E to \in RunnerStates :
           runner' = [runner EXCEPT ![l] = to] /\ SameClass(runner[l], to)
    BY <1>1 DEF RunnerAcquires, RunnerDrained, RunnerGoes, RunnerReplaced, RunnerStates, SameClass,
                Busy
  <2>3. \A k \in Legs : SameClass(runner[k], runner'[k])
    BY <2>2 DEF TypeOK, SameClass
  <2> QED
    BY <2>1, <2>3 DEF AnswerQuiet
<1>2. CASE SetLimit \/ UNCHANGED vars
  BY <1>2 DEF SetLimit, vars, AnswerQuiet, SameClass, stateVars, closeVars, userVars, runVars
<1> QED
  BY <1>1, <1>2

(* What is left to show of a step: each leg keeps its life or gets another. *)
LEMMA LivesTogether ==
  ASSUME AnswerInv, \A l \in Legs : KeptLeg(l) \/ Lives(l)', QueuesApart', DoomedHere'
  PROVE  AnswerInv'
<1>1. \A l \in Legs : Lives(l)'
  BY KeptLives DEF AnswerInv, EveryLegLives
<1> QED
  BY <1>1 DEF AnswerInv, EveryLegLives

(* A queued leg waits in the queue of its own pool. *)
LEMMA QueuedWaits ==
  ASSUME TypeOK, QueuedHere, AnswerInv, NEW p \in Pools, NEW l \in Queued(p)
  PROVE  l \in Legs /\ PoolOf[l] = p /\ IsQueued(l) /\ Waits(l)
<1>1. PICK i \in DOMAIN queue[p] : l = queue[p][i]
  BY DEF Queued, ToSet
<1>2. l \in Legs
  <2>1. queue[p] \in Seq(Legs)
    BY DEF TypeOK
  <2> QED
    BY <1>1, <2>1, LenProperties, ElementOfSeq
<1>3. PoolOf[l] = p
  BY <1>1 DEF QueuedHere
<1>4. IsQueued(l)
  BY <1>3 DEF IsQueued
<1>5. Lives(l)
  BY <1>2 DEF AnswerInv, EveryLegLives
<1> QED
  BY <1>2, <1>3, <1>4, <1>5 DEF Lives, Unsent, Works, Leaves, Taken, Over

(* An answer leaves whoever has not called yet where he was. *)
LEMMA AnswerKeepsNew ==
  ASSUME TypeOK, NEW ls, NEW why, Answer(ls, why)
  PROVE  /\ \A t \in Tasks : caller'[t] = "new" <=> caller[t] = "new"
         /\ \A l \in Legs : answer'[l] = IF l \in ls THEN why ELSE answer[l]
  BY DEF Answer, SelectPoints

(* drain: the head goes from its queue to a runner. *)
LEMMA DrainAnswers ==
  ASSUME TypeOK, QueuedHere, AnswerInv, NEW p \in Pools, Drain(p)
  PROVE  AnswerInv'
<1>0. PICK l : l = Head(queue[p])
  OBVIOUS
<1>1. /\ queue[p] # <<>> /\ queue' = [queue EXCEPT ![p] = Tail(@)]
      /\ runner' = [runner EXCEPT ![l] = "starting"]
      /\ UNCHANGED <<doomed, answer, result, caller, relay, closing>>
  BY <1>0 DEF Drain, CanDispatch, Dispatch, closeVars, userVars
<1>2. queue \in [Pools -> Seq(Legs)] /\ runner \in [Legs -> RunnerStates] /\ Apart(queue[p])
  BY DEF TypeOK, AnswerInv, QueuesApart
<1>3. Apart(Tail(queue[p])) /\ ToSet(Tail(queue[p])) = Queued(p) \ {l} /\ l \in Queued(p)
  BY <1>0, <1>1, <1>2, ApartSequences DEF Queued
<1>4. l \in Legs /\ PoolOf[l] = p /\ Waits(l)
  BY <1>3, QueuedWaits
<1>5. \A k \in Legs : IsQueued(k)' <=> IsQueued(k) /\ k # l
  BY <1>1, <1>2, <1>3, <1>4, LegTypes DEF IsQueued, Queued
<1>6. \A k \in Legs : Accepted(k)' <=> Accepted(k)
  BY <1>1, AcceptedBy
<1>7. \A k \in Legs \ {l} : KeptLeg(k)
  BY <1>1, <1>2, <1>5, <1>6 DEF KeptLeg, SameClass
<1>8. Works(l)'
  BY <1>1, <1>2, <1>4, <1>5, <1>6 DEF Works, Waits, Open, Busy
<1>9. QueuesApart' /\ DoomedHere'
  BY <1>1, <1>2, <1>3 DEF QueuesApart, DoomedHere, AnswerInv
<1> QED
  BY <1>7, <1>8, <1>9, LivesTogether DEF Lives

(* A whole queue is answered: by the last error of a growth, or at a close. *)
LEMMA AnsweredQueue ==
  ASSUME TypeOK, QueuedHere, AnswerInv, NEW p \in Pools, NEW why \in Answers \ {"none"},
         AnswerQueue(p, why), UNCHANGED <<doomed, result, runner, relay>>,
         \A q \in Pools : closing[q] = "taken" => closing'[q] = "taken"
  PROVE  AnswerInv'
<1>1. queue' = [queue EXCEPT ![p] = <<>>] /\ Answer(Queued(p), why)
  BY DEF AnswerQueue
<1>2. queue \in [Pools -> Seq(Legs)]
  BY DEF TypeOK
<1>3. \A l \in Queued(p) : l \in Legs /\ PoolOf[l] = p /\ IsQueued(l) /\ Waits(l)
  BY QueuedWaits
<1>4. /\ \A t \in Tasks : caller'[t] = "new" <=> caller[t] = "new"
      /\ \A l \in Legs : answer'[l] = IF l \in Queued(p) THEN why ELSE answer[l]
  BY <1>1, AnswerKeepsNew
<1>5. \A k \in Legs : Accepted(k)' <=> Accepted(k)
  BY <1>4, AcceptedBy
<1>6. \A k \in Legs : IsQueued(k)' <=> IsQueued(k) /\ k \notin Queued(p)
  <2>1. ToSet(<<>>) = {}
    BY DEF ToSet
  <2> QED
    BY <1>1, <1>2, <1>3, <2>1, LegTypes DEF IsQueued, Queued
<1>7. \A k \in Legs \ Queued(p) : KeptLeg(k)
  BY <1>4, <1>5, <1>6 DEF KeptLeg, SameClass
<1>8. \A k \in Queued(p) : Over(k)'
  BY <1>3, <1>4, <1>5, <1>6 DEF Over, Waits, Open, IsTaken, Leaving, Busy
<1>9. QueuesApart' /\ DoomedHere'
  BY <1>1, <1>2 DEF QueuesApart, DoomedHere, AnswerInv, Apart
<1> QED
  BY <1>7, <1>8, <1>9, LivesTogether DEF Lives

(* Both callers of it, or a growth that has nobody to answer. *)
LEMMA GrowLeavesAnswers ==
  ASSUME TypeOK, QueuedHere, AnswerInv, NEW p \in Pools, GrowLeaves(p) \/ CancelAll(p)
  PROVE  AnswerInv'
<1>1. UNCHANGED <<doomed, result, runner, relay>>
  BY DEF GrowLeaves, CancelAll, closeVars, runVars
<1>2. \A q \in Pools : closing[q] = "taken" => closing'[q] = "taken"
  BY DEF GrowLeaves, CancelAll, closeVars, TypeOK
<1>3. CASE AnswerQueue(p, "refused") \/ AnswerQueue(p, "cancelled")
  BY <1>1, <1>2, <1>3, AnsweredQueue DEF Answers
<1>4. CASE UNCHANGED <<queue, answer, caller, seen>>
  <2>1. AnswerQuiet
    BY <1>1, <1>2, <1>4 DEF AnswerQuiet, SameClass
  <2> QED
    BY <2>1, QuietKeepsAnswers
<1> QED
  BY <1>3, <1>4 DEF GrowLeaves, CancelAll

(* destroy takes the queue and the running ones out of the state ... *)
LEMMA DestroyTakesAnswers ==
  ASSUME TypeOK, QueuedHere, ActiveRuns, AnswerInv, NEW p \in Pools, DestroyTakes(p)
  PROVE  AnswerInv'
<1>1. /\ closing[p] = "closing" /\ closing' = [closing EXCEPT ![p] = "taken"]
      /\ doomed' = [doomed EXCEPT ![p] = Queued(p) \cup active[p]]
      /\ queue' = [queue EXCEPT ![p] = <<>>]
      /\ UNCHANGED <<answer, result, caller, relay, runner>>
  BY DEF DestroyTakes, userVars, runVars
<1>2. /\ queue \in [Pools -> Seq(Legs)] /\ active \in [Pools -> SUBSET Legs]
      /\ doomed \in [Pools -> SUBSET Legs]
      /\ closing \in [Pools -> {"open", "closing", "taken", "destroyed", "idle"}]
  BY DEF TypeOK
<1>3. \A l \in Queued(p) : l \in Legs /\ PoolOf[l] = p /\ IsQueued(l) /\ Waits(l)
  BY QueuedWaits
<1>4. \A l \in active[p] : PoolOf[l] = p /\ runner[l] \in Busy
  BY DEF ActiveRuns
<1>5. \A k \in Legs : Accepted(k)' <=> Accepted(k)
  BY <1>1, AcceptedBy
<1>6. \A k \in Legs : IsQueued(k)' <=> IsQueued(k) /\ k \notin Queued(p)
  <2>1. ToSet(<<>>) = {}
    BY DEF ToSet
  <2> QED
    BY <1>1, <1>2, <1>3, <2>1, LegTypes DEF IsQueued, Queued
<1>7. \A k \in Legs : IsTaken(k)' <=> IsTaken(k) \/ k \in Queued(p)
  <2>1. doomed[p] = {}
    BY <1>1, <1>2 DEF AnswerInv, DoomedHere
  <2>2. \A k \in Queued(p) : runner[k] = "none"
    BY <1>3 DEF Waits
  <2>3. \A k \in active[p] : runner[k] # "none"
    BY <1>4 DEF Busy
  <2> QED
    BY <1>1, <1>2, <1>3, <2>1, <2>2, <2>3, LegTypes DEF IsTaken
<1>8. \A k \in Legs \ Queued(p) : Lives(k)'
  <2> SUFFICES ASSUME NEW k \in Legs \ Queued(p) PROVE Lives(k)'
    OBVIOUS
  <2>1. Lives(k)
    BY DEF AnswerInv, EveryLegLives
  <2>2. (IsTaken(k)' <=> IsTaken(k)) /\ (IsQueued(k)' <=> IsQueued(k))
    BY <1>6, <1>7
  <2> QED
    BY <1>1, <1>5, <2>1, <2>2
       DEF Lives, Unsent, Waits, Works, Leaves, Taken, Over, Open, Leaving
<1>9. \A k \in Queued(p) : Taken(k)'
  BY <1>1, <1>3, <1>5, <1>6, <1>7 DEF Taken, Waits, Open
<1>10. QueuesApart' /\ DoomedHere'
  BY <1>1, <1>2, <1>3, <1>4 DEF QueuesApart, DoomedHere, AnswerInv, Apart
<1> QED
  BY <1>8, <1>9, <1>10, LivesTogether DEF Lives

(* ... and tells the ones that never ran. *)
LEMMA DestroyTellsAnswers ==
  ASSUME TypeOK, AnswerInv, NEW p \in Pools, DestroyTells(p)
  PROVE  AnswerInv'
<1>0. PICK ls : ls = {l \in doomed[p] : runner[l] = "none"}
  OBVIOUS
<1>1. /\ closing[p] = "taken" /\ closing' = [closing EXCEPT ![p] = "destroyed"]
      /\ doomed' = [doomed EXCEPT ![p] = {}]
      /\ Answer(ls, "cancelled")
      /\ UNCHANGED <<queue, result, relay, runner>>
  BY <1>0 DEF DestroyTells, stateVars
<1>2. /\ doomed \in [Pools -> SUBSET Legs]
      /\ closing \in [Pools -> {"open", "closing", "taken", "destroyed", "idle"}]
  BY DEF TypeOK
<1>3. \A l \in ls : l \in Legs /\ PoolOf[l] = p /\ IsTaken(l)
  BY <1>0, <1>1, <1>2 DEF AnswerInv, DoomedHere, IsTaken
<1>4. \A l \in ls : Taken(l)
  <2>1. \A l \in ls : Lives(l)
    BY <1>3 DEF AnswerInv, EveryLegLives
  <2> QED
    BY <1>3, <2>1 DEF Lives, Unsent, Waits, Works, Leaves, Over, IsTaken, Busy, Leaving
<1>5. /\ \A t \in Tasks : caller'[t] = "new" <=> caller[t] = "new"
      /\ \A l \in Legs : answer'[l] = IF l \in ls THEN "cancelled" ELSE answer[l]
  BY <1>1, AnswerKeepsNew
<1>6. \A k \in Legs : Accepted(k)' <=> Accepted(k)
  BY <1>1, <1>5, AcceptedBy
<1>7. \A k \in Legs : IsTaken(k)' <=> IsTaken(k) /\ k \notin ls
  BY <1>0, <1>1, <1>2, <1>3, LegTypes DEF IsTaken
<1>8. \A k \in Legs : (IsQueued(k)' <=> IsQueued(k)) /\ (Leaving(k)' <=> Leaving(k))
  BY <1>1 DEF IsQueued, Queued, Leaving
<1>9. \A k \in Legs \ ls : Lives(k)'
  <2> SUFFICES ASSUME NEW k \in Legs \ ls PROVE Lives(k)'
    OBVIOUS
  <2>1. Lives(k) /\ answer'[k] = answer[k] /\ (IsTaken(k)' <=> IsTaken(k))
    BY <1>5, <1>7 DEF AnswerInv, EveryLegLives
  <2> QED
    BY <1>1, <1>6, <1>8, <2>1 DEF Lives, Unsent, Waits, Works, Leaves, Taken, Over, Open
<1>10. \A k \in ls : Over(k)'
  BY <1>1, <1>3, <1>4, <1>5, <1>6, <1>7, <1>8 DEF Over, Taken, Open, IsTaken, Leaving, Busy
<1>11. QueuesApart' /\ DoomedHere'
  BY <1>1, <1>2 DEF QueuesApart, DoomedHere, AnswerInv
<1> QED
  BY <1>9, <1>10, <1>11, LivesTogether DEF Lives

(* One leg moves; no destroy does. *)
LEMMA OneLegMoves ==
  ASSUME TypeOK, AnswerInv, NEW l \in Legs, Lives(l)',
         UNCHANGED <<doomed, closing>>, QueuesApart',
         \A k \in Legs \ {l} : /\ answer'[k] = answer[k] /\ result'[k] = result[k]
                               /\ runner'[k] = runner[k]
                               /\ IsQueued(k)' <=> IsQueued(k)
                               /\ Accepted(k)' <=> Accepted(k)
  PROVE  AnswerInv'
<1>1. \A k \in Legs \ {l} : KeptLeg(k)
  BY DEF KeptLeg, SameClass
<1>2. DoomedHere'
  BY DEF AnswerInv, DoomedHere
<1> QED
  BY <1>1, <1>2, LivesTogether

(* A leg taken out of its queue. *)
LEMMA LegTakenOut ==
  ASSUME TypeOK, QueuedHere, AnswerInv, NEW l \in Legs, NEW i \in DOMAIN queue[PoolOf[l]],
         queue[PoolOf[l]][i] = l,
         queue' = [queue EXCEPT ![PoolOf[l]] = RemoveAt(@, i)]
  PROVE  Waits(l) /\ QueuesApart' /\ \A k \in Legs : IsQueued(k)' <=> IsQueued(k) /\ k # l
<1>1. PICK p \in Pools : p = PoolOf[l]
  BY LegTypes
<1>2. queue \in [Pools -> Seq(Legs)] /\ Apart(queue[p])
  BY DEF TypeOK, AnswerInv, QueuesApart
<1>3. Apart(RemoveAt(queue[p], i)) /\ ToSet(RemoveAt(queue[p], i)) = Queued(p) \ {l}
  BY <1>1, <1>2, ApartSequences DEF Queued
<1>4. l \in Queued(p)
  BY <1>1 DEF Queued, ToSet
<1>5. Waits(l)
  BY <1>4, QueuedWaits
<1>6. \A q \in Pools : queue'[q] = IF q = p THEN RemoveAt(queue[p], i) ELSE queue[q]
  BY <1>1, <1>2
<1>7. \A k \in Legs : IsQueued(k)' <=> IsQueued(k) /\ k # l
  BY <1>1, <1>3, <1>4, <1>6, LegTypes DEF IsQueued, Queued
<1>8. QueuesApart'
  BY <1>2, <1>3, <1>6 DEF QueuesApart, AnswerInv
<1> QED
  BY <1>5, <1>7, <1>8

(* run_notified: refused with an answer, or queued. *)
LEMMA SubmitAnswers ==
  ASSUME TypeOK, AnswerInv, NEW t \in Tasks, Submit(t)
  PROVE  AnswerInv'
<1>1. /\ caller[t] = "new" /\ UNCHANGED <<doomed, closing, relay, runner, result>>
      /\ t \in Legs /\ t \notin RelayLegs
  BY PoolAssumption, LegTypes DEF Submit, closeVars, runVars
<1>2. PICK p \in Pools : p = PoolOf[t]
  BY <1>1, LegTypes
<1>3. /\ caller \in [Tasks -> CallerStates] /\ answer \in [Legs -> Answers]
      /\ queue \in [Pools -> Seq(Legs)]
  BY DEF TypeOK
<1>4. ~Accepted(t) /\ Lives(t)
  BY <1>1 DEF Accepted, AnswerInv, EveryLegLives
<1>5. Unsent(t)
  BY <1>4 DEF Lives, Waits, Works, Leaves, Taken, Over, Open
<1>6. \E to \in {"drain", "done"} : caller' = [caller EXCEPT ![t] = to]
  BY DEF Submit
<1>7. Accepted(t)' /\ \A k \in Legs \ {t} : Accepted(k)' <=> Accepted(k)
  <2>1. caller'[t] # "new" /\ \A u \in Tasks \ {t} : caller'[u] = caller[u]
    BY <1>3, <1>6
  <2> QED
    BY <1>1, <2>1 DEF Accepted
<1>8. CASE /\ queue' = queue
           /\ \E why \in {"closed", "cancelled"} : answer' = [answer EXCEPT ![t] = why]
  <2>1. \A k \in Legs : IsQueued(k)' <=> IsQueued(k)
    BY <1>8 DEF IsQueued, Queued
  <2>2. answer'[t] # "none" /\ \A k \in Legs \ {t} : answer'[k] = answer[k]
    BY <1>1, <1>3, <1>8
  <2>3. QueuesApart'
    BY <1>8 DEF AnswerInv, QueuesApart
  <2>4. Over(t)'
    BY <1>1, <1>5, <1>7, <2>1, <2>2 DEF Over, Unsent, IsTaken, Leaving, Busy
  <2> QED
    BY <1>1, <1>7, <2>1, <2>2, <2>3, <2>4, OneLegMoves DEF Lives
<1>9. CASE queue' = [queue EXCEPT ![p] = Append(@, t)] /\ answer' = answer
  <2>1. t \notin Queued(p)
    BY <1>2, <1>5 DEF Unsent, IsQueued
  <2>2. /\ Apart(Append(queue[p], t))
        /\ ToSet(Append(queue[p], t)) = Queued(p) \cup {t}
    BY <1>1, <1>3, <2>1, ApartSequences DEF Queued, AnswerInv, QueuesApart
  <2>3. \A q \in Pools : queue'[q] = IF q = p THEN Append(queue[p], t) ELSE queue[q]
    BY <1>3, <1>9
  <2>4. IsQueued(t)' /\ \A k \in Legs \ {t} : IsQueued(k)' <=> IsQueued(k)
    BY <1>1, <1>2, <2>2, <2>3, LegTypes DEF IsQueued, Queued
  <2>5. QueuesApart'
    BY <2>2, <2>3 DEF AnswerInv, QueuesApart
  <2>6. Waits(t)'
    BY <1>1, <1>5, <1>7, <1>9, <2>4 DEF Waits, Unsent, IsTaken, Open
  <2> QED
    BY <1>1, <1>7, <1>9, <2>4, <2>5, <2>6, OneLegMoves DEF Lives
<1> QED
  BY <1>2, <1>8, <1>9 DEF Submit

(* After the growth: stranded, a task leaves the queue with an answer. *)
LEMMA CallerChecksAnswers ==
  ASSUME TypeOK, QueuedHere, AnswerInv, NEW t \in Tasks, CallerChecks(t)
  PROVE  AnswerInv'
<1>1. /\ UNCHANGED <<doomed, closing, relay, runner, result>> /\ t \in Legs
      /\ caller \in [Tasks -> CallerStates] /\ answer \in [Legs -> Answers]
  BY LegTypes DEF CallerChecks, closeVars, runVars, TypeOK
<1>2. \E to \in {"done", "redrain"} : caller[t] # "new" /\ caller' = [caller EXCEPT ![t] = to]
  BY DEF CallerChecks, CallerGoes
<1>3. \A u \in Tasks : caller'[u] = "new" <=> caller[u] = "new"
  BY <1>1, <1>2
<1>4. \A k \in Legs : Accepted(k)' <=> Accepted(k)
  BY <1>1, <1>3, AcceptedBy
<1>5. CASE UNCHANGED <<queue, answer>>
  <2>1. AnswerQuiet
    BY <1>1, <1>3, <1>5 DEF AnswerQuiet, SameClass
  <2> QED
    BY <2>1, QuietKeepsAnswers
<1>6. CASE ~UNCHANGED <<queue, answer>>
  <2>1. PICK i \in DOMAIN queue[PoolOf[t]] :
           /\ queue[PoolOf[t]][i] = t
           /\ queue' = [queue EXCEPT ![PoolOf[t]] = RemoveAt(@, i)]
           /\ answer' = [answer EXCEPT ![t] = "unconnected"]
    BY <1>6 DEF CallerChecks
  <2>2. Waits(t) /\ QueuesApart' /\ \A k \in Legs : IsQueued(k)' <=> IsQueued(k) /\ k # t
    BY <1>1, <2>1, LegTakenOut
  <2>3. answer'[t] # "none" /\ \A k \in Legs \ {t} : answer'[k] = answer[k]
    BY <1>1, <2>1
  <2>4. Over(t)'
    BY <1>1, <1>4, <2>2, <2>3 DEF Over, Waits, Open, IsTaken, Leaving, Busy
  <2> QED
    BY <1>1, <1>4, <2>2, <2>3, <2>4, OneLegMoves DEF Lives
<1> QED
  BY <1>5, <1>6

(* Stop: a queued leg leaves the queue with an answer, another one only     *)
(* gets its token cancelled or its mark.                                    *)
LEMMA CancelAnswers ==
  ASSUME TypeOK, QueuedHere, AnswerInv, NEW l \in Legs, Cancel(l)
  PROVE  AnswerInv'
<1>1. UNCHANGED <<doomed, closing, relay, runner, result>>
  BY DEF Cancel, closeVars
<1>2. CASE UNCHANGED <<queue, answer, caller>>
  <2>1. AnswerQuiet
    BY <1>1, <1>2 DEF AnswerQuiet, SameClass
  <2> QED
    BY <2>1, QuietKeepsAnswers
<1>3. CASE ~UNCHANGED <<queue, answer, caller>>
  <2>1. PICK i \in DOMAIN queue[PoolOf[l]] :
           /\ queue[PoolOf[l]][i] = l
           /\ queue' = [queue EXCEPT ![PoolOf[l]] = RemoveAt(@, i)]
           /\ Answer({l}, "cancelled")
    BY <1>3 DEF Cancel
  <2>2. Waits(l) /\ QueuesApart' /\ \A k \in Legs : IsQueued(k)' <=> IsQueued(k) /\ k # l
    BY <2>1, LegTakenOut
  <2>3. /\ \A t \in Tasks : caller'[t] = "new" <=> caller[t] = "new"
        /\ answer'[l] = "cancelled" /\ \A k \in Legs \ {l} : answer'[k] = answer[k]
    BY <2>1, AnswerKeepsNew
  <2>4. \A k \in Legs : Accepted(k)' <=> Accepted(k)
    BY <1>1, <2>3, AcceptedBy
  <2>5. Over(l)'
    BY <1>1, <2>2, <2>3, <2>4 DEF Over, Waits, Open, IsTaken, Leaving, Busy
  <2> QED
    BY <1>1, <2>2, <2>3, <2>4, <2>5, OneLegMoves DEF Lives
<1> QED
  BY <1>2, <1>3

(* A runner ends or is stopped: it leaves with a result. *)
LEMMA RunnerLeaves ==
  ASSUME TypeOK, AnswerInv, NEW l \in Legs, RunnerEnds(l) \/ RunnerStops(l)
  PROVE  AnswerInv'
<1>1. /\ runner[l] \in Busy /\ UNCHANGED <<queue, doomed, closing, caller, relay, answer>>
      /\ \E why \in {"done", "cancelled"} : result' = [result EXCEPT ![l] = why]
      /\ \E to \in {"leftClosed", "leftLive", "leftLost"} : runner' = [runner EXCEPT ![l] = to]
  BY DEF RunnerEnds, RunnerStops, Settle, Busy, closeVars, userVars
<1>2. result \in [Legs -> {"none", "done", "cancelled"}] /\ runner \in [Legs -> RunnerStates]
  BY DEF TypeOK
<1>3. /\ result'[l] # "none" /\ runner'[l] \in {"leftClosed", "leftLive", "leftLost"}
      /\ \A k \in Legs \ {l} : result'[k] = result[k] /\ runner'[k] = runner[k]
  BY <1>1, <1>2
<1>4. \A k \in Legs : (Accepted(k)' <=> Accepted(k)) /\ (IsQueued(k)' <=> IsQueued(k))
  BY <1>1, AcceptedBy DEF IsQueued, Queued
<1>5. Works(l)
  <2>1. Lives(l)
    BY DEF AnswerInv, EveryLegLives
  <2> QED
    BY <1>1, <2>1 DEF Lives, Unsent, Waits, Leaves, Taken, Over, IsTaken, Leaving, Busy
<1>6. Leaves(l)'
  BY <1>1, <1>3, <1>4, <1>5 DEF Leaves, Works, Open, Leaving
<1>7. QueuesApart'
  BY <1>1 DEF AnswerInv, QueuesApart
<1> QED
  BY <1>1, <1>3, <1>4, <1>6, <1>7, OneLegMoves DEF Lives

(* It answers its caller with that result. *)
LEMMA RunnerAnswersOnce ==
  ASSUME TypeOK, AnswerInv, NEW l \in Legs, RunnerAnswers(l)
  PROVE  AnswerInv'
<1>1. /\ Leaving(l) /\ UNCHANGED <<queue, doomed, closing, relay, result>>
      /\ Answer({l}, result[l])
      /\ \E to \in {"gone", "drain", "replacing"} : runner' = [runner EXCEPT ![l] = to]
  BY DEF RunnerAnswers, AfterRunning, RunnerGoes, Leaving, stateVars, closeVars
<1>2. runner \in [Legs -> RunnerStates]
  BY DEF TypeOK
<1>3. /\ runner'[l] \in {"gone", "drain", "replacing"}
      /\ \A k \in Legs \ {l} : runner'[k] = runner[k]
  BY <1>1, <1>2
<1>4. /\ \A t \in Tasks : caller'[t] = "new" <=> caller[t] = "new"
      /\ answer'[l] = result[l] /\ \A k \in Legs \ {l} : answer'[k] = answer[k]
  BY <1>1, AnswerKeepsNew
<1>5. \A k \in Legs : (Accepted(k)' <=> Accepted(k)) /\ (IsQueued(k)' <=> IsQueued(k))
  BY <1>1, <1>4, AcceptedBy DEF IsQueued, Queued
<1>6. Leaves(l)
  <2>1. Lives(l)
    BY DEF AnswerInv, EveryLegLives
  <2> QED
    BY <1>1, <2>1 DEF Lives, Unsent, Waits, Works, Taken, Over, IsTaken, Leaving, Busy
<1>7. Over(l)'
  BY <1>1, <1>3, <1>4, <1>5, <1>6 DEF Over, Leaves, Open, IsTaken, Leaving, Busy
<1>8. QueuesApart'
  BY <1>1 DEF AnswerInv, QueuesApart
<1> QED
  BY <1>1, <1>3, <1>4, <1>5, <1>7, <1>8, OneLegMoves DEF Lives

(* run_pair: both legs enter the empty queues of their pools, or none does. *)
LEMMA RelayAdmitsAnswers ==
  ASSUME TypeOK, AnswerInv, NEW r \in Relays, RelayAdmits(r)
  PROVE  AnswerInv'
<1> DEFINE In == {"drainSrc", "drainDst", "join", "joined"}
<1>1. /\ UNCHANGED <<doomed, closing, caller, runner, result, answer>>
      /\ relay[r] \in {"growingSrc", "growingDst"} /\ relay \in [Relays -> RelayStates]
      /\ queue \in [Pools -> Seq(Legs)]
  BY DEF RelayAdmits, closeVars, runVars, TypeOK
<1>2. CASE queue' = queue /\ \E to \in LegErrors \cup {"wait"} : RelayGoes(r, to)
  <2>1. \A q \in Relays : relay'[q] \in In <=> relay[q] \in In
    BY <1>1, <1>2 DEF RelayGoes, LegErrors
  <2>2. AnswerQuiet
    BY <1>1, <1>2, <2>1 DEF AnswerQuiet, SameClass
  <2> QED
    BY <2>2, QuietKeepsAnswers
<1>3. CASE Admitted(r) /\ PushBoth(r) /\ RelayGoes(r, "drainSrc")
  <2>1. PICK a, b : a = SrcLeg[r] /\ b = DstLeg[r]
    OBVIOUS
  <2>2. PICK p, q : p = PoolOf[a] /\ q = PoolOf[b]
    OBVIOUS
  <2>3. /\ a \in Legs /\ b \in Legs /\ a # b /\ p \in Pools /\ q \in Pools
        /\ a \in RelayLegs /\ b \in RelayLegs /\ a \notin Tasks /\ b \notin Tasks
        /\ RelayOf(a) = r /\ RelayOf(b) = r
        /\ \A l \in RelayLegs : RelayOf(l) = r => l \in {a, b}
    BY <2>1, <2>2, OwnLegs, LegTypes DEF SrcPool, DstPool
  <2>4. queue[p] = <<>> /\ queue[q] = <<>>
    <3>1. LegReady(p, a, Need(r)) = "ready" /\ LegReady(q, b, Need(r)) = "ready"
      BY <1>3, <2>1, <2>2 DEF Admitted, PairReady, SrcPool, DstPool
    <3> QED
      BY <3>1, ReadyMeansIdle
  <2>5. \A o \in Pools : queue'[o] = (queue[o] \o (IF o = p THEN <<a>> ELSE <<>>))
                                          \o (IF o = q THEN <<b>> ELSE <<>>)
    BY <1>3, <2>1, <2>2 DEF PushBoth, SrcPool, DstPool
  <2>6. ASSUME NEW o \in Pools
        PROVE  /\ Apart(queue'[o])
               /\ ToSet(queue'[o]) = ToSet(queue[o]) \cup {l \in {a, b} : PoolOf[l] = o}
    <3>1. ToSet(<<>>) = {}
      BY DEF ToSet
    <3>2. ToSet(<<a>>) = {a} /\ ToSet(<<b>>) = {b} /\ Apart(<<a>>) /\ Apart(<<b>>)
      <4>1. \A c : DOMAIN <<c>> = {1} /\ <<c>>[1] = c
        OBVIOUS
      <4>2. \A c : ToSet(<<c>>) = {c}
        BY <4>1 DEF ToSet
      <4>3. \A c : Apart(<<c>>)
        BY <4>1 DEF Apart
      <4> QED
        BY <4>2, <4>3
    <3>3. ToSet(<<a, b>>) = {a, b} /\ Apart(<<a, b>>)
      BY <2>3 DEF ToSet, Apart
    <3>4. CASE o = p /\ o = q
      <4>1. queue'[o] = <<a, b>>
        BY <2>3, <2>4, <2>5, <3>4, PushedOnEmpty
      <4> QED
        BY <2>2, <2>4, <3>1, <3>3, <3>4, <4>1
    <3>5. CASE o = p /\ o # q
      <4>1. queue'[o] = <<a>>
        BY <2>3, <2>4, <2>5, <3>5, PushedOnEmpty
      <4> QED
        BY <2>2, <2>4, <3>1, <3>2, <3>5, <4>1
    <3>6. CASE o # p /\ o = q
      <4>1. queue'[o] = <<b>>
        BY <2>3, <2>4, <2>5, <3>6, PushedOnEmpty
      <4> QED
        BY <2>2, <2>4, <3>1, <3>2, <3>6, <4>1
    <3>7. CASE o # p /\ o # q
      <4>1. queue'[o] = queue[o]
        <5>1. queue[o] \in Seq(Legs) /\ queue'[o] = (queue[o] \o <<>>) \o <<>>
          BY <1>1, <2>5, <3>7
        <5> QED
          BY <5>1
      <4> QED
        BY <2>2, <3>7, <4>1 DEF AnswerInv, QueuesApart
    <3> QED
      BY <3>4, <3>5, <3>6, <3>7
  <2>7. \A k \in Legs : IsQueued(k)' <=> IsQueued(k) \/ k \in {a, b}
    BY <2>3, <2>6, LegTypes DEF IsQueued, Queued
  <2>8. \A o \in Relays : relay'[o] = IF o = r THEN "drainSrc" ELSE relay[o]
    BY <1>1, <1>3 DEF RelayGoes
  <2>9. ~Accepted(a) /\ ~Accepted(b) /\ Accepted(a)' /\ Accepted(b)'
    BY <1>1, <2>3, <2>8 DEF Accepted
  <2>10. \A k \in Legs \ {a, b} : Accepted(k)' <=> Accepted(k)
    <3>1. \A k \in RelayLegs : RelayOf(k) \in Relays
      BY OwnLegs DEF RelayLegs
    <3> QED
      BY <1>1, <2>3, <2>8, <3>1, PoolAssumption DEF Accepted, Legs
  <2>11. Unsent(a) /\ Unsent(b)
    <3>1. Lives(a) /\ Lives(b)
      BY <2>3 DEF AnswerInv, EveryLegLives
    <3> QED
      BY <2>9, <3>1 DEF Lives, Waits, Works, Leaves, Taken, Over, Open
  <2>12. Waits(a)' /\ Waits(b)'
    BY <1>1, <2>7, <2>9, <2>11, <2>3 DEF Waits, Unsent, Open, IsTaken
  <2>13. \A k \in Legs \ {a, b} : KeptLeg(k)
    BY <1>1, <2>7, <2>10 DEF KeptLeg, SameClass
  <2>14. QueuesApart' /\ DoomedHere'
    BY <1>1, <2>6 DEF QueuesApart, DoomedHere, AnswerInv
  <2> QED
    BY <2>12, <2>13, <2>14, LivesTogether DEF Lives
<1> QED
  BY <1>2, <1>3 DEF RelayAdmits

(* Every step keeps every leg's life. *)
LEMMA AnswerStep ==
  ASSUME TypeOK, ActiveIsRunning, AnswerInv, [Next]_vars
  PROVE  AnswerInv'
<1> USE DEF ActiveIsRunning
<1>1. ASSUME NEW p \in Pools,
             Drain(p) \/ Grow(p) \/ Login(p) \/ RetryDelayPasses(p) \/ Release(p)
                \/ CloseStarts(p) \/ Close(p)
      PROVE  AnswerInv'
  <2>1. CASE \/ GrowLogin(p) \/ GrowEnough(p) \/ GrowCancelled(p) \/ GrowNudged(p)
             \/ GrowDrained(p) \/ Login(p) \/ RetryDelayPasses(p) \/ Release(p)
             \/ CloseStarts(p) \/ WaitedUntilIdle(p)
    BY <2>1, PoolIsQuiet, QuietKeepsAnswers
  <2>2. CASE Drain(p)
    BY <2>2, DrainAnswers
  <2>3. CASE GrowLeaves(p) \/ CancelAll(p)
    BY <2>3, GrowLeavesAnswers
  <2>4. CASE DestroyTakes(p)
    BY <2>4, DestroyTakesAnswers
  <2>5. CASE DestroyTells(p)
    BY <2>5, DestroyTellsAnswers
  <2> QED
    BY <1>1, <2>1, <2>2, <2>3, <2>4, <2>5 DEF Grow, Close
<1>2. ASSUME NEW t \in Tasks, Submit(t) \/ Call(t) PROVE AnswerInv'
  BY <1>2, SubmitAnswers, CallerChecksAnswers, CallIsQuiet, QuietKeepsAnswers DEF Call
<1>3. ASSUME NEW l \in Legs,
             RunnerAcquires(l) \/ RunnerEnds(l) \/ RunnerStops(l) \/ Unwind(l) \/ Cancel(l)
      PROVE  AnswerInv'
  <2>1. CASE RunnerAcquires(l) \/ RunnerDrained(l)
    BY <2>1, RunnerIsQuiet, QuietKeepsAnswers
  <2>2. CASE RunnerEnds(l) \/ RunnerStops(l)
    BY <2>2, RunnerLeaves
  <2>3. CASE RunnerAnswers(l)
    BY <2>3, RunnerAnswersOnce
  <2>4. CASE Cancel(l)
    BY <2>4, CancelAnswers
  <2> QED
    BY <1>3, <2>1, <2>2, <2>3, <2>4 DEF Unwind
<1>4. ASSUME NEW r \in Relays, RelayAsks(r) \/ Pair(r) PROVE AnswerInv'
  BY <1>4, RelayIsQuiet, RelayAdmitsAnswers, QuietKeepsAnswers DEF Pair
<1>5. CASE SetLimit \/ UNCHANGED vars
  BY <1>5, RunnerIsQuiet, QuietKeepsAnswers
<1> QED
  BY <1>1, <1>2, <1>3, <1>4, <1>5 DEF Next

(* So it holds in every run. *)
LEMMA AnswerInvariant == Spec => []AnswerInv
<1>1. Init => AnswerInv
  <2> SUFFICES ASSUME Init PROVE AnswerInv
    OBVIOUS
  <2>1. \A l \in Legs : PoolOf[l] \in Pools
    BY LegTypes
  <2>2. ToSet(<<>>) = {}
    BY DEF ToSet
  <2>3. \A l \in RelayLegs : RelayOf(l) \in Relays
    BY OwnLegs DEF RelayLegs
  <2>4. \A l \in Legs : Unsent(l)
    BY <2>1, <2>2, <2>3 DEF Init, Unsent, Accepted, IsQueued, Queued, IsTaken
  <2>5. QueuesApart /\ DoomedHere
    BY DEF Init, QueuesApart, Apart, DoomedHere
  <2> QED
    BY <2>4, <2>5 DEF AnswerInv, EveryLegLives, Lives
<1> QED
  BY <1>1, AnswerStep, PoolTypes, ActiveIsRunningInvariant, PTL DEF Spec

(* transfer_pool.rs run_notified, run_pair, drain, spawn_runner, cancel,    *)
(* cancel_all and destroy: each accepted transfer without an answer is in   *)
(* exactly one place that will answer it, each answered one is in none, and *)
(* no queue holds a transfer twice.                                         *)
THEOREM EveryTransferIsOwedOnce == Spec => []OnePlaceOwesTheAnswer
<1>1. ASSUME TypeOK, ActiveIsRunning, AnswerInv PROVE OnePlaceOwesTheAnswer
  <2> SUFFICES ASSUME NEW l \in Legs
               PROVE  Cardinality(Owed(l)) = IF Accepted(l) /\ answer[l] = "none" THEN 1 ELSE 0
    BY <1>1 DEF OnePlaceOwesTheAnswer, AnswerInv, QueuesApart, Apart
  <2>1. Lives(l) /\ PoolOf[l] \in Pools
    BY <1>1, LegTypes DEF AnswerInv, EveryLegLives
  <2>2. l \in active[PoolOf[l]] <=> runner[l] \in Busy
    BY <1>1, <2>1 DEF ActiveIsRunning, ActiveRuns, RunsAreActive
  <2>3. Owed(l) = {place \in {"queue", "active", "leaving", "taken"} :
                     \/ place = "queue" /\ IsQueued(l)
                     \/ place = "active" /\ runner[l] \in Busy
                     \/ place = "leaving" /\ Leaving(l)
                     \/ place = "taken" /\ IsTaken(l)}
    BY <2>2 DEF Owed, IsQueued, IsTaken
  <2>4. Cardinality({}) = 0 /\ \A place : Cardinality({place}) = 1
    BY FS_EmptySet, FS_Singleton
  <2>5. CASE Unsent(l) \/ Over(l)
    <3>1. Owed(l) = {}
      BY <2>3, <2>5 DEF Unsent, Over, Leaving, Busy
    <3> QED
      BY <2>4, <2>5, <3>1 DEF Unsent, Over
  <2>6. CASE Waits(l)
    <3>1. Owed(l) = {"queue"}
      BY <2>3, <2>6 DEF Waits, Leaving, Busy
    <3> QED
      BY <2>4, <2>6, <3>1 DEF Waits, Open
  <2>7. CASE Works(l)
    <3>1. Owed(l) = {"active"}
      BY <2>3, <2>7 DEF Works, Leaving, Busy, IsTaken
    <3> QED
      BY <2>4, <2>7, <3>1 DEF Works, Open
  <2>8. CASE Leaves(l)
    <3>1. Owed(l) = {"leaving"}
      BY <2>3, <2>8 DEF Leaves, Leaving, Busy, IsTaken
    <3> QED
      BY <2>4, <2>8, <3>1 DEF Leaves, Open
  <2>9. CASE Taken(l)
    <3>1. Owed(l) = {"taken"}
      BY <2>3, <2>9 DEF Taken, IsTaken, Leaving, Busy
    <3> QED
      BY <2>4, <2>9, <3>1 DEF Taken, Open
  <2> QED
    BY <2>1, <2>5, <2>6, <2>7, <2>8, <2>9 DEF Lives
<1> QED
  BY <1>1, AnswerInvariant, PoolTypes, ActiveIsRunningInvariant, PTL

(* The code keeps CANCELLED_CAP marks: a Stop that would leave one more, of *)
(* a transfer that is not there yet, finds room for it.                     *)
MarksHaveRoom ==
    \A l \in MayStop \ stopped :
        l \notin Queued(PoolOf[l]) \cup active[PoolOf[l]]
            => \/ Contains(cancelled[PoolOf[l]], l)
               \/ Len(cancelled[PoolOf[l]]) < CancelledCap

(* What holds a Stop that has begun. *)
Marked(l) == Contains(cancelled[PoolOf[l]], l)
StopHeld(l) ==
    answer[l] # "none" \/ token[l] \/ Marked(l) \/ l \in doomed[PoolOf[l]] \/ Leaving(l)

(* Steps that take nothing of that away: answers stay answers, marks and    *)
(* the destroy's list stay, whoever leaves leaves on.                       *)
StopQuiet ==
    /\ UNCHANGED <<cancelled, doomed, stopped>>
    /\ \A l \in Legs : /\ answer[l] # "none" => answer'[l] # "none"
                       /\ Leaving(l) => Leaving(l)' \/ answer'[l] # "none"

(* They lose no Stop. *)
LEMMA QuietHoldsStops ==
  ASSUME TypeOK, Next, StopQuiet, StopIsNeverLost
  PROVE  StopIsNeverLost'
<1> SUFFICES ASSUME NEW l \in stopped PROVE StopHeld(l)'
  BY DEF StopQuiet, StopIsNeverLost, StopHeld, Marked
<1>1. l \in Legs /\ StopHeld(l)
  BY DEF TypeOK, StopIsNeverLost, StopHeld, Marked
<1>2. token[l] => token'[l]
  BY <1>1, TokensStay
<1> QED
  BY <1>1, <1>2 DEF StopHeld, StopQuiet, Marked

(* The steps of a growth, a release and of cancel_all are such. *)
LEMMA PoolHoldsStops ==
  ASSUME TypeOK, QueuedHere, AnswerInv, NEW p \in Pools,
         \/ Drain(p) \/ Grow(p) \/ Login(p) \/ RetryDelayPasses(p) \/ Release(p)
         \/ CloseStarts(p) \/ CancelAll(p) \/ WaitedUntilIdle(p)
  PROVE  StopQuiet
<1> USE DEF stateVars, closeVars, userVars, runVars
<1>1. CASE Drain(p)
  <2>1. /\ queue[p] # <<>> /\ runner' = [runner EXCEPT ![Head(queue[p])] = "starting"]
        /\ UNCHANGED <<cancelled, doomed, stopped, answer>>
    BY <1>1 DEF Drain, CanDispatch, Dispatch
  <2>2. Head(queue[p]) \in Queued(p)
    <3>1. queue[p] \in Seq(Legs) /\ Apart(queue[p])
      BY DEF TypeOK, AnswerInv, QueuesApart
    <3> QED
      BY <2>1, <3>1, ApartSequences DEF Queued
  <2>3. runner[Head(queue[p])] = "none"
    BY <2>2, QueuedWaits DEF Waits
  <2>4. \A l \in Legs : Leaving(l) => runner'[l] = runner[l]
    BY <2>1, <2>3 DEF Leaving, TypeOK
  <2> QED
    BY <2>1, <2>4 DEF StopQuiet, Leaving
<1>2. CASE GrowLeaves(p) \/ CancelAll(p)
  <2>1. UNCHANGED <<cancelled, doomed, stopped, runner>>
    BY <1>2 DEF GrowLeaves, CancelAll
  <2>2. \A l \in Legs : answer'[l] = answer[l] \/ answer'[l] # "none"
    BY <1>2 DEF GrowLeaves, CancelAll, AnswerQueue, Answer
  <2> QED
    BY <2>1, <2>2 DEF StopQuiet, Leaving
<1>3. CASE GrowLogin(p) \/ GrowEnough(p) \/ GrowCancelled(p) \/ GrowNudged(p) \/ GrowDrained(p)
  BY <1>3 DEF GrowLogin, GrowEnough, GrowCancelled, GrowNudged, GrowDrained, StopQuiet, Leaving
<1>4. CASE Login(p) \/ RetryDelayPasses(p) \/ Release(p) \/ CloseStarts(p) \/ WaitedUntilIdle(p)
  BY <1>4 DEF Login, LoginOk, LoginTurnedAway, LoginFails, RetryDelayPasses, Release, CloseStarts,
     WaitedUntilIdle, StopQuiet, Leaving
<1> QED
  BY <1>1, <1>2, <1>3, <1>4 DEF Grow

(* So are those of a caller once it has submitted, ... *)
LEMMA CallHoldsStops ==
  ASSUME TypeOK, NEW t \in Tasks, Call(t)
  PROVE  StopQuiet
<1>1. UNCHANGED <<cancelled, doomed, stopped, runner>>
  BY DEF Call, CallerDrained, CallerEnsures, CallerChecks, CallerSeesLimit, stateVars, closeVars,
         runVars
<1>2. answer' = answer \/ answer' = [answer EXCEPT ![t] = "unconnected"]
  BY DEF Call, CallerDrained, CallerEnsures, CallerChecks, CallerSeesLimit
<1>3. \A l \in Legs : answer'[l] = answer[l] \/ answer'[l] # "none"
  BY <1>2 DEF TypeOK
<1> QED
  BY <1>1, <1>3 DEF StopQuiet, Leaving

(* ... of a relay, ... *)
LEMMA RelayHoldsStops ==
  ASSUME NEW r \in Relays, RelayAsks(r) \/ Pair(r)
  PROVE  StopQuiet
<1>1. UNCHANGED <<cancelled, doomed, stopped, runner, answer>>
  BY DEF RelayAsks, Pair, RelayGlances, RelayGrowsSource, RelayGrowsTarget, RelayAdmits,
         RelayDrained, RelayJoins, stateVars, closeVars, runVars
<1> QED
  BY <1>1 DEF StopQuiet, Leaving

(* ... and of a runner, which answers when it stops leaving. *)
LEMMA RunnerHoldsStops ==
  ASSUME TypeOK, AnswerInv, NEW l \in Legs,
         RunnerAcquires(l) \/ RunnerEnds(l) \/ RunnerStops(l) \/ Unwind(l)
  PROVE  StopQuiet
<1>types. runner \in [Legs -> RunnerStates]
  BY DEF TypeOK
<1>1. CASE RunnerAcquires(l) \/ RunnerEnds(l) \/ RunnerStops(l) \/ RunnerDrained(l)
  <2>1. UNCHANGED <<cancelled, doomed, stopped, answer>>
    BY <1>1 DEF RunnerAcquires, RunnerEnds, RunnerStops, Settle, RunnerDrained, stateVars,
           closeVars
  <2>2. ~Leaving(l) /\ \E to : runner' = [runner EXCEPT ![l] = to]
    BY <1>1 DEF RunnerAcquires, RunnerEnds, RunnerStops, Settle, RunnerDrained, RunnerGoes,
                RunnerReplaced, Leaving
  <2>3. \A k \in Legs : Leaving(k) => Leaving(k)'
    BY <1>types, <2>2 DEF Leaving
  <2> QED
    BY <2>1, <2>3 DEF StopQuiet
<1>2. CASE RunnerAnswers(l)
  <2>1. /\ Leaving(l) /\ UNCHANGED <<cancelled, doomed, stopped>> /\ Answer({l}, result[l])
        /\ \E to : runner' = [runner EXCEPT ![l] = to]
    BY <1>2 DEF RunnerAnswers, AfterRunning, RunnerGoes, Leaving, stateVars, closeVars
  <2>2. Leaves(l)
    <3>1. Lives(l)
      BY DEF AnswerInv, EveryLegLives
    <3> QED
      BY <2>1, <3>1 DEF Lives, Unsent, Waits, Works, Taken, Over, IsTaken, Leaving, Busy
  <2>3. answer'[l] # "none" /\ \A k \in Legs \ {l} : answer'[k] = answer[k]
    BY <2>1, <2>2, AnswerKeepsNew DEF Leaves
  <2>4. \A k \in Legs \ {l} : runner'[k] = runner[k]
    BY <1>types, <2>1
  <2> QED
    BY <2>1, <2>3, <2>4 DEF StopQuiet, Leaving
<1> QED
  BY <1>1, <1>2 DEF Unwind

(* destroy keeps what it took until it tells it. *)
LEMMA DestroyHoldsStops ==
  ASSUME TypeOK, Next, AnswerInv, StopIsNeverLost, NEW p \in Pools,
         DestroyTakes(p) \/ DestroyTells(p)
  PROVE  StopIsNeverLost'
<1> USE DEF stateVars, closeVars, userVars, runVars
<1>types. doomed \in [Pools -> SUBSET Legs] /\ token \in [Legs -> BOOLEAN]
  BY DEF TypeOK
<1>1. UNCHANGED <<cancelled, stopped, runner>>
  BY DEF DestroyTakes, DestroyTells
<1> SUFFICES ASSUME NEW l \in stopped PROVE StopHeld(l)'
  BY <1>1 DEF StopIsNeverLost, StopHeld, Marked
<1>2. l \in Legs /\ StopHeld(l) /\ PoolOf[l] \in Pools
  BY LegTypes DEF TypeOK, StopIsNeverLost, StopHeld, Marked
<1>3. CASE DestroyTakes(p)
  <2>1. doomed[p] = {}
    <3>1. closing[p] = "closing"
      BY <1>3 DEF DestroyTakes
    <3> QED
      BY <1>types, <3>1 DEF AnswerInv, DoomedHere
  <2>2. l \in doomed[PoolOf[l]] => l \in doomed'[PoolOf[l]]
    BY <1>2, <1>3, <1>types, <2>1 DEF DestroyTakes
  <2> QED
    BY <1>1, <1>2, <1>3, <2>2 DEF DestroyTakes, StopHeld, Marked, Leaving
<1>4. CASE DestroyTells(p)
  <2>1. answer[l] # "none" => answer'[l] # "none"
    BY <1>2, <1>4 DEF DestroyTells, Answer
  <2>2. token[l] => token'[l]
    BY <1>2, TokensStay
  <2>3. l \in doomed[p] => answer'[l] # "none" \/ token'[l]
    BY <1>2, <1>4 DEF DestroyTells, Answer
  <2>4. l \in doomed[PoolOf[l]] /\ PoolOf[l] # p => l \in doomed'[PoolOf[l]]
    BY <1>2, <1>4, <1>types DEF DestroyTells
  <2> QED
    BY <1>1, <1>2, <2>1, <2>2, <2>3, <2>4 DEF StopHeld, Marked, Leaving
<1> QED
  BY <1>3, <1>4

(* run_notified takes its own mark only, and answers for it. *)
LEMMA SubmitHoldsStops ==
  ASSUME TypeOK, StopIsNeverLost, NEW t \in Tasks, Submit(t)
  PROVE  StopIsNeverLost'
<1>types. /\ cancelled \in [Pools -> {marks \in Seq(Legs) : Len(marks) <= CancelledCap}]
          /\ answer \in [Legs -> Answers] /\ t \in Legs /\ PoolOf[t] \in Pools
  BY LegTypes DEF TypeOK
<1>1. UNCHANGED <<doomed, stopped, runner, token>>
  BY DEF Submit, closeVars, runVars
<1> SUFFICES ASSUME NEW l \in stopped PROVE StopHeld(l)'
  BY <1>1 DEF StopIsNeverLost, StopHeld, Marked
<1>2. l \in Legs /\ StopHeld(l) /\ PoolOf[l] \in Pools
  BY LegTypes DEF TypeOK, StopIsNeverLost, StopHeld, Marked
<1>3. answer[l] # "none" => answer'[l] # "none"
  BY <1>2, <1>types DEF Submit
<1>4. Marked(l) => Marked(l)' \/ answer'[l] # "none"
  <2>1. CASE cancelled' = cancelled
    BY <2>1 DEF Marked
  <2>2. CASE cancelled' # cancelled
    <3>1. PICK i \in DOMAIN cancelled[PoolOf[t]] :
            /\ cancelled[PoolOf[t]][i] = t
            /\ cancelled' = [cancelled EXCEPT ![PoolOf[t]] = RemoveAt(@, i)]
            /\ answer' = [answer EXCEPT ![t] = "cancelled"]
      BY <2>2 DEF Submit
    <3>2. CASE l = t
      BY <1>types, <3>1, <3>2
    <3>3. CASE PoolOf[l] # PoolOf[t]
      BY <1>2, <1>types, <3>1, <3>3 DEF Marked
    <3>4. CASE l # t /\ PoolOf[l] = PoolOf[t]
      <4>1. PICK s : s = cancelled[PoolOf[t]]
        OBVIOUS
      <4>2. s \in Seq(Legs) /\ DOMAIN s = 1 .. Len(s) /\ Len(s) \in Nat
        BY <1>types, <4>1, LenProperties
      <4>3. i \in 1 .. Len(s) /\ s[i] = t
        BY <3>1, <4>1, <4>2
      <4>4. /\ RemoveAt(s, i) \in Seq(Legs) /\ Len(RemoveAt(s, i)) = Len(s) - 1
            /\ \A j \in 1 .. (Len(s) - 1) :
                  RemoveAt(s, i)[j] = IF j < i THEN s[j] ELSE s[j + 1]
        BY <4>2, <4>3, RemoveAtProperties
      <4>5. ASSUME NEW k \in 1 .. Len(s), s[k] = l PROVE Contains(RemoveAt(s, i), l)
        <5>1. k # i
          BY <3>4, <4>3, <4>5
        <5>2. CASE k < i
          BY <4>2, <4>3, <4>4, <4>5, <5>2 DEF Contains
        <5>3. CASE k > i
          <6>1. k - 1 \in 1 .. Len(s) - 1 /\ RemoveAt(s, i)[k - 1] = s[k]
            BY <4>2, <4>3, <4>4, <5>3
          <6> QED
            BY <4>2, <4>4, <4>5, <6>1 DEF Contains
        <5> QED
          BY <4>2, <4>3, <5>1, <5>2, <5>3
      <4>6. Contains(s, l) => Contains(RemoveAt(s, i), l)
        BY <4>5 DEF Contains
      <4>7. cancelled'[PoolOf[l]] = RemoveAt(s, i)
        BY <1>types, <3>1, <3>4, <4>1
      <4> QED
        BY <3>4, <4>1, <4>6, <4>7 DEF Marked
    <3> QED
      BY <3>2, <3>3, <3>4
  <2> QED
    BY <2>1, <2>2
<1> QED
  BY <1>1, <1>2, <1>3, <1>4 DEF StopHeld, Leaving

(* cancel() leaves an answer, a cancelled token or a mark, and takes none. *)
LEMMA CancelHoldsStops ==
  ASSUME TypeOK, Next, StopIsNeverLost, MarksHaveRoom, NEW l \in Legs, Cancel(l)
  PROVE  StopIsNeverLost'
<1>types. /\ cancelled \in [Pools -> {marks \in Seq(Legs) : Len(marks) <= CancelledCap}]
          /\ token \in [Legs -> BOOLEAN] /\ PoolOf[l] \in Pools /\ stopped \subseteq Legs
  BY LegTypes DEF TypeOK
<1>1. UNCHANGED <<doomed, runner>> /\ stopped' = stopped \cup {l} /\ l \in MayStop \ stopped
  BY DEF Cancel, closeVars
<1>2. \A k \in Legs : answer[k] # "none" => answer'[k] # "none"
  BY DEF Cancel, Answer
<1>3. \/ cancelled' = cancelled
      \/ /\ l \notin Queued(PoolOf[l]) \cup active[PoolOf[l]]
         /\ MarkCancelled(PoolOf[l], l)
  BY DEF Cancel
<1>4. \A k \in Legs : Marked(k) => Marked(k)'
  <2>1. CASE cancelled' = cancelled
    BY <2>1 DEF Marked
  <2>2. CASE /\ l \notin Queued(PoolOf[l]) \cup active[PoolOf[l]]
             /\ MarkCancelled(PoolOf[l], l) /\ cancelled' # cancelled
    <3>1. PICK s : s = cancelled[PoolOf[l]]
      OBVIOUS
    <3>2. s \in Seq(Legs) /\ Len(s) \in Nat
      BY <1>types, <3>1, LenProperties
    <3>3. ~Contains(s, l)
      BY <1>types, <2>2, <3>1 DEF MarkCancelled
    <3>4. Len(s) < CancelledCap
      BY <1>1, <2>2, <3>1, <3>3 DEF MarksHaveRoom
    <3>5. cancelled' = [cancelled EXCEPT ![PoolOf[l]] = Append(s, l)]
      <4>1. ~(Len(Append(s, l)) > CancelledCap)
        BY <3>2, <3>4, AppendProperties, PoolAssumption
      <4> QED
        BY <2>2, <3>1, <3>3, <4>1 DEF MarkCancelled
    <3>6. \A k : Contains(s, k) => Contains(Append(s, l), k)
      BY <3>2, AppendProperties DEF Contains
    <3> QED
      BY <1>types, <3>1, <3>5, <3>6, LegTypes DEF Marked
  <2> QED
    BY <1>3, <2>1, <2>2
<1>5. answer'[l] # "none" \/ token'[l] \/ Marked(l)'
  <2>1. CASE Answer({l}, "cancelled")
    BY <2>1 DEF Answer
  <2>2. CASE token' = [token EXCEPT ![l] = TRUE]
    BY <1>types, <2>2
  <2>3. CASE /\ l \notin Queued(PoolOf[l]) \cup active[PoolOf[l]]
             /\ MarkCancelled(PoolOf[l], l)
    <3>1. PICK s : s = cancelled[PoolOf[l]]
      OBVIOUS
    <3>2. s \in Seq(Legs) /\ Len(s) \in Nat
      BY <1>types, <3>1, LenProperties
    <3>3. CASE Contains(s, l)
      BY <1>4, <3>1, <3>3 DEF Marked
    <3>4. CASE ~Contains(s, l)
      <4>1. Len(s) < CancelledCap
        BY <1>1, <2>3, <3>1, <3>4 DEF MarksHaveRoom
      <4>2. ~(Len(Append(s, l)) > CancelledCap)
        BY <3>2, <4>1, AppendProperties, PoolAssumption
      <4>3. cancelled'[PoolOf[l]] = Append(s, l)
        BY <1>types, <2>3, <3>1, <3>4, <4>2 DEF MarkCancelled
      <4>4. Contains(Append(s, l), l)
        BY <3>2, AppendProperties DEF Contains
      <4> QED
        BY <4>3, <4>4 DEF Marked
    <3> QED
      BY <3>3, <3>4
  <2> QED
    BY <2>1, <2>2, <2>3 DEF Cancel
<1>6. \A k \in stopped : StopHeld(k)'
  <2> SUFFICES ASSUME NEW k \in stopped PROVE StopHeld(k)'
    OBVIOUS
  <2>1. k \in Legs /\ StopHeld(k)
    BY <1>types DEF StopIsNeverLost, StopHeld, Marked
  <2>2. token[k] => token'[k]
    BY <2>1, TokensStay
  <2> QED
    BY <1>1, <1>2, <1>4, <2>1, <2>2 DEF StopHeld, Leaving
<1> QED
  BY <1>1, <1>5, <1>6 DEF StopIsNeverLost, StopHeld, Marked

(* With room for the marks, no step loses a Stop. *)
LEMMA StopStep ==
  ASSUME TypeOK, ActiveIsRunning, AnswerInv, MarksHaveRoom, StopIsNeverLost, [Next]_vars
  PROVE  StopIsNeverLost'
<1>1. ASSUME Next, NEW p \in Pools,
             Drain(p) \/ Grow(p) \/ Login(p) \/ RetryDelayPasses(p) \/ Release(p)
                \/ CloseStarts(p) \/ Close(p)
      PROVE  StopIsNeverLost'
  BY <1>1, PoolHoldsStops, DestroyHoldsStops, QuietHoldsStops DEF Close, ActiveIsRunning
<1>2. ASSUME Next, NEW t \in Tasks, Submit(t) \/ Call(t) PROVE StopIsNeverLost'
  BY <1>2, SubmitHoldsStops, CallHoldsStops, QuietHoldsStops
<1>3. ASSUME Next, NEW l \in Legs,
             RunnerAcquires(l) \/ RunnerEnds(l) \/ RunnerStops(l) \/ Unwind(l) \/ Cancel(l)
      PROVE  StopIsNeverLost'
  BY <1>3, RunnerHoldsStops, CancelHoldsStops, QuietHoldsStops
<1>4. ASSUME Next, NEW r \in Relays, RelayAsks(r) \/ Pair(r) PROVE StopIsNeverLost'
  BY <1>4, RelayHoldsStops, QuietHoldsStops
<1>5. ASSUME Next, SetLimit PROVE StopIsNeverLost'
  <2>1. StopQuiet
    BY <1>5 DEF SetLimit, StopQuiet, Leaving, stateVars, closeVars, runVars
  <2> QED
    BY <1>5, <2>1, QuietHoldsStops
<1>6. CASE UNCHANGED vars
  BY <1>6 DEF vars, stateVars, closeVars, runVars, StopIsNeverLost, Leaving
<1> QED
  BY <1>1, <1>2, <1>3, <1>4, <1>5, <1>6 DEF Next

(* transfer_pool.rs cancel, mark_cancelled, run_notified and destroy: as    *)
(* long as no mark is evicted, a Stop reaches its transfer wherever that is *)
(* and whatever the pool does meanwhile.                                    *)
THEOREM StopsAreKept == Spec /\ []MarksHaveRoom => []StopIsNeverLost
<1>1. Init => StopIsNeverLost
  BY DEF Init, StopIsNeverLost
<1> QED
  BY <1>1, StopStep, PoolTypes, ActiveIsRunningInvariant, AnswerInvariant, PTL DEF Spec

(* Every mark is a Stop of its own. *)
MarksAreStops ==
    /\ stopped \subseteq MayStop
    /\ \A p \in Pools : Apart(cancelled[p]) /\ ToSet(cancelled[p]) \subseteq stopped

(* Marks are set by a Stop, and taken or pushed out whole. *)
LEMMA MarksAreStopsStep ==
  ASSUME TypeOK, MarksAreStops, [Next]_vars
  PROVE  MarksAreStops'
<1> USE DEF stateVars
<1>types. cancelled \in [Pools -> {marks \in Seq(Legs) : Len(marks) <= CancelledCap}]
  BY DEF TypeOK
<1>same. ASSUME UNCHANGED <<cancelled, stopped>> PROVE MarksAreStops'
  BY <1>same DEF MarksAreStops
<1>1. ASSUME NEW p \in Pools,
             Drain(p) \/ Grow(p) \/ Login(p) \/ RetryDelayPasses(p) \/ Release(p)
                \/ CloseStarts(p) \/ Close(p)
      PROVE  UNCHANGED <<cancelled, stopped>>
  BY <1>1 DEF Drain, Grow, GrowLogin, GrowEnough, GrowCancelled, GrowNudged, GrowDrained,
     GrowLeaves, Login, LoginOk, LoginTurnedAway, LoginFails, RetryDelayPasses, Release,
     CloseStarts, Close, CancelAll, DestroyTakes, DestroyTells, WaitedUntilIdle
<1>2. ASSUME NEW t \in Tasks, Call(t) PROVE UNCHANGED <<cancelled, stopped>>
  BY <1>2 DEF Call, CallerDrained, CallerEnsures, CallerChecks, CallerSeesLimit
<1>3. ASSUME NEW l \in Legs, RunnerAcquires(l) \/ RunnerEnds(l) \/ RunnerStops(l) \/ Unwind(l)
      PROVE  UNCHANGED <<cancelled, stopped>>
  BY <1>3 DEF RunnerAcquires, RunnerEnds, RunnerStops, Settle, Unwind, RunnerAnswers, RunnerDrained
<1>4. ASSUME NEW r \in Relays, RelayAsks(r) \/ Pair(r) PROVE UNCHANGED <<cancelled, stopped>>
  BY <1>4 DEF RelayAsks, Pair, RelayGlances, RelayGrowsSource, RelayGrowsTarget, RelayAdmits,
     RelayDrained, RelayJoins
<1>5. CASE SetLimit \/ UNCHANGED vars
  BY <1>5, <1>same DEF SetLimit, vars
<1>6. ASSUME NEW p \in Pools, NEW s \in Seq(Legs), cancelled' = [cancelled EXCEPT ![p] = s],
             Apart(s), ToSet(s) \subseteq stopped', stopped' \subseteq MayStop,
             stopped \subseteq stopped'
      PROVE  MarksAreStops'
  BY <1>6, <1>types DEF MarksAreStops
<1>7. ASSUME NEW t \in Tasks, Submit(t) PROVE MarksAreStops'
  <2>1. PICK p \in Pools : p = PoolOf[t]
    BY LegTypes
  <2>2. stopped' = stopped
    BY <1>7 DEF Submit
  <2>3. CASE cancelled' = cancelled
    BY <2>2, <2>3, <1>same
  <2>4. CASE cancelled' # cancelled
    <3>1. PICK i \in DOMAIN cancelled[p] : cancelled' = [cancelled EXCEPT ![p] = RemoveAt(@, i)]
      BY <1>7, <2>1, <2>4 DEF Submit
    <3>2. cancelled[p] \in Seq(Legs) /\ Apart(cancelled[p]) /\ ToSet(cancelled[p]) \subseteq stopped
      BY <1>types DEF MarksAreStops
    <3>3. /\ Apart(RemoveAt(cancelled[p], i))
          /\ ToSet(RemoveAt(cancelled[p], i)) \subseteq stopped
      BY <3>2, ApartSequences
    <3>4. RemoveAt(cancelled[p], i) \in Seq(Legs)
      BY <3>2, LenProperties, RemoveAtProperties
    <3> QED
      BY <1>6, <2>2, <3>1, <3>3, <3>4 DEF MarksAreStops
  <2> QED
    BY <2>3, <2>4
<1>8. ASSUME NEW l \in Legs, Cancel(l) PROVE MarksAreStops'
  <2>1. PICK p \in Pools : p = PoolOf[l]
    BY LegTypes
  <2>2. stopped' = stopped \cup {l} /\ l \in MayStop \ stopped
    BY <1>8 DEF Cancel
  <2>3. stopped' \subseteq MayStop /\ stopped \subseteq stopped'
    BY <2>2 DEF MarksAreStops
  <2>4. CASE cancelled' = cancelled
    BY <2>3, <2>4 DEF MarksAreStops
  <2>5. CASE MarkCancelled(p, l) /\ cancelled' # cancelled
    <3>1. PICK s : s = cancelled[p]
      OBVIOUS
    <3>2. s \in Seq(Legs) /\ Apart(s) /\ ToSet(s) \subseteq stopped
      BY <1>types, <3>1 DEF MarksAreStops
    <3>3. l \notin ToSet(s)
      BY <2>2, <3>2
    <3>4. PICK m : m = Append(s, l)
      OBVIOUS
    <3>5. m \in Seq(Legs) /\ m # <<>> /\ Apart(m) /\ ToSet(m) = ToSet(s) \cup {l}
      BY <3>2, <3>3, <3>4, ApartSequences, AppendProperties
    <3>6. Tail(m) \in Seq(Legs) /\ Apart(Tail(m)) /\ ToSet(Tail(m)) \subseteq ToSet(m)
      BY <3>5, ApartSequences, HeadTailProperties
    <3>7. cancelled' = [cancelled EXCEPT ![p] = m] \/ cancelled' = [cancelled EXCEPT ![p] = Tail(m)]
      BY <1>types, <2>5, <3>1, <3>4 DEF MarkCancelled
    <3>8. ToSet(m) \subseteq stopped'
      BY <2>2, <3>2, <3>5
    <3>9. CASE cancelled' = [cancelled EXCEPT ![p] = m]
      BY <1>6, <2>3, <3>5, <3>8, <3>9
    <3>10. CASE cancelled' = [cancelled EXCEPT ![p] = Tail(m)]
      <4>1. ToSet(Tail(m)) \subseteq stopped'
        BY <3>6, <3>8
      <4> QED
        BY <1>6, <2>3, <3>6, <3>10, <4>1
    <3> QED
      BY <3>7, <3>9, <3>10
  <2> QED
    BY <1>8, <2>1, <2>4, <2>5 DEF Cancel
<1> QED
  BY <1>same, <1>1, <1>2, <1>3, <1>4, <1>5, <1>7, <1>8 DEF Next

(* Stops within the cap leave room for the next one. *)
LEMMA RoomForMarks ==
  ASSUME Cardinality(MayStop) <= CancelledCap, TypeOK, MarksAreStops
  PROVE  MarksHaveRoom
<1> SUFFICES ASSUME NEW l \in MayStop \ stopped
             PROVE  Len(cancelled[PoolOf[l]]) < CancelledCap
  BY DEF MarksHaveRoom
<1>1. PICK s : s = cancelled[PoolOf[l]]
  OBVIOUS
<1>2. s \in Seq(Legs) /\ Apart(s) /\ ToSet(s) \subseteq stopped /\ stopped \subseteq MayStop
  <2>1. PoolOf[l] \in Pools
    BY LegTypes, PoolAssumption
  <2> QED
    BY <1>1, <2>1 DEF TypeOK, MarksAreStops
<1>3. IsFiniteSet(MayStop) /\ Cardinality(MayStop) \in Nat
  BY LegsFinite, PoolAssumption, FS_Subset, FS_CardinalityType
<1>4. /\ IsFiniteSet(stopped) /\ Cardinality(stopped) \in Nat
      /\ Cardinality(stopped) < Cardinality(MayStop)
  <2>1. IsFiniteSet(stopped) /\ Cardinality(stopped) <= Cardinality(MayStop)
        /\ (Cardinality(MayStop) = Cardinality(stopped) => MayStop = stopped)
    BY <1>2, <1>3, FS_Subset
  <2>2. Cardinality(stopped) \in Nat
    BY <2>1, FS_CardinalityType
  <2> QED
    BY <1>3, <2>1, <2>2
<1>5. Len(s) <= Cardinality(stopped)
  <2>1. DOMAIN s = 1 .. Len(s) /\ Len(s) \in Nat
    BY <1>2, LenProperties
  <2>2. s \in [1 .. Len(s) -> stopped]
    <3>1. \A i \in 1 .. Len(s) : s[i] \in stopped
      BY <1>2, <2>1 DEF ToSet
    <3>2. s = [i \in 1 .. Len(s) |-> s[i]]
      BY <1>2, <2>1
    <3> QED
      BY <3>1, <3>2
  <2>3. s \in Injection(1 .. Len(s), stopped)
    BY <1>2, <2>1, <2>2 DEF Injection, IsInjective, Apart
  <2>4. Cardinality(1 .. Len(s)) <= Cardinality(stopped)
    BY <1>4, <2>3, FS_Injection
  <2>5. Cardinality(1 .. Len(s)) = Len(s)
    <3>1. 1 \in Int /\ Len(s) \in Int
      BY <2>1
    <3>2. Cardinality(1 .. Len(s)) = IF 1 > Len(s) THEN 0 ELSE Len(s) - 1 + 1
      BY <3>1, FS_Interval, Zenon
    <3> QED
      BY <2>1, <3>2
  <2> QED
    BY <2>4, <2>5
<1>6. Len(s) \in Nat /\ CancelledCap \in Nat
  BY <1>2, LenProperties, PoolAssumption
<1> QED
  BY <1>1, <1>3, <1>4, <1>5, <1>6

(* Of so many Stops none is lost, in any run. *)
THEOREM StopsWithinTheCapAreKept ==
  ASSUME Cardinality(MayStop) <= CancelledCap
  PROVE  Spec => []StopIsNeverLost
<1>1. Init => MarksAreStops
  <2>1. ToSet(<<>>) = {} /\ Apart(<<>>)
    BY DEF ToSet, Apart
  <2> QED
    BY <2>1 DEF Init, MarksAreStops
<1>2. TypeOK /\ MarksAreStops => MarksHaveRoom
  BY RoomForMarks
<1> QED
  BY <1>1, <1>2, MarksAreStopsStep, PoolTypes, StopsAreKept, PTL DEF Spec
-----------------------------------------------------------------------------
(* The contract with the limiter.  Who owns a permit is past the point where *)
(* it is given: a task runs or is leaving, a relay's leg was admitted.       *)
PermitsAreUsed ==
    \A l \in permits :
        /\ l \in Tasks => runner[l] = "running" \/ Leaving(l)
        /\ l \in RelayLegs => Accepted(l)

WaitingTasks == {t \in Tasks : runner[t] = "starting"}

(* A relay's holder is the relay, a task's the task, and they differ. *)
LEMMA HolderOf ==
    /\ \A t \in Tasks : Admission(t) = t /\ t \notin Relays
    /\ \A l \in RelayLegs : Admission(l) = RelayOf(l) /\ RelayOf(l) \in Relays /\ l \notin Tasks
<1>1. ASSUME NEW l \in RelayLegs
      PROVE  Admission(l) = RelayOf(l) /\ RelayOf(l) \in Relays /\ l \notin Tasks
  <2>1. PICK r \in Relays : l = SrcLeg[r] \/ l = DstLeg[r]
    BY DEF RelayLegs
  <2> QED
    BY <2>1, OwnLegs DEF Admission
<1>2. \A t \in Tasks : Admission(t) = t /\ t \notin Relays
  BY PoolAssumption DEF Admission
<1> QED
  BY <1>1, <1>2

(* There are finitely many holders. *)
LEMMA HoldersFinite == TypeOK => IsFiniteSet(Holders) /\ Holders \subseteq Tasks \cup Relays
<1> SUFFICES ASSUME TypeOK PROVE IsFiniteSet(Holders) /\ Holders \subseteq Tasks \cup Relays
  OBVIOUS
<1>1. Holders \subseteq Tasks \cup Relays
  <2>1. ASSUME NEW l \in permits PROVE Admission(l) \in Tasks \cup Relays
    <3>1. l \in Tasks \/ l \in RelayLegs
      BY DEF TypeOK, Legs
    <3> QED
      BY <3>1, HolderOf
  <2> QED
    BY <2>1 DEF Holders
<1>2. IsFiniteSet(Tasks \cup Relays)
  BY PoolAssumption, FS_Union
<1> QED
  BY <1>1, <1>2, FS_Subset

(* Once accepted, a leg stays accepted. *)
LEMMA AcceptedStays ==
  ASSUME TypeOK, NEW l \in RelayLegs, Accepted(l), Next
  PROVE  Accepted(l)'
<1> DEFINE In == {"drainSrc", "drainDst", "join", "joined"}
<1>1. PICK r \in Relays : r = RelayOf(l)
  BY HolderOf
<1>2. relay[r] \in In /\ relay \in [Relays -> RelayStates]
  BY <1>1, HolderOf DEF Accepted, TypeOK
<1> SUFFICES relay'[r] \in In
  BY <1>1 DEF Accepted
<1>3. CASE UNCHANGED relay
  BY <1>2, <1>3
<1>4. ASSUME NEW q \in Relays, RelayAsks(q) \/ RelayGlances(q) \/ RelayGrowsSource(q)
                \/ RelayGrowsTarget(q) \/ RelayAdmits(q)
      PROVE  relay'[r] \in In
  <2>1. relay[q] \notin In /\ \E to : RelayGoes(q, to)
    BY <1>4 DEF RelayAsks, RelayGlances, RelayGrowsSource, RelayGrowsTarget, RelayAdmits
  <2> QED
    BY <1>2, <2>1 DEF RelayGoes
<1>5. ASSUME NEW q \in Relays, RelayDrained(q) \/ RelayJoins(q)
      PROVE  relay'[r] \in In
  <2>1. \E to \in In : RelayGoes(q, to)
    BY <1>5 DEF RelayDrained, RelayJoins
  <2> QED
    BY <1>2, <2>1 DEF RelayGoes
<1>6. \/ UNCHANGED relay
      \/ \E q \in Relays : RelayAsks(q) \/ Pair(q)
  <2>1. ASSUME NEW p \in Pools,
               Drain(p) \/ Grow(p) \/ Login(p) \/ RetryDelayPasses(p) \/ Release(p)
                  \/ CloseStarts(p) \/ Close(p)
        PROVE  UNCHANGED relay
    BY <2>1 DEF Drain, Grow, GrowLogin, GrowEnough, GrowCancelled, GrowNudged, GrowDrained,
                GrowLeaves, Login, LoginOk, LoginTurnedAway, LoginFails, RetryDelayPasses, Release,
                CloseStarts, Close, CancelAll, DestroyTakes, DestroyTells, WaitedUntilIdle, userVars
  <2>2. ASSUME NEW t \in Tasks, Submit(t) \/ Call(t) PROVE UNCHANGED relay
    BY <2>2 DEF Submit, Call, CallerDrained, CallerEnsures, CallerChecks, CallerSeesLimit
  <2>3. ASSUME NEW k \in Legs,
               RunnerAcquires(k) \/ RunnerEnds(k) \/ RunnerStops(k) \/ Unwind(k) \/ Cancel(k)
        PROVE  UNCHANGED relay
    BY <2>3 DEF RunnerAcquires, RunnerEnds, RunnerStops, Unwind, RunnerAnswers, RunnerDrained,
                Cancel, Settle, userVars
  <2>4. SetLimit => UNCHANGED relay
    BY DEF SetLimit, userVars
  <2> QED
    BY <2>1, <2>2, <2>3, <2>4 DEF Next
<1> QED
  BY <1>3, <1>4, <1>5, <1>6 DEF Pair

(* Every step keeps the permits where they are used. *)
LEMMA PermitsStep ==
  ASSUME TypeOK, QueuedHere, AnswerInv, PermitsAreUsed, [Next]_vars
  PROVE  PermitsAreUsed'
<1> DEFINE Uses(l) == runner[l] = "running" \/ Leaving(l)
<1>1. CASE UNCHANGED vars
  <2>1. UNCHANGED <<permits, runner, caller, relay>>
    BY <1>1 DEF vars, userVars, runVars
  <2> QED
    BY <2>1 DEF PermitsAreUsed, Leaving, Accepted
<1> SUFFICES ASSUME Next PROVE PermitsAreUsed'
  BY <1>1
<1>2. ASSUME NEW l \in permits, l \in RelayLegs PROVE Accepted(l)'
  BY <1>2, AcceptedStays DEF PermitsAreUsed
<1>3. CASE UNCHANGED runner /\ permits' \subseteq permits
  BY <1>2, <1>3 DEF PermitsAreUsed, Leaving
<1>4. ASSUME NEW p \in Pools,
             Drain(p) \/ Grow(p) \/ Login(p) \/ RetryDelayPasses(p) \/ Release(p)
                \/ CloseStarts(p) \/ Close(p)
      PROVE  PermitsAreUsed'
  <2>1. CASE ~Drain(p)
    <3>1. UNCHANGED runner /\ permits' \subseteq permits
      BY <1>4, <2>1 DEF Grow, GrowLogin, GrowEnough, GrowCancelled, GrowNudged, GrowDrained,
           GrowLeaves, Login, LoginOk, LoginTurnedAway, LoginFails, RetryDelayPasses, Release,
           CloseStarts, Close, CancelAll, DestroyTakes, DestroyTells, WaitedUntilIdle, runVars
    <3> QED
      BY <1>3, <3>1
  <2>2. CASE Drain(p)
    <3>1. PICK l : l = Head(queue[p])
      OBVIOUS
    <3>2. /\ queue[p] # <<>> /\ runner' = [runner EXCEPT ![l] = "starting"]
          /\ UNCHANGED permits
      BY <2>2, <3>1 DEF Drain, CanDispatch, Dispatch
    <3>3. l \in Queued(p)
      BY <3>1, <3>2, ApartSequences DEF Queued, TypeOK, AnswerInv, QueuesApart
    <3>4. l \in Legs /\ runner[l] = "none"
      BY <3>3, QueuedWaits DEF Waits
    <3>5. l \in Tasks => l \notin permits
      BY <3>4 DEF PermitsAreUsed, Leaving
    <3> QED
      BY <1>2, <3>2, <3>4, <3>5 DEF PermitsAreUsed, Leaving, TypeOK
  <2> QED
    BY <2>1, <2>2
<1>5. ASSUME NEW t \in Tasks, Submit(t) \/ Call(t) PROVE PermitsAreUsed'
  <2>1. UNCHANGED <<runner, permits>>
    BY <1>5 DEF Submit, Call, CallerDrained, CallerEnsures, CallerChecks, CallerSeesLimit, runVars
  <2> QED
    BY <1>3, <2>1
<1>6. ASSUME NEW l \in Legs,
             RunnerAcquires(l) \/ RunnerEnds(l) \/ RunnerStops(l) \/ Unwind(l) \/ Cancel(l)
      PROVE  PermitsAreUsed'
  <2>1. CASE Cancel(l)
    <3>1. UNCHANGED runner /\ permits' \subseteq permits
      BY <2>1 DEF Cancel
    <3> QED
      BY <1>3, <3>1
  <2>2. CASE RunnerAcquires(l)
    <3>1. /\ permits' = permits \cup {l} /\ runner' = [runner EXCEPT ![l] = "running"]
          /\ l \in permits \/ l \in Tasks
      BY <2>2 DEF RunnerAcquires, RunnerGoes
    <3> QED
      BY <1>2, <3>1, PoolAssumption DEF PermitsAreUsed, Leaving, TypeOK
  <2>3. CASE RunnerEnds(l) \/ RunnerStops(l)
    <3>1. /\ permits' \subseteq permits
          /\ \E to \in {"leftClosed", "leftLive", "leftLost"} :
                runner' = [runner EXCEPT ![l] = to]
      BY <2>3 DEF RunnerEnds, RunnerStops, Settle
    <3> QED
      BY <1>2, <3>1 DEF PermitsAreUsed, Leaving, TypeOK
  <2>4. CASE RunnerAnswers(l)
    <3>1. permits' = permits \ {l} /\ \E to : runner' = [runner EXCEPT ![l] = to]
      BY <2>4 DEF RunnerAnswers, AfterRunning, RunnerGoes
    <3> QED
      BY <1>2, <3>1 DEF PermitsAreUsed, Leaving, TypeOK
  <2>5. CASE RunnerDrained(l)
    <3>1. /\ UNCHANGED permits /\ runner' = [runner EXCEPT ![l] = "gone"]
          /\ runner[l] \in {"drain", "replacing"}
      BY <2>5 DEF RunnerDrained, RunnerGoes, RunnerReplaced
    <3> QED
      BY <1>2, <3>1 DEF PermitsAreUsed, Leaving, TypeOK
  <2> QED
    BY <1>6, <2>1, <2>2, <2>3, <2>4, <2>5 DEF Unwind
<1>7. ASSUME NEW r \in Relays, RelayAsks(r) \/ Pair(r) PROVE PermitsAreUsed'
  <2>1. UNCHANGED runner
    BY <1>7 DEF RelayAsks, Pair, RelayGlances, RelayGrowsSource, RelayGrowsTarget, RelayAdmits,
                RelayDrained, RelayJoins, runVars
  <2>2. \/ UNCHANGED permits
        \/ permits' = permits \cup {SrcLeg[r], DstLeg[r]} /\ RelayGoes(r, "drainSrc")
    BY <1>7 DEF RelayAsks, Pair, RelayGlances, RelayGrowsSource, RelayGrowsTarget, RelayAdmits,
                RelayDrained, RelayJoins
  <2>3. CASE permits' = permits \cup {SrcLeg[r], DstLeg[r]} /\ RelayGoes(r, "drainSrc")
    <3>1. relay'[r] = "drainSrc"
      BY <2>3 DEF RelayGoes, TypeOK
    <3>2. \A l \in {SrcLeg[r], DstLeg[r]} : l \notin Tasks /\ Accepted(l)'
      BY <3>1, OwnLegs DEF Accepted
    <3> QED
      BY <1>2, <2>1, <2>3, <3>2 DEF PermitsAreUsed, Leaving
  <2> QED
    BY <1>3, <2>1, <2>2, <2>3
<1>8. SetLimit => UNCHANGED runner /\ permits' \subseteq permits
  BY DEF SetLimit, runVars
<1> QED
  BY <1>3, <1>4, <1>5, <1>6, <1>7, <1>8 DEF Next

(* Permits that go back give up a slot, or none. *)
LEMMA PermitsGoBack ==
  ASSUME TypeOK, permits' \subseteq permits, UNCHANGED <<limit, WaitingTasks>>
  PROVE  (\E cs \in SUBSET (Tasks \cup Relays) : Limiter!Release(cs))
            \/ UNCHANGED <<limit, Holders, WaitingTasks>>
<1>1. Holders' \subseteq Holders
  BY DEF Holders
<1>2. Holders \subseteq Tasks \cup Relays
  BY HoldersFinite
<1>3. CASE Holders' = Holders
  BY <1>3
<1>4. CASE Holders' # Holders
  <2>1. Limiter!Release(Holders \ Holders')
    BY <1>1, <1>4 DEF Limiter!Release, WaitingTasks
  <2> QED
    BY <1>2, <2>1
<1> QED
  BY <1>3, <1>4

(* A task that is not in the pool's hands holds no permit and asks for none. *)
LEMMA NotYetHolding ==
  ASSUME TypeOK, PermitsAreUsed, NEW t \in Tasks, runner[t] \in {"none", "starting"}
  PROVE  t \notin Holders /\ t \notin permits
<1>1. t \notin permits
  BY DEF PermitsAreUsed, Leaving
<1>2. ASSUME NEW l \in permits PROVE Admission(l) # t
  <2>1. l \in Tasks \/ l \in RelayLegs
    BY DEF TypeOK, Legs
  <2> QED
    BY <1>1, <2>1, HolderOf
<1> QED
  BY <1>1, <1>2 DEF Holders

(* Each step of the pools is a step of their contract with the limiter, or   *)
(* one the limiter does not see.                                             *)
LEMMA PoolsKeepTheContract ==
  ASSUME TypeOK, QueuedHere, AnswerInv, PermitsAreUsed, [Next]_vars
  PROVE  [Limiter!Next]_(Limiter!semVars)
<1> DEFINE Stays == UNCHANGED <<limit, Holders, WaitingTasks>>
           Back == \E cs \in SUBSET (Tasks \cup Relays) : Limiter!Release(cs)
<1> USE DEF WaitingTasks
<1>0. Stays \/ Back => Limiter!Next \/ UNCHANGED Limiter!semVars
  BY DEF Limiter!Next, Limiter!semVars
<1>1. UNCHANGED <<limit, permits, runner>> => Stays
  BY DEF Holders
<1>2. HasRoom => Limiter!HasRoom
  <2>1. Limiter!Cardinality(Holders) = Cardinality(Holders)
    BY Zenon DEF Limiter!Cardinality, Cardinality
  <2> QED
    BY <2>1 DEF HasRoom, Limiter!HasRoom
<1>3. UNCHANGED vars => Stays
  BY <1>1 DEF vars, runVars
<1>4. ASSUME NEW p \in Pools,
             Drain(p) \/ Grow(p) \/ Login(p) \/ RetryDelayPasses(p) \/ Release(p)
                \/ CloseStarts(p) \/ Close(p)
      PROVE  Limiter!Next \/ UNCHANGED Limiter!semVars
  <2>1. CASE ~Drain(p)
    <3>1. UNCHANGED <<limit, runner>> /\ permits' \subseteq permits
      BY <1>4, <2>1 DEF Grow, GrowLogin, GrowEnough, GrowCancelled, GrowNudged, GrowDrained,
           GrowLeaves, Login, LoginOk, LoginTurnedAway, LoginFails, RetryDelayPasses, Release,
           CloseStarts, Close, CancelAll, DestroyTakes, DestroyTells, WaitedUntilIdle, runVars
    <3> QED
      BY <1>0, <3>1, PermitsGoBack
  <2>2. CASE Drain(p)
    <3>1. PICK l : l = Head(queue[p])
      OBVIOUS
    <3>2. /\ queue[p] # <<>> /\ runner' = [runner EXCEPT ![l] = "starting"]
          /\ UNCHANGED <<limit, permits>>
      BY <2>2, <3>1 DEF Drain, CanDispatch, Dispatch
    <3>3. l \in Queued(p)
      BY <3>1, <3>2, ApartSequences DEF Queued, TypeOK, AnswerInv, QueuesApart
    <3>4. l \in Legs /\ runner[l] = "none"
      BY <3>3, QueuedWaits DEF Waits
    <3>5. UNCHANGED Holders
      BY <3>2 DEF Holders
    <3>6. CASE l \in Tasks
      <4>1. WaitingTasks' = WaitingTasks \cup {l}
        BY <3>2, <3>4, <3>6 DEF TypeOK
      <4>2. l \notin Holders \cup WaitingTasks
        BY <3>4, <3>6, NotYetHolding
      <4>3. Limiter!Ask(l)
        BY <3>2, <3>5, <4>1, <4>2 DEF Limiter!Ask
      <4> QED
        BY <3>6, <4>3 DEF Limiter!Next
    <3>7. CASE l \notin Tasks
      BY <1>0, <3>2, <3>5, <3>7 DEF TypeOK
    <3> QED
      BY <3>6, <3>7
  <2> QED
    BY <2>1, <2>2
<1>5. ASSUME NEW t \in Tasks, Submit(t) \/ Call(t) PROVE Stays
  BY <1>1, <1>5 DEF Submit, Call, CallerDrained, CallerEnsures, CallerChecks, CallerSeesLimit,
                    runVars
<1>6. ASSUME NEW l \in Legs,
             RunnerAcquires(l) \/ RunnerEnds(l) \/ RunnerStops(l) \/ Unwind(l) \/ Cancel(l)
      PROVE  Limiter!Next \/ UNCHANGED Limiter!semVars
  <2>1. CASE RunnerAcquires(l) /\ l \in Tasks
    <3>1. /\ permits' = permits \cup {l} /\ runner' = [runner EXCEPT ![l] = "running"]
          /\ runner[l] = "starting" /\ UNCHANGED limit /\ (l \in permits \/ HasRoom)
      BY <2>1 DEF RunnerAcquires, RunnerGoes
    <3>2. l \notin permits
      BY <2>1, <3>1, NotYetHolding
    <3>3. Holders' = Holders \cup {l}
      BY <2>1, <3>1, HolderOf DEF Holders
    <3>4. WaitingTasks' = WaitingTasks \ {l} /\ l \in WaitingTasks
      BY <2>1, <3>1 DEF TypeOK
    <3>5. Limiter!Grant(l)
      BY <1>2, <3>1, <3>2, <3>3, <3>4 DEF Limiter!Grant
    <3> QED
      BY <2>1, <3>5 DEF Limiter!Next, Limiter!GrantSome
  <2>2. CASE RunnerAcquires(l) /\ l \notin Tasks
    <3>1. /\ permits' = permits \cup {l} /\ runner' = [runner EXCEPT ![l] = "running"]
          /\ UNCHANGED limit /\ l \in permits
      BY <2>2 DEF RunnerAcquires, RunnerGoes
    <3>2. permits' = permits
      BY <3>1
    <3>3. UNCHANGED <<Holders, WaitingTasks>>
      BY <2>2, <3>1, <3>2 DEF Holders, TypeOK
    <3> QED
      BY <1>0, <3>1, <3>3
  <2>3. CASE RunnerStops(l) /\ l \in Tasks /\ runner[l] = "starting"
    <3>1. /\ UNCHANGED limit /\ permits' = permits \ {l}
          /\ \E to \in {"leftClosed", "leftLive", "leftLost"} :
                runner' = [runner EXCEPT ![l] = to]
      BY <2>3 DEF RunnerStops, Settle
    <3>2. permits' = permits
      BY <2>3, <3>1, NotYetHolding
    <3>3. UNCHANGED Holders
      BY <3>2 DEF Holders
    <3>4. WaitingTasks' = WaitingTasks \ {l} /\ l \in WaitingTasks
      BY <2>3, <3>1 DEF TypeOK
    <3>5. Limiter!GiveUp(l)
      BY <3>1, <3>3, <3>4 DEF Limiter!GiveUp
    <3> QED
      BY <2>3, <3>5 DEF Limiter!Next
  <2>4. CASE \/ RunnerEnds(l) \/ Unwind(l) \/ Cancel(l)
             \/ RunnerStops(l) /\ ~(l \in Tasks /\ runner[l] = "starting")
    <3>1. UNCHANGED limit /\ permits' \subseteq permits
      BY <2>4 DEF RunnerEnds, RunnerStops, Settle, Unwind, RunnerAnswers, RunnerDrained, Cancel
    <3>2. \/ UNCHANGED runner
          \/ /\ runner[l] # "starting" \/ l \notin Tasks
             /\ \E to \in RunnerStates \ {"starting"} : runner' = [runner EXCEPT ![l] = to]
      BY <2>4 DEF RunnerEnds, RunnerStops, Settle, Unwind, RunnerAnswers, AfterRunning,
                  RunnerDrained, RunnerGoes, RunnerReplaced, Cancel, RunnerStates
    <3>3. \A t \in Tasks : runner'[t] = "starting" <=> runner[t] = "starting"
      BY <3>2, LegTypes DEF TypeOK
    <3>4. UNCHANGED WaitingTasks
      BY <3>3
    <3> QED
      BY <1>0, <3>1, <3>4, PermitsGoBack
  <2> QED
    BY <1>6, <2>1, <2>2, <2>3, <2>4
<1>7. ASSUME NEW r \in Relays, RelayAsks(r) \/ Pair(r)
      PROVE  Limiter!Next \/ UNCHANGED Limiter!semVars
  <2>1. UNCHANGED <<limit, runner>>
    BY <1>7 DEF RelayAsks, Pair, RelayGlances, RelayGrowsSource, RelayGrowsTarget, RelayAdmits,
                RelayDrained, RelayJoins, runVars
  <2>2. CASE UNCHANGED permits
    BY <1>0, <1>1, <2>1, <2>2
  <2>3. CASE permits' # permits
    <3>1. /\ permits' = permits \cup {SrcLeg[r], DstLeg[r]} /\ HasRoom
          /\ relay[r] \in {"growingSrc", "growingDst"}
      BY <1>7, <2>3 DEF RelayAsks, Pair, RelayGlances, RelayGrowsSource, RelayGrowsTarget,
                        RelayAdmits, RelayDrained, RelayJoins, Admitted
    <3>2. Admission(SrcLeg[r]) = r /\ Admission(DstLeg[r]) = r
      BY OwnLegs DEF Admission
    <3>3. Holders' = Holders \cup {r}
      BY <3>1, <3>2 DEF Holders
    <3>4. ASSUME NEW l \in permits PROVE Admission(l) # r
      <4>1. l \in Tasks \/ l \in RelayLegs
        BY DEF TypeOK, Legs
      <4>2. CASE l \in RelayLegs
        <5>1. Accepted(l) /\ Admission(l) = RelayOf(l) /\ l \notin Tasks
          BY <4>2, HolderOf DEF PermitsAreUsed
        <5> QED
          BY <3>1, <5>1 DEF Accepted
      <4> QED
        BY <4>1, <4>2, HolderOf
    <3>5. r \notin Holders \cup WaitingTasks
      BY <3>4, HolderOf DEF Holders
    <3>6. Limiter!GrantNow(r)
      BY <1>2, <2>1, <3>1, <3>3, <3>5 DEF Limiter!GrantNow
    <3> QED
      BY <3>6 DEF Limiter!Next
  <2> QED
    BY <2>2, <2>3
<1>8. SetLimit => Limiter!ChangeLimit
  BY DEF SetLimit, runVars, Holders, Limiter!ChangeLimit
<1> QED
  BY <1>0, <1>3, <1>4, <1>5, <1>6, <1>7, <1>8 DEF Next, Limiter!Next

(* transfer_pool.rs run_pair, drain and spawn_runner with                    *)
(* concurrency_limiter.rs: the pools keep to the limiter's contract.  A      *)
(* transfer asks once before it holds a slot and starts only when there is   *)
(* room; a relay takes one slot for both legs, without waiting, while there  *)
(* is room; every other step gives slots back or touches none.               *)
THEOREM PoolsUseTheLimiter == Spec => UsesLimiter
<1>1. Init => PermitsAreUsed
  BY DEF Init, PermitsAreUsed
<1>2. Spec => []PermitsAreUsed
  BY <1>1, PermitsStep, PoolTypes, ActiveIsRunningInvariant, AnswerInvariant, PTL
     DEF Spec, ActiveIsRunning
<1>3. Init => Limiter!Init
  <2> SUFFICES ASSUME Init PROVE Limiter!Init
    OBVIOUS
  <2>1. Holders = {} /\ \A t \in Tasks : runner[t] # "starting"
    BY LegTypes DEF Init, Holders
  <2> QED
    BY <2>1 DEF Init, Limiter!Init
<1> QED
  BY <1>2, <1>3, PoolsKeepTheContract, PoolTypes, ActiveIsRunningInvariant, AnswerInvariant, PTL
     DEF Spec, UsesLimiter, Limiter!Spec, ActiveIsRunning
=============================================================================
