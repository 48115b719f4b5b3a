--------------------------- MODULE TransferPool ---------------------------
(***************************************************************************)
(* A connection's transfer pool (src-tauri/src/transfer/transfer_pool.rs): *)
(* logged-in workers, a queue of transfers, the growth that logs further   *)
(* workers in, the release that logs idle ones out, relays that need a     *)
(* worker of two pools at once, and the closing of the pool.  Pools share  *)
(* one limiter, used here through the contract of module Semaphore, which  *)
(* ConcurrencyLimiter implements.                                          *)
(*                                                                         *)
(* A step is one critical section of the pool's mutex, or the code between *)
(* two awaits that touches nothing shared.  Spawned tasks (a runner per    *)
(* dispatched transfer, a grower per request for workers) have program     *)
(* counters of their own.                                                  *)
(***************************************************************************)
EXTENDS Naturals, FiniteSets, SequencesExt

CONSTANTS
    Pools,          \* the open connections' pools
    Tasks,          \* transfers given to run_notified
    Relays,         \* relays given to run_pair
    SrcLeg, DstLeg, \* the two tasks of a relay
    PoolOf,         \* the pool each task or leg is given to
    Size,           \* PoolSize: Capped(Size), or Unlimited when 0
    Limits,         \* the global limits; 0 is unlimited
    CancelledCap,   \* CANCELLED_CAP
    MayStop,        \* bound: the tasks and legs the user may stop
    MayClose,       \* bound: the pools whose session may close
    MayRefuse       \* bound: the pools whose server may refuse a login

RelayLegs == {SrcLeg[r] : r \in Relays} \cup {DstLeg[r] : r \in Relays}
Legs == Tasks \cup RelayLegs

ASSUME PoolAssumption ==
    /\ IsFiniteSet(Tasks) /\ IsFiniteSet(Relays) /\ IsFiniteSet(Pools)
    /\ DOMAIN SrcLeg = Relays /\ DOMAIN DstLeg = Relays
    /\ Tasks \cap RelayLegs = {} /\ Tasks \cap Relays = {}
    /\ \A r \in Relays, q \in Relays :
        /\ SrcLeg[r] # DstLeg[q]
        /\ r # q => SrcLeg[r] # SrcLeg[q] /\ DstLeg[r] # DstLeg[q]
    /\ PoolOf \in [Legs -> Pools]
    /\ Size \in Nat
    /\ Limits \subseteq Nat /\ Limits # {}
    /\ CancelledCap \in Nat \ {0}
    /\ MayStop \subseteq Legs
    /\ MayClose \subseteq Pools /\ MayRefuse \subseteq Pools

RelayOf(l) == CHOOSE r \in Relays : l \in {SrcLeg[r], DstLeg[r]}
(* A relay is one logical transfer: both legs share its permit. *)
Admission(l) == IF l \in Tasks THEN l ELSE RelayOf(l)
SrcPool(r) == PoolOf[SrcLeg[r]]
DstPool(r) == PoolOf[DstLeg[r]]
SamePool(r) == SrcPool(r) = DstPool(r)
Partner(l) == IF l = SrcLeg[RelayOf(l)] THEN DstLeg[RelayOf(l)] ELSE SrcLeg[RelayOf(l)]

VARIABLES
    limit,              \* the limiter's limit
    permits,            \* the legs that own a clone of a Permit
    \* PoolState
    workers,            \* workers[p]: the number of idle logins
    queue,              \* queue[p]
    active,             \* active[p]: the keys of the active map
    cancelled,          \* cancelled_ids, in the order of cancelled_order
    retryGrowthAfter,   \* "none", "cooling" (not yet reached) or "over"
    \* the rest of TransferPool
    closing,            \* growth_cancel, destroyed and the close's progress
    doomed,             \* what destroy took out of the state and has not told
    releases,           \* release_when_idle tasks that know this generation
    growingGate,        \* growing_gate: its holder, then those waiting for it
    growth,             \* the locals of the grower that holds the gate
    growthChanged,      \* growth_changed's stored permit
    pairTurn,           \* pair_turn: its holder, then those waiting for it
    \* one per transfer
    caller,             \* run_notified, for a task
    seen,               \* the limit run_notified compares with
    relay,              \* run_pair, for a relay
    runner,             \* the spawned runner of a dispatched leg
    token,              \* the leg's CancellationToken is cancelled
    result,             \* the result the runner will respond with
    answer,             \* what the leg's oneshot has carried
    stopped             \* the legs cancel() was called for

stateVars == <<workers, queue, active, cancelled, retryGrowthAfter>>
closeVars == <<closing, doomed>>
growVars == <<growingGate, growth, growthChanged>>
userVars == <<caller, seen, relay, pairTurn>>
runVars == <<runner, token, result>>
vars == <<limit, permits, stateVars, closeVars, releases, growVars, userVars,
          runVars, answer, stopped>>
-----------------------------------------------------------------------------
Holders == {Admission(l) : l \in permits}
HasRoom == limit = 0 \/ Cardinality(Holders) < limit

growthCancelled(p) == closing[p] # "open"
destroyed(p) == closing[p] \notin {"open", "closing"}

Queued(p) == ToSet(queue[p])

Satisfied(current, needed) ==
    current >= (IF Size # 0 /\ Size < needed THEN Size ELSE needed)

(* Who asks for workers: a task's run_notified, a runner replacing a lost   *)
(* worker, or a relay.                                                      *)
CallGrower(t) == <<"call", t>>
ReplaceGrower(l) == <<"replace", l>>
RelayGrower(r) == <<"relay", r>>

(* Mutant: a relay within one server asks for one worker as well. *)
NeedOne(r) == 1

Need(r) == IF SamePool(r) THEN 2 ELSE 1
Spare(p) ==
    LET g == Head(growingGate[p])
    IN  IF g[1] = "relay" THEN Need(g[2]) ELSE 0

FreshGrowth == [at |-> "check", connecting |-> 0, failed |-> FALSE, askedOut |-> FALSE]

(* Mutant: a pending login does not reserve capacity. *)
TotalWithoutPending(p) == workers[p] + Cardinality(active[p])

Total(p) == workers[p] + Cardinality(active[p]) + growth[p].connecting

(* Mutant: a busy worker counts as one for the queue. *)
NeededForQueue(p) == Len(queue[p]) + Spare(p)

Needed(p) == Len(queue[p]) + Cardinality(active[p]) + Spare(p)

(* The condition of the growing loop. *)
NeedMore(p) ==
    /\ ~destroyed(p)
    /\ ~(Total(p) > 0 /\ retryGrowthAfter[p] = "cooling")
    /\ ~growth[p].failed
    /\ ~Satisfied(Total(p), Needed(p))
    /\ limit = 0 \/ Total(p) < limit \/ Total(p) < Spare(p)
    /\ retryGrowthAfter[p] = "none" \/ growth[p].connecting = 0

(* Whether a relay leg could take one of need idle workers now. *)
LegReady(p, l, need) ==
    CASE destroyed(p) -> "closed"
      [] ~destroyed(p) /\ Contains(cancelled[p], l) -> "cancelled"
      [] OTHER ->
        IF queue[p] # <<>> THEN "notyet"
        ELSE IF workers[p] >= need THEN "ready"
        ELSE IF /\ active[p] = {}
                /\ \/ workers[p] > 0 /\ retryGrowthAfter[p] = "cooling"
                   \/ Satisfied(workers[p], need)
             THEN "refused"
             ELSE "notyet"

LegErrors == {"closed", "cancelled", "refused"}
-----------------------------------------------------------------------------
Init ==
    /\ limit \in Limits
    /\ permits = {}
    /\ workers = [p \in Pools |-> 0]
    /\ queue = [p \in Pools |-> <<>>]
    /\ active = [p \in Pools |-> {}]
    /\ cancelled = [p \in Pools |-> <<>>]
    /\ retryGrowthAfter = [p \in Pools |-> "none"]
    /\ closing = [p \in Pools |-> "open"]
    /\ doomed = [p \in Pools |-> {}]
    /\ releases = [p \in Pools |-> 0]
    /\ growingGate = [p \in Pools |-> <<>>]
    /\ growth = [p \in Pools |-> FreshGrowth]
    /\ growthChanged = [p \in Pools |-> FALSE]
    /\ pairTurn = [p \in Pools |-> <<>>]
    /\ caller = [t \in Tasks |-> "new"]
    /\ seen = [t \in Tasks |-> 0]
    /\ relay = [r \in Relays |-> "new"]
    /\ runner = [l \in Legs |-> "none"]
    /\ token = [l \in Legs |-> FALSE]
    /\ result = [l \in Legs |-> "none"]
    /\ answer = [l \in Legs |-> "none"]
    /\ stopped = {}

(* ensure_workers_for: notify_one, then a detached task that queues for the *)
(* gate.  The caller waits for it but may stop waiting.                     *)
EnsureWorkers(p, g) ==
    /\ growthChanged' = [growthChanged EXCEPT ![p] = TRUE]
    /\ growingGate' = [growingGate EXCEPT ![p] = Append(@, g)]
    /\ UNCHANGED growth

Grown(p, g) == ~Contains(growingGate[p], g)

(* Answers a set of legs.  A task's caller that stands in a select! on its  *)
(* oneshot returns, touching nothing else.                                  *)
SelectPoints == {"growing", "watch", "ensureAgain", "growingAgain"}
Answer(ls, why) ==
    /\ answer' = [l \in Legs |-> IF l \in ls THEN why ELSE answer[l]]
    /\ caller' = [t \in Tasks |-> IF t \in ls /\ caller[t] \in SelectPoints
                                  THEN "done" ELSE caller[t]]
    /\ seen' = [t \in Tasks |-> IF t \in ls THEN 0 ELSE seen[t]]
-----------------------------------------------------------------------------
(* drain: a worker and the queue's head become an active, spawned runner.   *)
(* The generation moves on, so a release started earlier will do nothing.   *)
CanDispatch(p) == queue[p] # <<>> /\ workers[p] > 0

(* Mutant: the head is run without being taken off the queue. *)
DispatchKeepsHead(p) ==
    LET l == Head(queue[p])
    IN  /\ workers' = [workers EXCEPT ![p] = @ - 1]
        /\ active' = [active EXCEPT ![p] = @ \cup {l}]
        /\ runner' = [runner EXCEPT ![l] = "starting"]
        /\ releases' = [releases EXCEPT ![p] = 0]
        /\ UNCHANGED queue

Dispatch(p) ==
    LET l == Head(queue[p])
    IN  /\ workers' = [workers EXCEPT ![p] = @ - 1]
        /\ queue' = [queue EXCEPT ![p] = Tail(@)]
        /\ active' = [active EXCEPT ![p] = @ \cup {l}]
        /\ runner' = [runner EXCEPT ![l] = "starting"]
        /\ releases' = [releases EXCEPT ![p] = 0]

(* The growth these waited for is over; they drain next. *)
CallerRegrown(t) == caller[t] = "growingAgain" /\ Grown(PoolOf[t], CallGrower(t))
RunnerReplaced(l) == runner[l] = "replacing" /\ Grown(PoolOf[l], ReplaceGrower(l))

Draining(p) ==
    \/ \E t \in Tasks : /\ PoolOf[t] = p
                        /\ \/ caller[t] \in {"drain", "redrain"}
                           \/ CallerRegrown(t)
    \/ \E l \in Legs : PoolOf[l] = p /\ (runner[l] = "drain" \/ RunnerReplaced(l))
    \/ \E r \in Relays : \/ SrcPool(r) = p /\ relay[r] = "drainSrc"
                         \/ DstPool(r) = p /\ relay[r] = "drainDst"
    \/ growth[p].at = "drain"

(* Whoever is inside drain goes on while there is a pair to dispatch. *)
Drain(p) ==
    /\ Draining(p)
    /\ CanDispatch(p)
    /\ Dispatch(p)
    /\ UNCHANGED <<limit, permits, cancelled, retryGrowthAfter, closeVars, growVars,
                   userVars, token, result, answer, stopped>>
-----------------------------------------------------------------------------
(* run_notified *)

Submit(t) ==
    LET p == PoolOf[t]
        Refuse(why) == /\ caller' = [caller EXCEPT ![t] = "done"]
                       /\ answer' = [answer EXCEPT ![t] = why]
    IN  /\ caller[t] = "new"
        /\ \/ /\ destroyed(p)
              /\ Refuse("closed")
              /\ UNCHANGED <<cancelled, queue>>
           \/ /\ ~destroyed(p)
              /\ \E i \in DOMAIN cancelled[p] :
                    /\ cancelled[p][i] = t
                    /\ cancelled' = [cancelled EXCEPT ![p] = RemoveAt(@, i)]
              /\ Refuse("cancelled")
              /\ UNCHANGED queue
           \/ /\ ~destroyed(p)
              /\ ~Contains(cancelled[p], t)
              /\ queue' = [queue EXCEPT ![p] = Append(@, t)]
              /\ caller' = [caller EXCEPT ![t] = "drain"]
              /\ UNCHANGED <<cancelled, answer>>
        /\ UNCHANGED <<limit, permits, workers, active, retryGrowthAfter, closeVars,
                       releases, growVars, seen, relay, pairTurn, runVars, stopped>>

CallerGoes(t, from, to) ==
    /\ caller[t] = from
    /\ caller' = [caller EXCEPT ![t] = to]

(* drain finds nothing more.  An answer already there is seen by the next   *)
(* select!, unless that one happens to poll the growth first.               *)
CallerDrained(t) ==
    /\ ~CanDispatch(PoolOf[t])
    /\ \/ CallerGoes(t, "drain", "ensure") /\ UNCHANGED seen
       \/ /\ answer[t] = "none"
          /\ \/ CallerGoes(t, "redrain", "watch")
             \/ CallerRegrown(t) /\ CallerGoes(t, "growingAgain", "watch")
          /\ seen' = [seen EXCEPT ![t] = limit]
       \/ /\ answer[t] # "none"
          /\ CallerGoes(t, "drain", "done") \/ CallerGoes(t, "redrain", "done")
          /\ UNCHANGED seen
    /\ UNCHANGED <<limit, permits, stateVars, closeVars, releases, growVars, relay,
                   pairTurn, runVars, answer, stopped>>

CallerEnsures(t) ==
    /\ \/ answer[t] = "none" /\ CallerGoes(t, "ensure", "growing")
       \/ answer[t] # "none" /\ CallerGoes(t, "ensure", "done")
       \/ CallerGoes(t, "ensureAgain", "growingAgain")
    /\ EnsureWorkers(PoolOf[t], CallGrower(t))
    /\ UNCHANGED <<limit, permits, stateVars, closeVars, releases, seen, relay,
                   pairTurn, runVars, answer, stopped>>

(* After the growth: a task still queued with nobody to run it fails. *)
CallerChecks(t) ==
    LET p == PoolOf[t]
        Stranded == workers[p] = 0 /\ active[p] = {} /\ Contains(queue[p], t)
    IN  /\ Grown(p, CallGrower(t))
        /\ \/ /\ Stranded
              /\ CallerGoes(t, "growing", "done")
              /\ \E i \in DOMAIN queue[p] :
                    /\ queue[p][i] = t
                    /\ queue' = [queue EXCEPT ![p] = RemoveAt(@, i)]
              /\ answer' = [answer EXCEPT ![t] = "unconnected"]
           \/ /\ ~Stranded
              /\ CallerGoes(t, "growing", "redrain")
              /\ UNCHANGED <<queue, answer>>
        /\ UNCHANGED <<limit, permits, workers, active, cancelled, retryGrowthAfter,
                       closeVars, releases, growVars, seen, relay, pairTurn, runVars,
                       stopped>>

(* The limiter changed and the limit is not the one read before. *)
CallerSeesLimit(t) ==
    /\ limit # seen[t]
    /\ CallerGoes(t, "watch", "ensureAgain")
    /\ seen' = [seen EXCEPT ![t] = 0]
    /\ UNCHANGED <<limit, permits, stateVars, closeVars, releases, growVars, relay,
                   pairTurn, runVars, answer, stopped>>
-----------------------------------------------------------------------------
(* grow_workers, run by the holder of the gate *)

Growing(p, at) == growingGate[p] # <<>> /\ growth[p].at = at

(* Mutant: the transfers are answered where they stand. *)
AnswerQueueInPlace(p, why) == Answer(Queued(p), why) /\ UNCHANGED queue

(* Answers every queued transfer of p. *)
AnswerQueue(p, why) ==
    /\ Answer(Queued(p), why)
    /\ queue' = [queue EXCEPT ![p] = <<>>]

GrowLogin(p) ==
    /\ Growing(p, "check")
    /\ NeedMore(p)
    /\ growth' = [growth EXCEPT ![p].connecting = @ + 1]
    /\ UNCHANGED <<limit, permits, stateVars, closeVars, releases, growingGate,
                   growthChanged, userVars, runVars, answer, stopped>>

GrowEnough(p) ==
    /\ Growing(p, "check")
    /\ ~NeedMore(p)
    /\ growth' = [growth EXCEPT ![p].at =
                    IF growth[p].connecting = 0 THEN "leave" ELSE "select"]
    /\ UNCHANGED <<limit, permits, stateVars, closeVars, releases, growingGate,
                   growthChanged, userVars, runVars, answer, stopped>>

(* select!: the pool is closing, so the pending logins are shut down. *)
GrowCancelled(p) ==
    /\ Growing(p, "select")
    /\ growthCancelled(p)
    /\ growth' = [growth EXCEPT ![p].at = "leave", ![p].connecting = 0]
    /\ UNCHANGED <<limit, permits, stateVars, closeVars, releases, growingGate,
                   growthChanged, userVars, runVars, answer, stopped>>

GrowNudged(p) ==
    /\ Growing(p, "select")
    /\ growthChanged[p]
    /\ growthChanged' = [growthChanged EXCEPT ![p] = FALSE]
    /\ growth' = [growth EXCEPT ![p].at = "check"]
    /\ UNCHANGED <<limit, permits, stateVars, closeVars, releases, growingGate,
                   userVars, runVars, answer, stopped>>

(* Mutant: a login that arrives after the destroy joins the workers. *)
LoginOkUnchecked(p) ==
    /\ Growing(p, "select")
    /\ growth' = [growth EXCEPT ![p].at = IF Spare(p) = 0 THEN "drain" ELSE "check",
                                ![p].connecting = @ - 1]
    /\ workers' = [workers EXCEPT ![p] = @ + 1]
    /\ UNCHANGED <<limit, permits, queue, active, cancelled, retryGrowthAfter, closeVars,
                   releases, growingGate, growthChanged, userVars, runVars, answer, stopped>>

(* A login arrives.  The closing may have begun after the select! looked,   *)
(* so it is not in the guard; a destroyed pool turns the login away and     *)
(* drops the others.  A worker grown for a relay is not offered to drain.   *)
LoginOk(p) ==
    /\ Growing(p, "select")
    /\ IF destroyed(p)
       THEN /\ growth' = [growth EXCEPT ![p].at = "leave", ![p].connecting = 0]
            /\ UNCHANGED workers
       ELSE /\ growth' = [growth EXCEPT ![p].at = IF Spare(p) = 0 THEN "drain" ELSE "check",
                                        ![p].connecting = @ - 1]
            /\ workers' = [workers EXCEPT ![p] = @ + 1]
    /\ UNCHANGED <<limit, permits, queue, active, cancelled, retryGrowthAfter, closeVars,
                   releases, growingGate, growthChanged, userVars, runVars, answer, stopped>>

(* Turned away for the user limit, the first time: idle pools are asked to  *)
(* log out (their releases run early, which Release allows at any time).    *)
LoginTurnedAway(p) ==
    /\ p \in MayRefuse
    /\ Growing(p, "select")
    /\ ~growth[p].askedOut
    /\ growth' = [growth EXCEPT ![p].at = "check", ![p].connecting = @ - 1,
                                ![p].askedOut = TRUE]
    /\ UNCHANGED <<limit, permits, stateVars, closeVars, releases, growingGate,
                   growthChanged, userVars, runVars, answer, stopped>>

LoginFails(p) ==
    /\ p \in MayRefuse
    /\ Growing(p, "select")
    /\ retryGrowthAfter' = [retryGrowthAfter EXCEPT ![p] = "cooling"]
    /\ growth' = [growth EXCEPT ![p].at = "check", ![p].connecting = @ - 1,
                                ![p].failed = TRUE]
    /\ UNCHANGED <<limit, permits, workers, queue, active, cancelled, closeVars, releases,
                   growingGate, growthChanged, userVars, runVars, answer, stopped>>

GrowDrained(p) ==
    /\ Growing(p, "drain")
    /\ ~CanDispatch(p)
    /\ growth' = [growth EXCEPT ![p].at = "check"]
    /\ UNCHANGED <<limit, permits, stateVars, closeVars, releases, growingGate,
                   growthChanged, userVars, runVars, answer, stopped>>

(* The last error answers the queue if nothing is left to run it. *)
GrowLeaves(p) ==
    /\ Growing(p, "leave")
    /\ IF growth[p].failed /\ ~destroyed(p) /\ workers[p] = 0 /\ active[p] = {}
       THEN AnswerQueue(p, "refused")
       ELSE UNCHANGED <<queue, answer, caller, seen>>
    /\ growingGate' = [growingGate EXCEPT ![p] = Tail(@)]
    /\ growth' = [growth EXCEPT ![p] = FreshGrowth]
    /\ UNCHANGED <<limit, permits, workers, active, cancelled, retryGrowthAfter, closeVars,
                   releases, growthChanged, relay, pairTurn, runVars, stopped>>

(* GROWTH_RETRY_DELAY passes. *)
RetryDelayPasses(p) ==
    /\ retryGrowthAfter[p] = "cooling"
    /\ retryGrowthAfter' = [retryGrowthAfter EXCEPT ![p] = "over"]
    /\ UNCHANGED <<limit, permits, workers, queue, active, cancelled, closeVars, releases,
                   growVars, userVars, runVars, answer, stopped>>
-----------------------------------------------------------------------------
(* The runner of a dispatched leg *)

RunnerGoes(l, from, to) ==
    /\ runner[l] = from
    /\ runner' = [runner EXCEPT ![l] = to]

(* The permit the relay gave, or the limiter's acquire; on_dispatch.  The   *)
(* token may be cancelled after the select! looked at it.                   *)
RunnerAcquires(l) ==
    /\ l \in permits \/ (l \in Tasks /\ HasRoom)
    /\ RunnerGoes(l, "starting", "running")
    /\ permits' = permits \cup {l}
    /\ UNCHANGED <<limit, stateVars, closeVars, releases, growVars, userVars, token,
                   result, answer, stopped>>

(* The one critical section every runner ends in: off the active map, and   *)
(* the worker back if it is alive and the pool is open.                     *)
Settle(l, alive) ==
    LET p == PoolOf[l]
    IN  /\ active' = [active EXCEPT ![p] = @ \ {l}]
        /\ workers' = IF alive /\ ~destroyed(p) THEN [workers EXCEPT ![p] = @ + 1]
                                                ELSE workers
        /\ runner' = [runner EXCEPT ![l] = IF destroyed(p) THEN "leftClosed"
                                           ELSE IF alive THEN "leftLive" ELSE "leftLost"]
        /\ UNCHANGED <<limit, queue, cancelled, retryGrowthAfter, closeVars, releases,
                       growVars, userVars, token, answer, stopped>>

(* The transfer itself ends, with its connection alive or lost.  A cancel   *)
(* that comes after the runner looked at the token changes nothing.         *)
RunnerEnds(l) ==
    /\ runner[l] = "running"
    /\ \E alive \in BOOLEAN : Settle(l, alive)
    /\ result' = [result EXCEPT ![l] = "done"]
    /\ UNCHANGED permits

(* The token is seen: the backend is disconnected and dropped.  Before the  *)
(* start, the permit goes with the future that owned it.                    *)
RunnerStops(l) ==
    /\ token[l]
    /\ runner[l] \in {"starting", "running"}
    /\ Settle(l, FALSE)
    /\ permits' = IF runner[l] = "starting" THEN permits \ {l} ELSE permits
    /\ result' = [result EXCEPT ![l] = "cancelled"]

(* Mutant: a lost worker is not replaced. *)
AfterRunningNoReplace(l) ==
    /\ \/ RunnerGoes(l, "leftClosed", "gone")
       \/ RunnerGoes(l, "leftLive", "drain")
       \/ RunnerGoes(l, "leftLost", "gone")
    /\ UNCHANGED growVars

(* A lost worker is replaced by a task of its own, which waits for the      *)
(* growth and drains.                                                       *)
AfterRunning(l) ==
    \/ /\ RunnerGoes(l, "leftClosed", "gone") \/ RunnerGoes(l, "leftLive", "drain")
       /\ UNCHANGED growVars
    \/ /\ RunnerGoes(l, "leftLost", "replacing")
       /\ EnsureWorkers(PoolOf[l], ReplaceGrower(l))

(* The permit is dropped, then the caller gets its answer. *)
RunnerAnswers(l) ==
    /\ AfterRunning(l)
    /\ permits' = permits \ {l}
    /\ Answer({l}, result[l])
    /\ UNCHANGED <<limit, stateVars, closeVars, releases, relay, pairTurn, token, result,
                   stopped>>

(* drain finds nothing more; release_when_idle starts with the generation   *)
(* of this moment.                                                          *)
RunnerDrained(l) ==
    LET p == PoolOf[l]
    IN  /\ ~CanDispatch(p)
        /\ \/ /\ RunnerGoes(l, "drain", "gone")
              /\ releases' = [releases EXCEPT ![p] = @ + 1]
           \/ /\ RunnerReplaced(l) /\ RunnerGoes(l, "replacing", "gone")
              /\ UNCHANGED releases
        /\ UNCHANGED <<limit, permits, stateVars, closeVars, growVars, userVars, token,
                       result, answer, stopped>>

(* Mutant: the release looks at the active transfers only. *)
ReleaseIgnoresQueue(p) ==
    /\ releases[p] > 0
    /\ releases' = [releases EXCEPT ![p] = @ - 1]
    /\ workers' = IF ~destroyed(p) /\ active[p] = {}
                  THEN [workers EXCEPT ![p] = 0] ELSE workers
    /\ UNCHANGED <<limit, permits, queue, active, cancelled, retryGrowthAfter, closeVars,
                   growVars, userVars, runVars, answer, stopped>>

(* IDLE_RELEASE passes, or an IDLE_WANTED reaches the task. *)
Release(p) ==
    /\ releases[p] > 0
    /\ releases' = [releases EXCEPT ![p] = @ - 1]
    /\ workers' = IF ~destroyed(p) /\ active[p] = {} /\ queue[p] = <<>>
                  THEN [workers EXCEPT ![p] = 0] ELSE workers
    /\ UNCHANGED <<limit, permits, queue, active, cancelled, retryGrowthAfter, closeVars,
                   growVars, userVars, runVars, answer, stopped>>
-----------------------------------------------------------------------------
(* run_pair *)

RelayGoes(r, to) == relay' = [relay EXCEPT ![r] = to]

HasTurn(r) == pairTurn[SrcPool(r)] # <<>> /\ Head(pairTurn[SrcPool(r)]) = r

RelayAsks(r) ==
    /\ relay[r] = "new"
    /\ RelayGoes(r, "turn")
    /\ pairTurn' = [pairTurn EXCEPT ![SrcPool(r)] = Append(@, r)]
    /\ UNCHANGED <<limit, permits, stateVars, closeVars, releases, growVars, caller, seen,
                   runVars, answer, stopped>>

(* Not first yet: every PAIR_RECHECK it looks for a Stop or a closed pool. *)
RelayGlances(r) ==
    LET p == SrcPool(r)
        look == LegReady(p, SrcLeg[r], Need(r))
    IN  /\ relay[r] = "turn"
        /\ ~HasTurn(r)
        /\ look \in LegErrors
        /\ RelayGoes(r, look)
        /\ \E i \in DOMAIN pairTurn[p] :
              /\ pairTurn[p][i] = r
              /\ pairTurn' = [pairTurn EXCEPT ![p] = RemoveAt(@, i)]
        /\ UNCHANGED <<limit, permits, stateVars, closeVars, releases, growVars, caller,
                       seen, runVars, answer, stopped>>

(* First in line, or again after a free slot was signalled or PAIR_RECHECK  *)
(* passed.                                                                  *)
RelayGrowsSource(r) ==
    /\ \/ relay[r] = "turn" /\ HasTurn(r)
       \/ relay[r] = "wait"
    /\ RelayGoes(r, "growingSrc")
    /\ EnsureWorkers(SrcPool(r), RelayGrower(r))
    /\ UNCHANGED <<limit, permits, stateVars, closeVars, releases, caller, seen, pairTurn,
                   runVars, answer, stopped>>

(* Mutant: only the source pool grows. *)
RelaySkipsTarget(r) ==
    /\ relay[r] = "growingSrc"
    /\ ~SamePool(r)
    /\ Grown(SrcPool(r), RelayGrower(r))
    /\ RelayGoes(r, "growingDst")
    /\ UNCHANGED <<limit, permits, stateVars, closeVars, releases, growVars, caller, seen,
                   pairTurn, runVars, answer, stopped>>

RelayGrowsTarget(r) ==
    /\ relay[r] = "growingSrc"
    /\ ~SamePool(r)
    /\ Grown(SrcPool(r), RelayGrower(r))
    /\ RelayGoes(r, "growingDst")
    /\ EnsureWorkers(DstPool(r), RelayGrower(r))
    /\ UNCHANGED <<limit, permits, stateVars, closeVars, releases, caller, seen, pairTurn,
                   runVars, answer, stopped>>

(* What the two legs say, the target only asked when the source is ready. *)
PairReady(r) ==
    LET src == LegReady(SrcPool(r), SrcLeg[r], Need(r))
        dst == LegReady(DstPool(r), DstLeg[r], Need(r))
    IN  IF src # "ready" THEN src ELSE dst

(* Mutant: the permit is not asked for. *)
AdmittedUncounted(r) == PairReady(r) = "ready"

Admitted(r) == PairReady(r) = "ready" /\ HasRoom

PushBoth(r) ==
    queue' = [p \in Pools |->
                (queue[p] \o (IF p = SrcPool(r) THEN <<SrcLeg[r]>> ELSE <<>>))
                         \o (IF p = DstPool(r) THEN <<DstLeg[r]>> ELSE <<>>)]

(* Both pools are locked: both legs enter with clones of one permit, or the *)
(* relay fails, or it waits holding nothing.                                *)
RelayAdmits(r) ==
    /\ \/ relay[r] = "growingSrc" /\ SamePool(r) /\ Grown(SrcPool(r), RelayGrower(r))
       \/ relay[r] = "growingDst" /\ Grown(DstPool(r), RelayGrower(r))
    /\ \/ /\ PairReady(r) \in LegErrors
          /\ RelayGoes(r, PairReady(r))
          /\ pairTurn' = [pairTurn EXCEPT ![SrcPool(r)] = Tail(@)]
          /\ UNCHANGED <<permits, queue>>
       \/ /\ Admitted(r)
          /\ RelayGoes(r, "drainSrc")
          /\ permits' = permits \cup {SrcLeg[r], DstLeg[r]}
          /\ PushBoth(r)
          /\ pairTurn' = [pairTurn EXCEPT ![SrcPool(r)] = Tail(@)]
       \/ /\ PairReady(r) \notin LegErrors /\ ~Admitted(r)
          /\ RelayGoes(r, "wait")
          /\ UNCHANGED <<permits, queue, pairTurn>>
    /\ UNCHANGED <<limit, workers, active, cancelled, retryGrowthAfter, closeVars, releases,
                   growVars, caller, seen, runVars, answer, stopped>>

RelayDrained(r) ==
    /\ \/ relay[r] = "drainSrc" /\ ~CanDispatch(SrcPool(r)) /\ RelayGoes(r, "drainDst")
       \/ relay[r] = "drainDst" /\ ~CanDispatch(DstPool(r)) /\ RelayGoes(r, "join")
    /\ UNCHANGED <<limit, permits, stateVars, closeVars, releases, growVars, caller, seen,
                   pairTurn, runVars, answer, stopped>>

RelayJoins(r) ==
    /\ relay[r] = "join"
    /\ answer[SrcLeg[r]] # "none" /\ answer[DstLeg[r]] # "none"
    /\ RelayGoes(r, "joined")
    /\ UNCHANGED <<limit, permits, stateVars, closeVars, releases, growVars, caller, seen,
                   pairTurn, runVars, answer, stopped>>
-----------------------------------------------------------------------------
(* cancel(), as Stop and Pause call it *)

(* Mutant: the cap is reached one mark too early. *)
MarkCancelledOffByOne(p, l) ==
    LET marks == Append(cancelled[p], l)
    IN  cancelled' = [cancelled EXCEPT ![p] =
            IF Contains(@, l) THEN @
            ELSE IF Len(marks) >= CancelledCap THEN Tail(marks) ELSE marks]

(* mark_cancelled: the oldest mark makes room. *)
MarkCancelled(p, l) ==
    LET marks == Append(cancelled[p], l)
    IN  cancelled' = [cancelled EXCEPT ![p] =
            IF Contains(@, l) THEN @
            ELSE IF Len(marks) > CancelledCap THEN Tail(marks) ELSE marks]

Cancel(l) ==
    LET p == PoolOf[l]
    IN  /\ l \in MayStop \ stopped
        /\ stopped' = stopped \cup {l}
        /\ \/ /\ \E i \in DOMAIN queue[p] :
                    /\ queue[p][i] = l
                    /\ queue' = [queue EXCEPT ![p] = RemoveAt(@, i)]
              /\ Answer({l}, "cancelled")
              /\ permits' = permits \ {l}
              /\ UNCHANGED <<token, cancelled>>
           \/ /\ l \notin Queued(p)
              /\ l \in active[p]
              /\ token' = [token EXCEPT ![l] = TRUE]
              /\ UNCHANGED <<queue, answer, caller, seen, permits, cancelled>>
           \/ /\ l \notin Queued(p) \cup active[p]
              /\ MarkCancelled(p, l)
              /\ UNCHANGED <<queue, answer, caller, seen, permits, token>>
        /\ UNCHANGED <<limit, workers, active, retryGrowthAfter, closeVars, releases,
                       growVars, relay, pairTurn, runner, result>>

(* settings: a new global limit *)
SetLimit ==
    /\ limit' \in Limits \ {limit}
    /\ UNCHANGED <<permits, stateVars, closeVars, releases, growVars, userVars, runVars,
                   answer, stopped>>
-----------------------------------------------------------------------------
(* Closing: cancel_all() in one critical section, or destroy(), which takes *)
(* the state first and tells its owners after the unlock.                   *)

CloseStarts(p) ==
    /\ p \in MayClose
    /\ closing[p] = "open"
    /\ closing' = [closing EXCEPT ![p] = "closing"]
    /\ UNCHANGED <<limit, permits, stateVars, doomed, releases, growVars, userVars,
                   runVars, answer, stopped>>

CancelAll(p) ==
    /\ closing[p] = "closing"
    /\ closing' = [closing EXCEPT ![p] = "destroyed"]
    /\ token' = [l \in Legs |-> token[l] \/ l \in active[p]]
    /\ AnswerQueue(p, "cancelled")
    /\ permits' = permits \ Queued(p)
    /\ workers' = [workers EXCEPT ![p] = 0]
    /\ UNCHANGED <<limit, active, cancelled, retryGrowthAfter, doomed, releases, growVars,
                   relay, pairTurn, runner, result, stopped>>

DestroyTakes(p) ==
    /\ closing[p] = "closing"
    /\ closing' = [closing EXCEPT ![p] = "taken"]
    /\ doomed' = [doomed EXCEPT ![p] = Queued(p) \cup active[p]]
    /\ queue' = [queue EXCEPT ![p] = <<>>]
    /\ workers' = [workers EXCEPT ![p] = 0]
    /\ UNCHANGED <<limit, permits, active, cancelled, retryGrowthAfter, releases, growVars,
                   userVars, runVars, answer, stopped>>

(* Mutant: the running transfers are not told. *)
DestroyTellsQueueOnly(p) ==
    LET neverRan == {l \in doomed[p] : runner[l] = "none"}
    IN  /\ closing[p] = "taken"
        /\ closing' = [closing EXCEPT ![p] = "destroyed"]
        /\ Answer(neverRan, "cancelled")
        /\ permits' = permits \ neverRan
        /\ doomed' = [doomed EXCEPT ![p] = {}]
        /\ UNCHANGED <<limit, stateVars, releases, growVars, relay, pairTurn, runVars,
                       stopped>>

DestroyTells(p) ==
    LET neverRan == {l \in doomed[p] : runner[l] = "none"}
    IN  /\ closing[p] = "taken"
        /\ closing' = [closing EXCEPT ![p] = "destroyed"]
        /\ token' = [l \in Legs |-> token[l] \/ l \in doomed[p] \ neverRan]
        /\ Answer(neverRan, "cancelled")
        /\ permits' = permits \ neverRan
        /\ doomed' = [doomed EXCEPT ![p] = {}]
        /\ UNCHANGED <<limit, stateVars, releases, growVars, relay, pairTurn, runner,
                       result, stopped>>

(* wait_until_idle returns. *)
WaitedUntilIdle(p) ==
    /\ closing[p] = "destroyed"
    /\ active[p] = {}
    /\ growingGate[p] = <<>>
    /\ closing' = [closing EXCEPT ![p] = "idle"]
    /\ UNCHANGED <<limit, permits, stateVars, doomed, releases, growVars, userVars,
                   runVars, answer, stopped>>
-----------------------------------------------------------------------------
Grow(p) ==
    GrowLogin(p) \/ GrowEnough(p) \/ GrowCancelled(p) \/ GrowNudged(p) \/ GrowDrained(p)
        \/ GrowLeaves(p)

Login(p) == LoginOk(p) \/ LoginTurnedAway(p) \/ LoginFails(p)

Call(t) == CallerDrained(t) \/ CallerEnsures(t) \/ CallerChecks(t) \/ CallerSeesLimit(t)

Unwind(l) == RunnerAnswers(l) \/ RunnerDrained(l)

Pair(r) == RelayGlances(r) \/ RelayGrowsSource(r) \/ RelayGrowsTarget(r) \/ RelayAdmits(r)
            \/ RelayDrained(r) \/ RelayJoins(r)

Close(p) == CancelAll(p) \/ DestroyTakes(p) \/ DestroyTells(p) \/ WaitedUntilIdle(p)

Next ==
    \/ \E p \in Pools : \/ Drain(p) \/ Grow(p) \/ Login(p) \/ RetryDelayPasses(p)
                        \/ Release(p) \/ CloseStarts(p) \/ Close(p)
    \/ \E t \in Tasks : Submit(t) \/ Call(t)
    \/ \E l \in Legs : \/ RunnerAcquires(l) \/ RunnerEnds(l) \/ RunnerStops(l)
                       \/ Unwind(l) \/ Cancel(l)
    \/ \E r \in Relays : RelayAsks(r) \/ Pair(r)
    \/ SetLimit

Spec == Init /\ [][Next]_vars
-----------------------------------------------------------------------------
(* Fairness: threads and timers run, a login is answered or times out, a    *)
(* cancelled token is seen.  Nothing says a transfer ends, a user stops or  *)
(* a session closes.                                                        *)
Fairness ==
    /\ \A p \in Pools :
        /\ WF_vars(Drain(p)) /\ WF_vars(Grow(p) \/ Login(p)) /\ WF_vars(Close(p))
        /\ WF_vars(RetryDelayPasses(p)) /\ WF_vars(Release(p))
    /\ \A t \in Tasks : WF_vars(Call(t))
    /\ \A l \in Legs : WF_vars(RunnerAcquires(l) \/ RunnerStops(l) \/ Unwind(l))
    /\ \A r \in Relays : WF_vars(Pair(r))

FairSpec == Spec /\ Fairness

(* A running leg ends once its partner runs or is over: its pipe has a      *)
(* reader or a writer, or breaks.                                           *)
CanFinish(l) ==
    /\ runner[l] = "running"
    /\ l \in RelayLegs => /\ runner[Partner(l)] # "starting"
                          /\ Partner(l) \notin Queued(PoolOf[Partner(l)])

(* In addition, transfers that can end do, and a server asked again and     *)
(* again lets somebody in.                                                  *)
TransfersEnd == \A l \in Legs : WF_vars(CanFinish(l) /\ RunnerEnds(l))
ServersAccept == \A p \in Pools : SF_vars(LoginOk(p))

EndingSpec == FairSpec /\ TransfersEnd
AcceptingSpec == EndingSpec /\ ServersAccept
-----------------------------------------------------------------------------
RelayEnds == LegErrors \cup {"joined"}

Growers == ({"call"} \X Tasks) \cup ({"replace"} \X Legs) \cup ({"relay"} \X Relays)
Growths == [at : {"check", "select", "drain", "leave"}, connecting : Nat,
            failed : BOOLEAN, askedOut : BOOLEAN]
CallerStates == {"new", "drain", "ensure", "growing", "redrain", "watch", "ensureAgain",
                 "growingAgain", "done"}
RelayStates == {"new", "turn", "growingSrc", "growingDst", "wait", "drainSrc", "drainDst",
                "join"} \cup RelayEnds
RunnerStates == {"none", "starting", "running", "leftClosed", "leftLive", "leftLost",
                 "drain", "replacing", "gone"}
Answers == {"none", "done", "cancelled", "closed", "refused", "unconnected"}

TypeOK ==
    /\ limit \in Limits
    /\ permits \subseteq Legs
    /\ workers \in [Pools -> Nat]
    /\ queue \in [Pools -> Seq(Legs)]
    /\ active \in [Pools -> SUBSET Legs]
    /\ cancelled \in [Pools -> {marks \in Seq(Legs) : Len(marks) <= CancelledCap}]
    /\ retryGrowthAfter \in [Pools -> {"none", "cooling", "over"}]
    /\ closing \in [Pools -> {"open", "closing", "taken", "destroyed", "idle"}]
    /\ doomed \in [Pools -> SUBSET Legs]
    /\ releases \in [Pools -> Nat]
    /\ growingGate \in [Pools -> Seq(Growers)]
    /\ growth \in [Pools -> Growths]
    /\ growthChanged \in [Pools -> BOOLEAN]
    /\ pairTurn \in [Pools -> Seq(Relays)]
    /\ caller \in [Tasks -> CallerStates]
    /\ seen \in [Tasks -> Nat]
    /\ relay \in [Relays -> RelayStates]
    /\ runner \in [Legs -> RunnerStates]
    /\ token \in [Legs -> BOOLEAN]
    /\ result \in [Legs -> {"none", "done", "cancelled"}]
    /\ answer \in [Legs -> Answers]
    /\ stopped \subseteq Legs

Accepted(l) ==
    \/ l \in Tasks /\ caller[l] # "new"
    \/ l \in RelayLegs /\ relay[RelayOf(l)] \in {"drainSrc", "drainDst", "join", "joined"}

(* The places that owe a leg its answer. *)
Leaving(l) == runner[l] \in {"leftClosed", "leftLive", "leftLost"}
Owed(l) == {place \in {"queue", "active", "leaving", "taken"} :
    \/ place = "queue" /\ l \in Queued(PoolOf[l])
    \/ place = "active" /\ l \in active[PoolOf[l]]
    \/ place = "leaving" /\ Leaving(l)
    \/ place = "taken" /\ l \in doomed[PoolOf[l]] /\ runner[l] = "none"}

(* No transfer is lost and none is answered twice: an accepted transfer     *)
(* without an answer is in exactly one place that will give it one, and an  *)
(* answered one is in none, through drain, growth errors, Stop and both     *)
(* ways of closing.                                                         *)
OnePlaceOwesTheAnswer ==
    \A l \in Legs :
        /\ Cardinality(Owed(l)) = (IF Accepted(l) /\ answer[l] = "none" THEN 1 ELSE 0)
        /\ \A p \in Pools : \A i, j \in DOMAIN queue[p] :
                queue[p][i] = queue[p][j] => i = j

(* "Pending logins reserve capacity before any network work begins": idle,  *)
(* busy and pending logins together stay within the site's limit.           *)
LoginsWithinSize ==
    Size # 0 => \A p \in Pools :
        workers[p] + Cardinality(active[p]) + growth[p].connecting <= Size

(* A relay never waits holding a worker: once its legs are queued, the      *)
(* workers for them and for whatever is ahead of them are there and idle,   *)
(* whoever drains, releases or stops in between.                            *)
AdmittedLegsHaveWorkers ==
    \A p \in Pools : \A i \in DOMAIN queue[p] :
        queue[p][i] \in RelayLegs => i <= workers[p]

(* A closed pool keeps nothing and starts nothing: no worker and no queue   *)
(* comes back after the destroy, every transfer still active has been told, *)
(* and once wait_until_idle returned no login is pending either.            *)
ClosedHoldsNothing ==
    \A p \in Pools :
        /\ destroyed(p) => queue[p] = <<>> /\ workers[p] = 0
        /\ closing[p] \in {"destroyed", "idle"} => \A l \in active[p] : token[l]
        /\ closing[p] = "idle" => active[p] = {} /\ growth[p].connecting = 0

(* A Stop is never lost, whether it finds the transfer not yet queued,      *)
(* queued or running: unanswered, the transfer is marked, has its token     *)
(* cancelled, or has already ended.                                         *)
StopIsNeverLost ==
    \A l \in stopped :
        \/ answer[l] # "none"
        \/ token[l]
        \/ Contains(cancelled[PoolOf[l]], l)
        \/ l \in doomed[PoolOf[l]]
        \/ Leaving(l)

(* The pools use the shared limiter as its contract allows; a relay holds   *)
(* one slot for both legs.                                                  *)
Limiter == INSTANCE Semaphore
            WITH Clients <- Tasks \cup Relays,
                 holders <- Holders,
                 waiting <- {t \in Tasks : runner[t] = "starting"}
UsesLimiter == Limiter!Spec
-----------------------------------------------------------------------------
(* No transfer is stranded: one that is neither answered nor running waits  *)
(* for a transfer that runs, never for nobody.                              *)
NoTransferIsStranded ==
    \A t \in Tasks :
        []<>(caller[t] \in {"new", "done"} \/ \E l \in Legs : runner[l] = "running")

(* A relay that asked for its turn ends: admitted together with its target  *)
(* and joined, or with an error.  Opposite relays do not block each other.  *)
EveryRelayEnds == \A r \in Relays : (relay[r] = "turn") ~> (relay[r] \in RelayEnds)

(* Nothing was refused, yet the queue wants a login the limits allow. *)
Wanting(p) ==
    /\ ~destroyed(p)
    /\ retryGrowthAfter[p] = "none"
    /\ queue[p] # <<>>
    /\ ~Satisfied(Total(p), Len(queue[p]) + Cardinality(active[p]))
    /\ limit = 0 \/ Total(p) < limit

(* A login that a queued transfer may have is opened. *)
GrowthIsNotForgotten == \A p \in Pools : Wanting(p) ~> ~Wanting(p)

(* A pool with nothing to do logs out. *)
Idle(p) == workers[p] > 0 /\ active[p] = {} /\ queue[p] = <<>>
IdleLoginsAreReleased == \A p \in Pools : Idle(p) ~> ~Idle(p)

(* Closing ends although transfers do not: the session's teardown is not    *)
(* kept waiting for a running transfer or a slow login.                     *)
ClosingEnds == \A p \in Pools : (closing[p] = "closing") ~> (closing[p] = "idle")
=============================================================================
