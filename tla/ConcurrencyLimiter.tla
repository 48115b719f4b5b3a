------------------------ MODULE ConcurrencyLimiter ------------------------
(***************************************************************************)
(* The process-wide limit on concurrent transfers                          *)
(* (src-tauri/src/transfer/concurrency_limiter.rs): a (limit, active) pair *)
(* behind a mutex, and a tokio Notify that wakes every registered waiter.  *)
(*                                                                         *)
(* Each critical section and each Notify call is a step of its own, so     *)
(* that every interleaving of set_limit, acquire and a permit's drop is    *)
(* explored.  `registered` and `woken` are the Notify: a Notified future   *)
(* that was enabled, and one that a later notify_waiters has reached.      *)
(***************************************************************************)
EXTENDS Naturals, FiniteSets

CONSTANTS
    Clients,    \* the transfers that take permits
    Setters,    \* the callers of set_limit: settings commands, start-up
    Limits      \* the limits they set; 0 is "unlimited"

ASSUME LimiterAssumption ==
    /\ IsFiniteSet(Clients)
    /\ Limits \subseteq Nat
    /\ Limits # {}

VARIABLES
    limit,      \* state.0
    active,     \* state.1
    client,     \* client[c]: where transfer c stands in acquire or drop
    woken,      \* the registered waiters a notify_waiters has reached
    setter      \* setter[s]: "idle", or "notify" between the store and the wake

vars == <<limit, active, client, woken, setter>>

(* "out": no request; "looping": at the head of acquire's loop; "enabled":  *)
(* its Notified future is registered, try_acquire not yet called; "tried":  *)
(* try_acquire failed; "parked": awaiting the future; "holding": owns a     *)
(* Permit; "dropped": the Permit's drop has counted down and not notified.  *)
ClientStates == {"out", "looping", "enabled", "tried", "parked", "holding", "dropped"}

Full == limit # 0 /\ active >= limit

(* Mutant: the future is not enabled before try_acquire, so it registers *)
(* only when it is first awaited.                                        *)
RegisteredWhenAwaited == {c \in Clients : client[c] = "parked"}

registered == {c \in Clients : client[c] \in {"enabled", "tried", "parked"}}

Init ==
    /\ limit \in Limits
    /\ active = 0
    /\ client = [c \in Clients |-> "out"]
    /\ woken = {}
    /\ setter = [s \in Setters |-> "idle"]

NotifyWaiters == woken' = woken \cup registered

(* try_acquire as run_pair calls it: a permit now or nothing. *)
TryAcquireOnce(c) ==
    /\ client[c] = "out"
    /\ ~Full
    /\ active' = active + 1
    /\ client' = [client EXCEPT ![c] = "holding"]
    /\ UNCHANGED <<limit, woken, setter>>

AcquireStart(c) ==
    /\ client[c] = "out"
    /\ client' = [client EXCEPT ![c] = "looping"]
    /\ UNCHANGED <<limit, active, woken, setter>>

(* notified(), pin, enable(): a fresh future, not yet woken. *)
AcquireEnable(c) ==
    /\ client[c] = "looping"
    /\ client' = [client EXCEPT ![c] = "enabled"]
    /\ UNCHANGED <<limit, active, woken, setter>>

AcquireTry(c) ==
    /\ client[c] = "enabled"
    /\ IF Full
       THEN /\ client' = [client EXCEPT ![c] = "tried"]
            /\ UNCHANGED <<active, woken>>
       ELSE /\ client' = [client EXCEPT ![c] = "holding"]
            /\ active' = active + 1
            /\ woken' = woken \ {c}
    /\ UNCHANGED <<limit, setter>>

(* changed.await is polled for the first time. *)
AcquireAwait(c) ==
    /\ client[c] = "tried"
    /\ client' = [client EXCEPT ![c] = "parked"]
    /\ UNCHANGED <<limit, active, woken, setter>>

AcquireWake(c) ==
    /\ client[c] = "parked"
    /\ c \in woken
    /\ client' = [client EXCEPT ![c] = "looping"]
    /\ woken' = woken \ {c}
    /\ UNCHANGED <<limit, active, setter>>

(* The acquire future is dropped at its only await: a transfer stopped *)
(* while it waits for a slot.                                          *)
AcquireAbandon(c) ==
    /\ client[c] = "parked"
    /\ client' = [client EXCEPT ![c] = "out"]
    /\ woken' = woken \ {c}
    /\ UNCHANGED <<limit, active, setter>>

DropCount(c) ==
    /\ client[c] = "holding"
    /\ active' = active - 1
    /\ client' = [client EXCEPT ![c] = "dropped"]
    /\ UNCHANGED <<limit, woken, setter>>

(* Mutant: a permit's drop frees the slot and wakes nobody. *)
DropSilently(c) ==
    /\ client[c] = "dropped"
    /\ client' = [client EXCEPT ![c] = "out"]
    /\ UNCHANGED <<limit, active, woken, setter>>

DropNotify(c) ==
    /\ client[c] = "dropped"
    /\ client' = [client EXCEPT ![c] = "out"]
    /\ NotifyWaiters
    /\ UNCHANGED <<limit, active, setter>>

SetLimit(s) ==
    /\ setter[s] = "idle"
    /\ limit' \in Limits
    /\ setter' = [setter EXCEPT ![s] = "notify"]
    /\ UNCHANGED <<active, client, woken>>

SetLimitNotify(s) ==
    /\ setter[s] = "notify"
    /\ setter' = [setter EXCEPT ![s] = "idle"]
    /\ NotifyWaiters
    /\ UNCHANGED <<limit, active, client>>

ClientNext(c) ==
    \/ TryAcquireOnce(c)
    \/ AcquireStart(c)
    \/ AcquireEnable(c)
    \/ AcquireTry(c)
    \/ AcquireAwait(c)
    \/ AcquireWake(c)
    \/ AcquireAbandon(c)
    \/ DropCount(c)
    \/ DropNotify(c)

Next ==
    \/ \E c \in Clients : ClientNext(c)
    \/ \E s \in Setters : SetLimit(s) \/ SetLimitNotify(s)

Spec == Init /\ [][Next]_vars

(* The scheduler runs a thread that can run: a started acquire and a started *)
(* notification go on.  Nothing says a permit is ever dropped, a waiter ever *)
(* gives up or a limit ever changes.                                         *)
Fairness ==
    /\ \A c \in Clients :
        WF_vars(AcquireEnable(c) \/ AcquireTry(c) \/ AcquireAwait(c) \/ AcquireWake(c)
                    \/ DropNotify(c))
    /\ \A s \in Setters : WF_vars(SetLimitNotify(s))

FairSpec == Spec /\ Fairness
-----------------------------------------------------------------------------
TypeOK ==
    /\ limit \in Limits
    /\ active \in Nat
    /\ client \in [Clients -> ClientStates]
    /\ woken \subseteq Clients
    /\ setter \in [Setters -> {"idle", "notify"}]

Holding == {c \in Clients : client[c] = "holding"}

(* The count of active transfers is the number of live permits: no path     *)
(* through acquire, an abandoned wait or a drop leaks or returns one twice. *)
CountMatchesPermits == active = Cardinality(Holding)

NotifyPending ==
    \/ \E c \in Clients : client[c] = "dropped"
    \/ \E s \in Setters : setter[s] = "notify"

(* No lost wake-up: a transfer asleep in acquire that nobody has woken has  *)
(* no free slot to miss, unless the thread that freed it is still to call   *)
(* notify_waiters.  It is why acquire enables its future before it tries.   *)
NoLostWakeup ==
    (\E c \in Clients : client[c] \in {"tried", "parked"} /\ c \notin woken)
        => Full \/ NotifyPending

(* The limiter is the adjustable semaphore its callers rely on, and a slot  *)
(* that stays free while a transfer waits is granted.                       *)
Sem == INSTANCE Semaphore
        WITH holders <- Holding,
             waiting <- {c \in Clients : client[c] \in {"looping", "enabled", "tried", "parked"}}
ImplementsSemaphore == Sem!FairSpec
=============================================================================
