----------------------------- MODULE SleepGuard -----------------------------
(***************************************************************************)
(* One idle-sleep inhibitor for all transfers (runtime/sleep_guard.rs).    *)
(* Transfers and the setting change what is wanted, under a mutex; a       *)
(* thread of its own creates and drops the inhibitor.  Between them are a  *)
(* flag and a channel with room for one wakeup, which a full channel       *)
(* swallows.                                                               *)
(***************************************************************************)
EXTENDS FiniteSets

CONSTANT Sleepers   \* the transfers that may run

ASSUME SleepersAssumption == IsFiniteSet(Sleepers)

VARIABLES
    atWork,     \* Inner::active counts them
    enabled,     \* Inner::enabled
    asking,      \* how far request is, its caller holding the mutex
    required,    \* the flag
    wakeup,      \* the channel holds a wakeup
    worker,      \* run_worker: what it does, and the flag it read
    inhibitor,   \* it holds one
    refused      \* the system would not create one when last asked

sleepVars == <<atWork, enabled, asking, required, wakeup, worker, inhibitor, refused>>

Wanted == enabled /\ atWork # {}

NobodyAsks == asking = "no"
-----------------------------------------------------------------------------
(* Under the mutex *)

\* Counts a running transfer.
TransferStarted(t) ==
    /\ NobodyAsks /\ t \notin atWork
    /\ atWork' = atWork \cup {t}
    /\ asking' = IF enabled /\ atWork = {} THEN "stores" ELSE "no"
    /\ UNCHANGED <<enabled, required, wakeup, worker, inhibitor, refused>>

TransferFinished(t) ==
    /\ NobodyAsks /\ t \in atWork
    /\ atWork' = atWork \ {t}
    /\ asking' = IF enabled /\ atWork = {t} THEN "stores" ELSE "no"
    /\ UNCHANGED <<enabled, required, wakeup, worker, inhibitor, refused>>

SetEnabled ==
    /\ NobodyAsks
    /\ enabled' = ~enabled
    /\ asking' = IF atWork # {} THEN "stores" ELSE "no"
    /\ UNCHANGED <<atWork, required, wakeup, worker, inhibitor, refused>>

\* request: first the flag, then the wakeup.  Mutant: the other way round.
RequestWakesFirst ==
    \/ /\ asking = "stores" /\ asking' = "wakes" /\ wakeup' = TRUE
       /\ UNCHANGED <<atWork, enabled, required, worker, inhibitor, refused>>
    \/ /\ asking = "wakes" /\ asking' = "no" /\ required' = Wanted
       /\ UNCHANGED <<atWork, enabled, wakeup, worker, inhibitor, refused>>

RequestSleep ==
    \/ /\ asking = "stores" /\ asking' = "wakes" /\ required' = Wanted
       /\ UNCHANGED <<atWork, enabled, wakeup, worker, inhibitor, refused>>
    \/ /\ asking = "wakes" /\ asking' = "no" /\ wakeup' = TRUE
       /\ UNCHANGED <<atWork, enabled, required, worker, inhibitor, refused>>
-----------------------------------------------------------------------------
(* run_worker *)

WorkerWakes ==
    /\ worker.at = "waiting" /\ wakeup
    /\ wakeup' = FALSE
    /\ worker' = [worker EXCEPT !.at = "woken"]
    /\ UNCHANGED <<atWork, enabled, asking, required, inhibitor, refused>>

WorkerReads ==
    /\ worker.at = "woken"
    /\ worker' = [at |-> "acting", saw |-> required]
    /\ UNCHANGED <<atWork, enabled, asking, required, wakeup, inhibitor, refused>>

\* An inhibitor that could not be had is not asked for again until the next
\* wakeup.
WorkerActs(granted) ==
    /\ worker.at = "acting"
    /\ worker' = [worker EXCEPT !.at = "waiting"]
    /\ inhibitor' = (worker.saw /\ (inhibitor \/ granted))
    /\ refused' = (worker.saw /\ ~inhibitor /\ ~granted)
    /\ UNCHANGED <<atWork, enabled, asking, required, wakeup>>
-----------------------------------------------------------------------------
SleepInit ==
    /\ atWork = {} /\ enabled = TRUE
    /\ asking = "no" /\ required = FALSE /\ wakeup = FALSE
    /\ worker = [at |-> "waiting", saw |-> FALSE]
    /\ inhibitor = FALSE /\ refused = FALSE

SleepNext ==
    \/ \E t \in Sleepers : TransferStarted(t) \/ TransferFinished(t)
    \/ SetEnabled \/ RequestSleep
    \/ WorkerWakes \/ WorkerReads
    \/ \E granted \in BOOLEAN : WorkerActs(granted)

SleepSpec == SleepInit /\ [][SleepNext]_sleepVars

SleepTypeOK ==
    /\ atWork \subseteq Sleepers
    /\ enabled \in BOOLEAN /\ required \in BOOLEAN /\ wakeup \in BOOLEAN
    /\ asking \in {"no", "stores", "wakes"}
    /\ worker \in [at : {"waiting", "woken", "acting"}, saw : BOOLEAN]
    /\ inhibitor \in BOOLEAN /\ refused \in BOOLEAN

(* When nobody is in the guard and its thread waits for a wakeup, the       *)
(* machine is kept awake exactly if a transfer runs and the setting is on,  *)
(* or the system has refused to: no wakeup swallowed by the full channel    *)
(* leaves a laptop awake for nothing or asleep over a transfer              *)
(* (SleepGuard::request, run_worker).                                       *)
InhibitorFollowsTransfers ==
    NobodyAsks /\ ~wakeup /\ worker.at = "waiting" =>
        (inhibitor <=> Wanted /\ ~refused)
-----------------------------------------------------------------------------
(* What is on its way at each moment, for the proof. *)

\* The flag is what is wanted, but for the caller who is about to store it.
FlagIsCurrent == asking # "stores" => (required <=> Wanted)

\* The inhibitor agrees with the flag, or something will yet see to it.
Settling ==
    \/ (inhibitor <=> required /\ ~refused)
    \/ asking = "wakes" \/ wakeup \/ worker.at = "woken"
    \/ worker.at = "acting" /\ (worker.saw <=> required)

\* A thread about to act on an old reading will be woken again.
OldReading ==
    worker.at = "acting" /\ ~(worker.saw <=> required) => asking = "wakes" \/ wakeup

SleepInv == SleepTypeOK /\ FlagIsCurrent /\ Settling /\ OldReading
=============================================================================
