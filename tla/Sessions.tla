------------------------------ MODULE Sessions ------------------------------
(***************************************************************************)
(* The session registry (session.rs) under concurrent connects, browse     *)
(* calls, cancels and disconnects (application/session_service.rs,         *)
(* commands/session).  A slot is an Arc that calls keep after the map has  *)
(* dropped or replaced it, and its async lock is held across awaits.       *)
(***************************************************************************)
EXTENDS FiniteSets, Naturals

CONSTANTS
    Calls,      \* the commands that arrive, in any order and at any time
    Ids,        \* connection ids
    MaxSessions \* session_service.rs MAX_SESSIONS

Kinds == {"connect", "browse", "cancel", "disconnect"}
NoCall == "nobody"

ASSUME SessionsAssumption == MaxSessions \in Nat \ {0} /\ NoCall \notin Calls \cup Ids

VARIABLES
    kindOf, idOf,   \* what each call is, and for which connection
    callPc,         \* where each call is
    at,             \* the slot a call holds on to: the call that created it
    slots,          \* Sessions.inner
    pools,          \* Sessions.pools: the connect that made the pool
    tokens,         \* ConnectingClients: the call whose token is registered
    cancelled,      \* calls whose token is cancelled
    holder,         \* who has each slot's lock
    occupant,       \* the session in each slot: the connect that opened it
    alive,          \* pools that still accept transfers
    closed          \* history: slots a disconnect has taken out

sessionsVars == <<kindOf, idOf, callPc, at, slots, pools, tokens, cancelled, holder,
                  occupant, alive, closed>>
registry == <<slots, pools, closed>>
callIs == <<kindOf, idOf>>

SessionsTypeOK ==
    /\ kindOf \in [Calls -> Kinds \cup {NoCall}] /\ idOf \in [Calls -> Ids \cup {NoCall}]
    /\ callPc \in [Calls -> {"new", "admitted", "locking", "holding", "waiting", "restoring",
                             "registered", "torn", "leaving", "dropping", "rechecking",
                             "removing", "done"}]
    /\ at \in [Calls -> Calls \cup {NoCall}]
    /\ slots \in [Ids -> Calls \cup {NoCall}] /\ pools \in [Ids -> Calls \cup {NoCall}]
    /\ tokens \in [Ids -> Calls \cup {NoCall}]
    /\ cancelled \subseteq Calls /\ alive \subseteq Calls /\ closed \subseteq Calls
    /\ holder \in [Calls -> Calls \cup {NoCall}] /\ occupant \in [Calls -> Calls \cup {NoCall}]

SessionsInit ==
    /\ kindOf = [c \in Calls |-> NoCall] /\ idOf = [c \in Calls |-> NoCall]
    /\ callPc = [c \in Calls |-> "new"] /\ at = [c \in Calls |-> NoCall]
    /\ slots = [i \in Ids |-> NoCall] /\ pools = [i \in Ids |-> NoCall]
    /\ tokens = [i \in Ids |-> NoCall] /\ cancelled = {}
    /\ holder = [c \in Calls |-> NoCall] /\ occupant = [c \in Calls |-> NoCall]
    /\ alive = {} /\ closed = {}
-----------------------------------------------------------------------------
GoTo(c, to) == callPc' = [callPc EXCEPT ![c] = to]
Users(s) == {c \in Calls : at[c] = s}
SlotCount == Cardinality({i \in Ids : slots[i] # NoCall})

\* The last Arc of a slot drops its session, whose Drop cancels the pool.
LetGo(c) ==
    LET s == at[c] IN
    /\ at' = [at EXCEPT ![c] = NoCall]
    /\ IF s # NoCall /\ Users(s) = {c} /\ \A i \in Ids : slots'[i] # s
       THEN /\ alive' = alive \ {occupant[s]}
            /\ occupant' = [occupant EXCEPT ![s] = NoCall]
       ELSE UNCHANGED <<alive, occupant>>

(* Mutant: a slot somebody still holds an Arc of is removed as well. *)
RemoveUnlocked(c) ==
    LET i == idOf[c] IN
    IF /\ slots[i] = at[c] /\ at[c] # NoCall
       /\ holder[at[c]] = NoCall /\ occupant[at[c]] = NoCall
    THEN /\ slots' = [slots EXCEPT ![i] = NoCall] /\ pools' = [pools EXCEPT ![i] = NoCall]
         /\ UNCHANGED closed
    ELSE UNCHANGED registry

\* remove_if_empty: the map's own slot, with nobody but the map and the asking
\* call, not locked, holding no session.
RemoveIfEmpty(c) ==
    LET i == idOf[c] IN
    IF /\ slots[i] = at[c] /\ at[c] # NoCall /\ Users(at[c]) = {c}
       /\ holder[at[c]] = NoCall /\ occupant[at[c]] = NoCall
    THEN /\ slots' = [slots EXCEPT ![i] = NoCall] /\ pools' = [pools EXCEPT ![i] = NoCall]
         /\ UNCHANGED closed
    ELSE UNCHANGED registry

\* teardown_session: the session leaves its slot, its pool destroyed.
TearDown(s) ==
    /\ alive' = alive \ {occupant[s]}
    /\ occupant' = [occupant EXCEPT ![s] = NoCall]
-----------------------------------------------------------------------------
\* A command arrives; a connect is admitted on a known id or below the cap.
Arrive(c) ==
    /\ callPc[c] = "new"
    /\ \E k \in Kinds, i \in Ids :
        /\ kindOf' = [kindOf EXCEPT ![c] = k] /\ idOf' = [idOf EXCEPT ![c] = i]
        /\ GoTo(c, IF k = "connect" /\ slots[i] = NoCall /\ SlotCount >= MaxSessions
                   THEN "done" ELSE "admitted")
    /\ UNCHANGED <<at, registry, tokens, cancelled, holder, occupant, alive>>

\* get_or_create for a connect, lookup_slot for a browse call.
TakeSlot(c) ==
    /\ callPc[c] = "admitted" /\ kindOf[c] \in {"connect", "browse"}
    /\ LET i == idOf[c]
           new == kindOf[c] = "connect" /\ slots[i] = NoCall IN
        /\ slots' = IF new THEN [slots EXCEPT ![i] = c] ELSE slots
        /\ at' = [at EXCEPT ![c] = slots'[i]]
        /\ GoTo(c, IF slots'[i] = NoCall THEN "done" ELSE "locking")
    /\ UNCHANGED <<callIs, pools, closed, tokens, cancelled, holder, occupant, alive>>

\* The lock is taken; a connect closes what was there, a browse call needs it.
LockSlot(c) ==
    /\ callPc[c] = "locking" /\ holder[at[c]] = NoCall
    /\ holder' = [holder EXCEPT ![at[c]] = c]
    /\ IF kindOf[c] = "browse"
       THEN /\ GoTo(c, IF occupant[at[c]] = NoCall THEN "torn" ELSE "holding")
            /\ UNCHANGED <<alive, occupant>>
       ELSE /\ GoTo(c, IF kindOf[c] = "connect" THEN "holding" ELSE "torn")
            /\ TearDown(at[c])
    /\ UNCHANGED <<callIs, at, registry, tokens, cancelled>>

\* ConnectingClients.start, unless the configuration cannot be resolved.
StartWaiting(c) ==
    /\ callPc[c] = "holding"
    /\ \/ /\ tokens' = [tokens EXCEPT ![idOf[c]] = c] /\ GoTo(c, "waiting")
       \/ kindOf[c] = "connect" /\ GoTo(c, "torn") /\ UNCHANGED tokens
    /\ UNCHANGED <<callIs, at, registry, cancelled, holder, occupant, alive>>

\* ConnectingClients.finish takes whatever token the id has.
FinishConnecting(c) == tokens' = [tokens EXCEPT ![idOf[c]] = NoCall]

\* The select of a connect ends: connected, or failed, cancelled, timed out.
ConnectAnswered(c) ==
    /\ callPc[c] = "waiting" /\ kindOf[c] = "connect" /\ FinishConnecting(c)
    /\ GoTo(c, "restoring") \/ GoTo(c, "torn")
    /\ UNCHANGED <<callIs, at, registry, cancelled, holder, occupant, alive>>

\* A browse call that timed out or was cancelled closes the session.
BrowseAnswered(c) ==
    /\ callPc[c] = "waiting" /\ kindOf[c] = "browse" /\ FinishConnecting(c) /\ GoTo(c, "torn")
    /\ TearDown(at[c]) \/ UNCHANGED <<occupant, alive>>
    /\ UNCHANGED <<callIs, at, registry, cancelled, holder>>

(* Mutant: the pool is registered for whichever slot the id has now. *)
RegisterAnyPool(c) ==
    /\ callPc[c] = "restoring"
    /\ IF slots[idOf[c]] # NoCall
       THEN /\ pools' = [pools EXCEPT ![idOf[c]] = c] /\ alive' = alive \cup {c}
            /\ GoTo(c, "registered")
       ELSE GoTo(c, "torn") /\ UNCHANGED <<pools, alive>>
    /\ UNCHANGED <<callIs, at, slots, closed, tokens, cancelled, holder, occupant>>

\* register_pool: only for the slot the map still holds.
RegisterPool(c) ==
    /\ callPc[c] = "restoring"
    /\ IF slots[idOf[c]] = at[c]
       THEN /\ pools' = [pools EXCEPT ![idOf[c]] = c] /\ alive' = alive \cup {c}
            /\ GoTo(c, "registered")
       ELSE GoTo(c, "torn") /\ UNCHANGED <<pools, alive>>
    /\ UNCHANGED <<callIs, at, slots, closed, tokens, cancelled, holder, occupant>>

OpenSessionIn(c) ==
    /\ callPc[c] = "registered" /\ GoTo(c, "torn")
    /\ occupant' = [occupant EXCEPT ![at[c]] = c]
    /\ UNCHANGED <<callIs, at, registry, tokens, cancelled, holder, alive>>

\* The guard goes; a browse call tries the removal once before its lookup does.
Unlock(c) ==
    /\ callPc[c] = "torn"
    /\ holder' = [holder EXCEPT ![at[c]] = NoCall]
    /\ GoTo(c, IF kindOf[c] = "disconnect" THEN "dropping" ELSE "leaving")
    /\ UNCHANGED <<callIs, at, registry, tokens, cancelled, occupant, alive>>

\* SessionLookup's Drop asks first, and lets its Arc go after.
AskRemoval(c) ==
    /\ callPc[c] = "leaving" /\ GoTo(c, "dropping") /\ RemoveIfEmpty(c)
    /\ UNCHANGED <<callIs, at, tokens, cancelled, holder, occupant, alive>>

DropSlot(c) ==
    /\ callPc[c] = "dropping"
    /\ UNCHANGED <<callIs, registry, tokens, cancelled, holder>>
    /\ LetGo(c)
    /\ GoTo(c, IF kindOf[c] = "connect" /\ at[c] # NoCall THEN "rechecking" ELSE "done")

\* session_connect looks the slot up once more, to remove it when it is empty.
Recheck(c) ==
    /\ callPc[c] = "rechecking"
    /\ at' = [at EXCEPT ![c] = slots[idOf[c]]]
    /\ GoTo(c, IF slots[idOf[c]] = NoCall THEN "done" ELSE "removing")
    /\ UNCHANGED <<callIs, registry, tokens, cancelled, holder, occupant, alive>>

RecheckedRemoval(c) ==
    /\ callPc[c] = "removing" /\ kindOf[c] = "connect"
    /\ RemoveIfEmpty(c) /\ LetGo(c) /\ GoTo(c, "done")
    /\ UNCHANGED <<callIs, tokens, cancelled, holder>>

\* ConnectingClients.cancel, of a cancel and of a disconnect.
CancelToken(c) ==
    /\ callPc[c] = "admitted" /\ kindOf[c] \in {"cancel", "disconnect"}
    /\ cancelled' = cancelled \cup ({tokens[idOf[c]]} \ {NoCall})
    /\ tokens' = [tokens EXCEPT ![idOf[c]] = NoCall]
    /\ GoTo(c, IF kindOf[c] = "cancel" THEN "done" ELSE "removing")
    /\ UNCHANGED <<callIs, at, registry, holder, occupant, alive>>

\* Sessions.remove: slot and pool leave the maps together, the pool cancelled.
TakeOut(c) ==
    LET i == idOf[c] IN
    /\ callPc[c] = "removing" /\ kindOf[c] = "disconnect"
    /\ slots' = [slots EXCEPT ![i] = NoCall] /\ pools' = [pools EXCEPT ![i] = NoCall]
    /\ alive' = alive \ {pools[i]} /\ closed' = closed \cup ({slots[i]} \ {NoCall})
    /\ at' = [at EXCEPT ![c] = slots[i]]
    /\ GoTo(c, IF slots[i] = NoCall THEN "done" ELSE "locking")
    /\ UNCHANGED <<callIs, tokens, cancelled, holder, occupant>>

\* TEARDOWN_DEADLINE: the disconnect gives up waiting, the session is detached.
Detach(c) ==
    /\ callPc[c] = "locking" /\ kindOf[c] = "disconnect" /\ GoTo(c, "dropping")
    /\ UNCHANGED <<callIs, at, registry, tokens, cancelled, holder, occupant, alive>>

SessionsNext == \E c \in Calls :
    \/ Arrive(c) \/ TakeSlot(c) \/ LockSlot(c) \/ StartWaiting(c)
    \/ ConnectAnswered(c) \/ BrowseAnswered(c) \/ RegisterPool(c) \/ OpenSessionIn(c)
    \/ Unlock(c) \/ AskRemoval(c) \/ DropSlot(c) \/ Recheck(c) \/ RecheckedRemoval(c)
    \/ CancelToken(c) \/ TakeOut(c) \/ Detach(c)

SessionsSpec == SessionsInit /\ [][SessionsNext]_sessionsVars
-----------------------------------------------------------------------------
(* A disconnect is final, and nothing else is.  A pool that still takes    *)
(* transfers is the one its connection's map entry leads to, in the slot   *)
(* the map holds, so the next disconnect can cancel it: an attempt whose   *)
(* slot was taken out meanwhile opens nothing (register_pool).  And the    *)
(* slot a connect waits in is in the map until a disconnect takes it out:  *)
(* no reader that leaves removes it (remove_if_empty).                     *)
DisconnectIsFinal ==
    /\ \A c \in alive :
        /\ pools[idOf[c]] = c
        /\ slots[idOf[c]] \in {at[c]} \cup {s \in Calls : occupant[s] = c}
    /\ \A c \in Calls : kindOf[c] = "connect" /\ at[c] # NoCall =>
        slots[idOf[c]] = at[c] \/ at[c] \in closed \/ callPc[c] = "dropping"
=============================================================================
