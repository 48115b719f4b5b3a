----------------------------- MODULE Semaphore -----------------------------
(***************************************************************************)
(* What the shared transfer limiter promises its callers: an adjustable    *)
(* counting semaphore.  A transfer that asks waits, a waiting transfer is  *)
(* granted a slot only while there is room, lowering the limit takes no    *)
(* slot back, and a free slot does not stay free while somebody waits.     *)
(* ConcurrencyLimiter implements it with a mutex and a Notify;             *)
(* TransferPool uses it through this contract.                             *)
(***************************************************************************)
EXTENDS Naturals, FiniteSets

CONSTANTS
    Clients,    \* the transfers that may ask for a slot
    Limits      \* the values the limit may take; 0 is "unlimited"

VARIABLES
    limit,      \* the current limit
    holders,    \* the clients that hold a slot
    waiting     \* the clients that asked and have no answer yet

semVars == <<limit, holders, waiting>>

HasRoom == limit = 0 \/ Cardinality(holders) < limit

Init ==
    /\ limit \in Limits
    /\ holders = {}
    /\ waiting = {}

Ask(c) ==
    /\ c \notin holders \cup waiting
    /\ waiting' = waiting \cup {c}
    /\ UNCHANGED <<limit, holders>>

Grant(c) ==
    /\ c \in waiting
    /\ HasRoom
    /\ waiting' = waiting \ {c}
    /\ holders' = holders \cup {c}
    /\ UNCHANGED limit

(* A slot taken without waiting, or not at all. *)
GrantNow(c) ==
    /\ c \notin holders \cup waiting
    /\ HasRoom
    /\ holders' = holders \cup {c}
    /\ UNCHANGED <<limit, waiting>>

GiveUp(c) ==
    /\ c \in waiting
    /\ waiting' = waiting \ {c}
    /\ UNCHANGED <<limit, holders>>

(* Slots come back one by one, or together when a queue of holders is *)
(* dropped at once.                                                   *)
Release(cs) ==
    /\ cs # {} /\ cs \subseteq holders
    /\ holders' = holders \ cs
    /\ UNCHANGED <<limit, waiting>>

ChangeLimit ==
    /\ limit' \in Limits
    /\ UNCHANGED <<holders, waiting>>

GrantSome == \E c \in Clients : Grant(c)

Next ==
    \/ \E c \in Clients : Ask(c) \/ GrantNow(c) \/ GiveUp(c)
    \/ \E cs \in SUBSET Clients : Release(cs)
    \/ GrantSome
    \/ ChangeLimit

Spec == Init /\ [][Next]_semVars

(* A free slot is granted while somebody waits for it. *)
FairSpec == Spec /\ WF_semVars(GrantSome)
=============================================================================
