--------------------- MODULE ConcurrencyLimiter_proofs ---------------------
(***************************************************************************)
(* Theorems about ConcurrencyLimiter, for any finite set of transfers, any *)
(* callers of set_limit and any limits.                                    *)
(***************************************************************************)
EXTENDS ConcurrencyLimiter, FiniteSetTheorems, TLAPS

(* A permit's holder joins or leaves a finite set of holders, one at a time. *)
LEMMA HoldingFinite ==
    IsFiniteSet(Holding) /\ Cardinality(Holding) \in Nat
  BY LimiterAssumption, FS_Subset, FS_CardinalityType DEF Holding

(* Taking a permit adds one holder. *)
LEMMA HoldingGains ==
    ASSUME NEW c \in Clients, TypeOK, client[c] # "holding",
           client' = [client EXCEPT ![c] = "holding"]
    PROVE  /\ Holding' = Holding \cup {c}
           /\ Cardinality(Holding') = Cardinality(Holding) + 1
<1>1. Holding' = Holding \cup {c} /\ c \notin Holding
  BY DEF Holding, TypeOK
<1>2. QED
  BY <1>1, HoldingFinite, FS_AddElement

(* Dropping a permit removes one holder. *)
LEMMA HoldingLoses ==
    ASSUME NEW c \in Clients, TypeOK, client[c] = "holding",
           client' = [client EXCEPT ![c] = "dropped"]
    PROVE  /\ Holding' = Holding \ {c}
           /\ Cardinality(Holding') = Cardinality(Holding) - 1
           /\ Cardinality(Holding) > 0
<1>1. Holding' = Holding \ {c} /\ c \in Holding
  BY DEF Holding, TypeOK
<1>2. Cardinality(Holding \ {c}) = Cardinality(Holding) - 1
  BY <1>1, HoldingFinite, FS_RemoveElement
<1>3. Cardinality(Holding) # 0
  BY <1>1, HoldingFinite, FS_EmptySet
<1>4. QED
  BY <1>1, <1>2, <1>3, HoldingFinite

(* Any other move of a transfer leaves the holders alone. *)
LEMMA HoldingKept ==
    ASSUME NEW c \in Clients, NEW to \in ClientStates \ {"holding"},
           TypeOK, client[c] # "holding", client' = [client EXCEPT ![c] = to]
    PROVE  Holding' = Holding
  BY DEF Holding, TypeOK
-----------------------------------------------------------------------------
(* The inductive invariant.  NoLostWakeup needs that whoever is woken is    *)
(* still registered; the count needs the types.                             *)
WokenAreRegistered == woken \subseteq registered

IInv == TypeOK /\ CountMatchesPermits /\ WokenAreRegistered /\ NoLostWakeup

(* The invariant holds at the start. *)
LEMMA InitIInv == Init => IInv
<1> SUFFICES ASSUME Init PROVE IInv
  OBVIOUS
<1>1. TypeOK
  BY DEF Init, TypeOK, ClientStates
<1>2. CountMatchesPermits
  <2>1. Holding = {}
    BY DEF Init, Holding
  <2>2. QED
    BY <2>1, FS_EmptySet DEF Init, CountMatchesPermits
<1>3. WokenAreRegistered /\ NoLostWakeup
  BY DEF Init, WokenAreRegistered, NoLostWakeup
<1>4. QED
  BY <1>1, <1>2, <1>3 DEF IInv

(* Every step keeps it, whoever acquires, drops or changes the limit. *)
LEMMA StepIInv == IInv /\ [Next]_vars => IInv'
<1> SUFFICES ASSUME IInv, [Next]_vars PROVE IInv'
  OBVIOUS
<1> USE DEF IInv
<1> USE LimiterAssumption
<1>1. ASSUME NEW c \in Clients, TryAcquireOnce(c) PROVE IInv'
  <2>1. TypeOK'
    BY <1>1 DEF TryAcquireOnce, TypeOK, ClientStates
  <2>2. CountMatchesPermits'
    BY <1>1, HoldingGains DEF TryAcquireOnce, CountMatchesPermits
  <2>3. WokenAreRegistered'
    BY <1>1 DEF TryAcquireOnce, WokenAreRegistered, registered, TypeOK
  <2>4. NoLostWakeup'
    BY <1>1 DEF TryAcquireOnce, NoLostWakeup, NotifyPending, Full, TypeOK
  <2>5. QED
    BY <2>1, <2>2, <2>3, <2>4
<1>2. ASSUME NEW c \in Clients, AcquireStart(c) PROVE IInv'
  <2>1. TypeOK'
    BY <1>2 DEF AcquireStart, TypeOK, ClientStates
  <2>2. CountMatchesPermits'
    BY <1>2, HoldingKept DEF AcquireStart, CountMatchesPermits, ClientStates
  <2>3. WokenAreRegistered'
    BY <1>2 DEF AcquireStart, WokenAreRegistered, registered, TypeOK
  <2>4. NoLostWakeup'
    BY <1>2 DEF AcquireStart, NoLostWakeup, NotifyPending, Full, TypeOK
  <2>5. QED
    BY <2>1, <2>2, <2>3, <2>4
<1>3. ASSUME NEW c \in Clients, AcquireEnable(c) PROVE IInv'
  <2>1. TypeOK'
    BY <1>3 DEF AcquireEnable, TypeOK, ClientStates
  <2>2. CountMatchesPermits'
    BY <1>3, HoldingKept DEF AcquireEnable, CountMatchesPermits, ClientStates
  <2>3. WokenAreRegistered'
    BY <1>3 DEF AcquireEnable, WokenAreRegistered, registered, TypeOK
  <2>4. NoLostWakeup'
    BY <1>3 DEF AcquireEnable, NoLostWakeup, NotifyPending, Full, TypeOK
  <2>5. QED
    BY <2>1, <2>2, <2>3, <2>4
<1>4. ASSUME NEW c \in Clients, AcquireTry(c) PROVE IInv'
  <2>1. CASE Full
    <3>1. /\ client[c] = "enabled" /\ client' = [client EXCEPT ![c] = "tried"]
          /\ UNCHANGED <<limit, active, woken, setter>>
      BY <1>4, <2>1 DEF AcquireTry
    <3>2. TypeOK'
      BY <3>1 DEF TypeOK, ClientStates
    <3>3. CountMatchesPermits'
      BY <3>1, HoldingKept DEF CountMatchesPermits, ClientStates
    <3>4. WokenAreRegistered'
      BY <3>1 DEF WokenAreRegistered, registered, TypeOK
    <3>5. NoLostWakeup'
      BY <2>1, <3>1 DEF NoLostWakeup, Full
    <3>6. QED
      BY <3>2, <3>3, <3>4, <3>5
  <2>2. CASE ~Full
    <3>1. /\ client[c] = "enabled" /\ client' = [client EXCEPT ![c] = "holding"]
          /\ active' = active + 1 /\ woken' = woken \ {c}
          /\ UNCHANGED <<limit, setter>>
      BY <1>4, <2>2 DEF AcquireTry
    <3>2. TypeOK'
      BY <3>1 DEF TypeOK, ClientStates
    <3>3. CountMatchesPermits'
      BY <3>1, HoldingGains DEF CountMatchesPermits
    <3>4. WokenAreRegistered'
      BY <3>1 DEF WokenAreRegistered, registered, TypeOK
    <3>5. NoLostWakeup'
      BY <3>1 DEF NoLostWakeup, NotifyPending, Full, TypeOK
    <3>6. QED
      BY <3>2, <3>3, <3>4, <3>5
  <2>3. QED
    BY <2>1, <2>2
<1>5. ASSUME NEW c \in Clients, AcquireWake(c) PROVE IInv'
  <2>1. TypeOK'
    BY <1>5 DEF AcquireWake, TypeOK, ClientStates
  <2>2. CountMatchesPermits'
    BY <1>5, HoldingKept DEF AcquireWake, CountMatchesPermits, ClientStates
  <2>3. WokenAreRegistered'
    BY <1>5 DEF AcquireWake, WokenAreRegistered, registered, TypeOK
  <2>4. NoLostWakeup'
    BY <1>5 DEF AcquireWake, NoLostWakeup, NotifyPending, Full, TypeOK
  <2>5. QED
    BY <2>1, <2>2, <2>3, <2>4
<1>6. ASSUME NEW c \in Clients, AcquireAbandon(c) PROVE IInv'
  <2>1. TypeOK'
    BY <1>6 DEF AcquireAbandon, TypeOK, ClientStates
  <2>2. CountMatchesPermits'
    BY <1>6, HoldingKept DEF AcquireAbandon, CountMatchesPermits, ClientStates
  <2>3. WokenAreRegistered'
    BY <1>6 DEF AcquireAbandon, WokenAreRegistered, registered, TypeOK
  <2>4. NoLostWakeup'
    BY <1>6 DEF AcquireAbandon, NoLostWakeup, NotifyPending, Full, TypeOK
  <2>5. QED
    BY <2>1, <2>2, <2>3, <2>4
<1>7. ASSUME NEW c \in Clients, DropCount(c) PROVE IInv'
  <2>1. CountMatchesPermits' /\ active > 0
    BY <1>7, HoldingLoses DEF DropCount, CountMatchesPermits
  <2>2. TypeOK'
    BY <1>7, <2>1 DEF DropCount, TypeOK, ClientStates
  <2>3. WokenAreRegistered'
    BY <1>7 DEF DropCount, WokenAreRegistered, registered, TypeOK
  <2>4. NoLostWakeup'
    BY <1>7 DEF DropCount, NoLostWakeup, NotifyPending, TypeOK
  <2>5. QED
    BY <2>1, <2>2, <2>3, <2>4
<1>8. ASSUME NEW c \in Clients, DropNotify(c) PROVE IInv'
  <2>1. TypeOK'
    BY <1>8 DEF DropNotify, NotifyWaiters, registered, TypeOK, ClientStates
  <2>2. CountMatchesPermits'
    BY <1>8, HoldingKept DEF DropNotify, CountMatchesPermits, ClientStates
  <2>3. WokenAreRegistered'
    BY <1>8 DEF DropNotify, NotifyWaiters, WokenAreRegistered, registered, TypeOK
  <2>4. NoLostWakeup'
    BY <1>8 DEF DropNotify, NotifyWaiters, NoLostWakeup, registered, TypeOK
  <2>5. QED
    BY <2>1, <2>2, <2>3, <2>4
<1>9. ASSUME NEW s \in Setters, SetLimit(s) PROVE IInv'
  <2>1. TypeOK'
    BY <1>9 DEF SetLimit, TypeOK
  <2>2. CountMatchesPermits'
    BY <1>9 DEF SetLimit, CountMatchesPermits, Holding
  <2>3. WokenAreRegistered'
    BY <1>9 DEF SetLimit, WokenAreRegistered, registered
  <2>4. NoLostWakeup'
    BY <1>9 DEF SetLimit, NoLostWakeup, NotifyPending, TypeOK
  <2>5. QED
    BY <2>1, <2>2, <2>3, <2>4
<1>10. ASSUME NEW s \in Setters, SetLimitNotify(s) PROVE IInv'
  <2>1. TypeOK'
    BY <1>10 DEF SetLimitNotify, NotifyWaiters, registered, TypeOK
  <2>2. CountMatchesPermits'
    BY <1>10 DEF SetLimitNotify, CountMatchesPermits, Holding
  <2>3. WokenAreRegistered'
    BY <1>10 DEF SetLimitNotify, NotifyWaiters, WokenAreRegistered, registered
  <2>4. NoLostWakeup'
    BY <1>10 DEF SetLimitNotify, NotifyWaiters, NoLostWakeup, registered
  <2>5. QED
    BY <2>1, <2>2, <2>3, <2>4
<1>11. ASSUME NEW c \in Clients, AcquireAwait(c) PROVE IInv'
  <2>1. TypeOK'
    BY <1>11 DEF AcquireAwait, TypeOK, ClientStates
  <2>2. CountMatchesPermits'
    BY <1>11, HoldingKept DEF AcquireAwait, CountMatchesPermits, ClientStates
  <2>3. WokenAreRegistered'
    BY <1>11 DEF AcquireAwait, WokenAreRegistered, registered, TypeOK
  <2>4. NoLostWakeup'
    BY <1>11 DEF AcquireAwait, NoLostWakeup, NotifyPending, Full, TypeOK
  <2>5. QED
    BY <2>1, <2>2, <2>3, <2>4
<1>12. CASE UNCHANGED vars
  BY <1>12 DEF vars, TypeOK, CountMatchesPermits, Holding, WokenAreRegistered,
     registered, NoLostWakeup, NotifyPending, Full
<1>13. QED
  BY <1>1, <1>2, <1>3, <1>4, <1>5, <1>6, <1>7, <1>8, <1>9, <1>10, <1>11, <1>12
     DEF Next, ClientNext

(* The limiter's inductive invariant holds in every reachable state. *)
THEOREM InductiveInvariant == Spec => []IInv
  BY InitIInv, StepIInv, PTL DEF Spec

(* concurrency_limiter.rs: every variable keeps its type; the active count   *)
(* never goes below zero, so `-= 1` in Permit::drop never underflows.        *)
THEOREM TypeCorrect == Spec => []TypeOK
  BY InductiveInvariant, PTL DEF IInv

(* The active count is the number of live permits. *)
THEOREM PermitsAreCounted == Spec => []CountMatchesPermits
  BY InductiveInvariant, PTL DEF IInv

(* No transfer sleeps in acquire while a slot is free and nobody is about to *)
(* wake it, whatever the number of transfers and limit changes.              *)
THEOREM NoWakeupIsLost == Spec => []NoLostWakeup
  BY InductiveInvariant, PTL DEF IInv
-----------------------------------------------------------------------------
(* Step simulation: a step of the limiter is a step of the semaphore or     *)
(* leaves it unchanged.                                                     *)
SemWaiting == {c \in Clients : client[c] \in {"looping", "enabled", "tried", "parked"}}

(* Every step of the limiter is a step of the semaphore, or none. *)
LEMMA StepRefines == IInv /\ IInv' /\ [Next]_vars => [Sem!Next]_(Sem!semVars)
<1> SUFFICES ASSUME IInv, [Next]_vars PROVE Sem!Next \/ UNCHANGED Sem!semVars
  BY DEF IInv
<1> USE DEF IInv
<1> DEFINE Stays == UNCHANGED <<limit, Holding, SemWaiting>>
<1>0. Stays => UNCHANGED Sem!semVars
  BY DEF Sem!semVars, SemWaiting
<1>1. ~Full => Sem!HasRoom
  <2>1. Sem!Cardinality(Holding) = Cardinality(Holding)
    BY Zenon DEF Sem!Cardinality, Cardinality
  <2>2. QED
    BY <2>1, LimiterAssumption, HoldingFinite
       DEF Full, Sem!HasRoom, CountMatchesPermits, TypeOK
<1>2. ASSUME NEW c \in Clients, TryAcquireOnce(c) PROVE Sem!GrantNow(c)
  BY <1>1, <1>2 DEF TryAcquireOnce, Sem!GrantNow, Holding, TypeOK
<1>3. ASSUME NEW c \in Clients, AcquireStart(c) PROVE Sem!Ask(c)
  BY <1>3 DEF AcquireStart, Sem!Ask, Holding, TypeOK
<1>4. ASSUME NEW c \in Clients, AcquireTry(c) PROVE Sem!Grant(c) \/ Stays
  <2>1. CASE Full
    BY <1>4, <2>1 DEF AcquireTry, Holding, SemWaiting, TypeOK
  <2>2. CASE ~Full
    BY <1>1, <1>4, <2>2 DEF AcquireTry, Sem!Grant, Holding, TypeOK
  <2>3. QED
    BY <2>1, <2>2
<1>5. ASSUME NEW c \in Clients, AcquireAbandon(c) PROVE Sem!GiveUp(c)
  BY <1>5 DEF AcquireAbandon, Sem!GiveUp, Holding, TypeOK
<1>6. ASSUME NEW c \in Clients, DropCount(c) PROVE Sem!Release({c})
  BY <1>6 DEF DropCount, Sem!Release, Holding, TypeOK
<1>7. ASSUME NEW s \in Setters, SetLimit(s) PROVE Sem!ChangeLimit
  BY <1>7 DEF SetLimit, Sem!ChangeLimit, Holding
<1>8. ASSUME NEW c \in Clients,
             AcquireEnable(c) \/ AcquireAwait(c) \/ AcquireWake(c) \/ DropNotify(c)
      PROVE  Stays
  BY <1>8 DEF AcquireEnable, AcquireAwait, AcquireWake, DropNotify, Holding, SemWaiting, TypeOK
<1>9. ASSUME NEW s \in Setters, SetLimitNotify(s) PROVE Stays
  BY <1>9 DEF SetLimitNotify, Holding, SemWaiting
<1>10. UNCHANGED vars => Stays
  BY DEF vars, Holding, SemWaiting
<1>11. QED
  BY <1>0, <1>2, <1>3, <1>4, <1>5, <1>6, <1>7, <1>8, <1>9, <1>10
     DEF Next, ClientNext, Sem!Next, Sem!GrantSome

(* The limiter implements the semaphore its callers rely on: a slot is only  *)
(* given while there is room, lowering the limit takes none back, and a      *)
(* permit is returned by its holder alone.                                   *)
THEOREM RefinesSemaphore == Spec => Sem!Spec
<1>1. Init => Sem!Init
  BY DEF Init, Sem!Init, Holding
<1>2. QED
  BY <1>1, StepRefines, InductiveInvariant, PTL DEF Spec, Sem!Spec
=============================================================================
